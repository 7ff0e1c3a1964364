-------------------------- MODULE FinalWindowProofs --------------------------
(* Proofs about the prefix cache of FinalWindow.                             *)
EXTENDS FinalWindow, SequenceTheorems, WellFoundedInduction, TLAPS

-----------------------------------------------------------------------------
(* Blocks and alignments *)

LEMMA Sizes ==
  /\ BlockSize \in Nat /\ BlockSize > 0 /\ Alignment \in Nat /\ Alignment > 0
  /\ Window \in Nat /\ Window > 0 /\ Window - 1 <= Alignment /\ Drafts \in Nat
  /\ 2 * Drafts + 1 <= BlockSize
BY WindowAssumption

LEMMA Floor ==
  ASSUME NEW d \in Nat, d > 0, NEW x \in Int
  PROVE  x \div d \in Int /\ (x \div d) * d <= x /\ x < (x \div d) * d + d
OBVIOUS

LEMMA Product ==
  ASSUME NEW d \in Nat, d > 0, NEW m \in Int, NEW n \in Int
  PROVE  /\ m * d \in Int /\ n * d \in Int /\ (m + 1) * d = m * d + d
         /\ (m - 1) * d = m * d - d
         /\ m < n => m * d + d <= n * d
         /\ m <= n => m * d <= n * d
         /\ m * d < n * d + d => m <= n
         /\ m * d < n * d => m < n
<1>1. m * d \in Int /\ n * d \in Int /\ (m + 1) * d = m * d + d /\ (m - 1) * d = m * d - d
  OBVIOUS
<1>2. ASSUME NEW a \in Int, NEW b \in Int, a < b PROVE a * d + d <= b * d
  <2>1. (b - a - 1) \in Nat
    BY <1>2
  <2>2. \A k \in Nat : k * d >= 0
    OBVIOUS
  <2>3. (b - a - 1) * d >= 0
    BY <2>1, <2>2
  <2>4. (b - a - 1) * d = b * d - a * d - d
    OBVIOUS
  <2> QED
    BY <2>3, <2>4
<1>3. m < n => m * d + d <= n * d
  BY <1>2
<1>4. n < m => n * d + d <= m * d
  BY <1>2
<1> QED
  BY <1>1, <1>3, <1>4

LEMMA Below ==
  ASSUME NEW m \in Int, NEW n \in Int, m * BlockSize < n * BlockSize + BlockSize
  PROVE  m <= n
BY Product, Sizes

LEMMA Scaled ==
  ASSUME NEW m \in Int, NEW n \in Int, m <= n
  PROVE  m * BlockSize \in Int /\ n * BlockSize \in Int /\ m * BlockSize <= n * BlockSize
BY Product, Sizes

LEMMA SeqFacts ==
  ASSUME NEW S, NEW s \in Seq(S)
  PROVE  Len(s) \in Nat /\ (s = <<>> <=> Len(s) = 0) /\ \A i \in 1..Len(s) : s[i] \in S
<1>1. Len(s) \in Nat /\ DOMAIN s = 1..Len(s) /\ s \in [1..Len(s) -> S]
  BY LenProperties
<1>2. s = <<>> <=> Len(s) = 0
  BY EmptySeq
<1> QED
  BY <1>1, <1>2

LEMMA FloorIs ==
  ASSUME NEW d \in Nat, d > 0, NEW x \in Int, NEW q \in Int, q * d <= x, x < q * d + d
  PROVE  x \div d = q
<1>1. x \div d \in Int /\ (x \div d) * d <= x /\ x < (x \div d) * d + d
  BY Floor
<1>2. ~ (x \div d < q)
  BY <1>1, Product
<1>3. ~ (q < x \div d)
  BY <1>1, Product
<1> QED
  BY <1>1, <1>2, <1>3

LEMMA FloorMono ==
  ASSUME NEW d \in Nat, d > 0, NEW x \in Int, NEW y \in Int, x <= y
  PROVE  x \div d <= y \div d
<1>1. x \div d \in Int /\ (x \div d) * d <= x /\ y \div d \in Int /\ y < (y \div d) * d + d
  BY Floor
<1> QED
  BY <1>1, Product

\* What is rounded down to a multiple of d.
LEMMA Multiple ==
  ASSUME NEW d \in Nat, d > 0, NEW q \in Int
  PROVE  (q * d) \div d = q
<1>1. q * d \in Int /\ q * d <= q * d /\ q * d < q * d + d
  BY Product
<1> QED
  BY <1>1, FloorIs

LEMMA RoundDown ==
  ASSUME NEW d \in Nat, d > 0, NEW x \in Int, NEW h \in Int, (h \div d) * d = h
  PROVE  /\ h <= x => h <= (x \div d) * d
         /\ x < h => (x \div d) * d + d <= h
         /\ ((h + d) \div d) * d = h + d
<1>1. x \div d \in Int /\ (x \div d) * d <= x /\ x < (x \div d) * d + d /\ h \div d \in Int
  BY Floor
<1>2. h <= x => h <= (x \div d) * d
  <2>1. h <= x => h \div d <= x \div d
    BY FloorMono
  <2> QED
    BY <1>1, <2>1, Product
<1>3. ASSUME x < h PROVE (x \div d) * d + d <= h
  <2>1. (x \div d) * d < (h \div d) * d
    BY <1>1, <1>3
  <2>2. x \div d < h \div d
    BY <1>1, <2>1, Product
  <2> QED
    BY <1>1, <2>2, Product
<1>4. ((h + d) \div d) * d = h + d
  <2>1. (h \div d + 1) * d = h + d
    BY <1>1, Product
  <2>2. (h + d) \div d = h \div d + 1
    BY <1>1, <2>1, Multiple
  <2> QED
    BY <2>1, <2>2
<1> QED
  BY <1>2, <1>3, <1>4

LEMMA Ceiling ==
  ASSUME NEW x \in Int
  PROVE  /\ cdiv(x, BlockSize) \in Int
         /\ x <= cdiv(x, BlockSize) * BlockSize
         /\ cdiv(x, BlockSize) * BlockSize <= x + BlockSize - 1
         /\ x >= 0 => cdiv(x, BlockSize) \in Nat
<1> DEFINE y == x + BlockSize - 1
<1>1. y \in Int /\ cdiv(x, BlockSize) = y \div BlockSize
  BY Sizes DEF cdiv
<1> HIDE DEF y
<1>2. y \div BlockSize \in Int /\ (y \div BlockSize) * BlockSize <= y
      /\ y < (y \div BlockSize) * BlockSize + BlockSize
  BY <1>1, Floor, Sizes
<1>3. x <= (y \div BlockSize) * BlockSize
  BY <1>2, Sizes DEF y
<1>4. x >= 0 => y \div BlockSize >= 0
  <2>1. x >= 0 => 0 * BlockSize < (y \div BlockSize) * BlockSize + BlockSize
    BY <1>3, <1>2, Sizes, Product
  <2> QED
    BY <1>2, <2>1, Sizes, Product
<1> QED
  BY <1>1, <1>2, <1>3, <1>4 DEF y

LEMMA CeilingMono ==
  ASSUME NEW x \in Int, NEW y \in Int, x <= y
  PROVE  cdiv(x, BlockSize) <= cdiv(y, BlockSize)
<1>1. x + BlockSize - 1 \in Int /\ y + BlockSize - 1 \in Int /\ x + BlockSize - 1 <= y + BlockSize - 1
  BY Sizes
<1> QED
  BY <1>1, FloorMono, Sizes DEF cdiv

\* A hit, or what a hit may be: a multiple of the alignment, so of the block.
LEMMA Aligned ==
  ASSUME NEW x \in Int
  PROVE  /\ Align(x) \in Int /\ Align(x) <= x /\ x < Align(x) + Alignment
         /\ Align(Align(x)) = Align(x) /\ (x >= 0 => Align(x) >= 0)
<1>1. x \div Alignment \in Int /\ Align(x) = (x \div Alignment) * Alignment /\ Align(x) \in Int
      /\ Align(x) <= x /\ x < Align(x) + Alignment
  BY Floor, Product, Sizes DEF Align
<1>2. Align(Align(x)) = Align(x)
  <2>1. ((x \div Alignment) * Alignment) \div Alignment = x \div Alignment
    BY <1>1, Multiple, Sizes
  <2> QED
    BY <1>1, <2>1 DEF Align
<1>3. x >= 0 => Align(x) >= 0
  <2>1. 0 * Alignment = 0 /\ 0 \in Int
    BY Sizes
  <2>2. x >= 0 => 0 * Alignment < (x \div Alignment) * Alignment + Alignment
    BY <1>1, <2>1, Sizes
  <2>3. x >= 0 => 0 <= x \div Alignment
    BY <1>1, <2>1, <2>2, Product, Sizes
  <2>4. 0 <= x \div Alignment => 0 * Alignment <= (x \div Alignment) * Alignment
    BY <1>1, <2>1, Product, Sizes
  <2> QED
    BY <1>1, <2>1, <2>3, <2>4
<1> QED
  BY <1>1, <1>2, <1>3

LEMMA AlignMono ==
  ASSUME NEW x \in Int, NEW h \in Int, Align(h) = h
  PROVE  (h <= x => h <= Align(x)) /\ (x < h => Align(x) + Alignment <= h)
BY RoundDown, Sizes DEF Align

LEMMA Alignments ==
  \E k \in Nat : k > 0 /\ Alignment = k * BlockSize
<1>1. Alignment \div BlockSize \in Int /\ Alignment = (Alignment \div BlockSize) * BlockSize
  BY WindowAssumption
<1>2. 0 < Alignment \div BlockSize
  <2>1. 0 * BlockSize < (Alignment \div BlockSize) * BlockSize /\ 0 \in Int
    BY <1>1, Sizes
  <2> QED
    BY <1>1, <2>1, Product, Sizes
<1> QED
  BY <1>1, <1>2

LEMMA AlignedBlocks ==
  ASSUME NEW h \in Int, Align(h) = h
  PROVE  FullBlocks(h) = h /\ (h \div BlockSize) * BlockSize = h
<1>1. PICK k \in Nat : k > 0 /\ Alignment = k * BlockSize
  BY Alignments
<1>2. h \div Alignment \in Int /\ (h \div Alignment) * k \in Int
  BY <1>1, Floor, Sizes
<1>3. h = (h \div Alignment) * Alignment
  BY DEF Align
<1>4. \A q \in Int : q * (k * BlockSize) = (q * k) * BlockSize
  BY <1>1, Sizes
<1>5. h = ((h \div Alignment) * k) * BlockSize
  BY <1>1, <1>2, <1>3, <1>4
<1>6. h \div BlockSize = (h \div Alignment) * k
  BY <1>2, <1>5, Multiple, Sizes
<1> QED
  BY <1>5, <1>6 DEF FullBlocks

LEMMA FullBlocksFacts ==
  ASSUME NEW x \in Int
  PROVE  /\ FullBlocks(x) \in Int /\ FullBlocks(x) <= x /\ x < FullBlocks(x) + BlockSize
         /\ FullBlocks(FullBlocks(x)) = FullBlocks(x)
<1>1. x \div BlockSize \in Int /\ FullBlocks(x) = (x \div BlockSize) * BlockSize
      /\ FullBlocks(x) \in Int /\ FullBlocks(x) <= x /\ x < FullBlocks(x) + BlockSize
  BY Floor, Product, Sizes DEF FullBlocks
<1>2. ((x \div BlockSize) * BlockSize) \div BlockSize = x \div BlockSize
  BY <1>1, Multiple, Sizes
<1> QED
  BY <1>1, <1>2 DEF FullBlocks

LEMMA Chosen ==
  ASSUME NEW x \in Int, NEW y \in Int
  PROVE  /\ AtLeast(x, y) \in Int /\ AtLeast(x, y) >= x /\ AtLeast(x, y) >= y
         /\ AtLeast(x, y) \in {x, y}
         /\ AtMost(x, y) \in Int /\ AtMost(x, y) <= x /\ AtMost(x, y) <= y
         /\ AtMost(x, y) \in {x, y}
BY DEF AtLeast, AtMost

-----------------------------------------------------------------------------
(* Windows, tails and the hold *)

\* The blocks of a window that start before its hit: Need, the peek block aside.
LEMMA Needed ==
  /\ Need \in Nat /\ Need > 0 /\ Window - 1 <= (Need - 1) * BlockSize
  /\ (Need - 1) * BlockSize <= Window - 1 + BlockSize - 1
  /\ (Need - 1) * BlockSize <= Alignment
<1> DEFINE c == cdiv(Window - 1, BlockSize)
<1>1. c \in Nat /\ Window - 1 <= c * BlockSize /\ c * BlockSize <= Window - 1 + BlockSize - 1
  BY Ceiling, Sizes
<1>2. Need = c + 1
  BY DEF Need
<1>3. PICK k \in Nat : k > 0 /\ Alignment = k * BlockSize
  BY Alignments
<1> HIDE DEF c
<1>4. c <= k
  <2>1. c * BlockSize < k * BlockSize + BlockSize
    BY <1>1, <1>3, Sizes
  <2> QED
    BY <1>1, <1>3, <2>1, Product, Sizes
<1>5. c * BlockSize <= Alignment
  BY <1>1, <1>3, <1>4, Product, Sizes
<1> QED
  BY <1>1, <1>2, <1>5

LEMMA FirstOf ==
  ASSUME NEW h \in Nat, Align(h) = h
  PROVE  /\ h \div BlockSize \in Nat /\ (h \div BlockSize) * BlockSize = h
         /\ First(h) \in Nat /\ First(h) <= h \div BlockSize
         /\ First(h) * BlockSize <= h
         /\ First(h) = 0 \/ First(h) * BlockSize <= h - (Window - 1)
         /\ First(h) * BlockSize >= h - (Window - 1) - (BlockSize - 1)
         /\ \A m \in Int : m * BlockSize <= h - (Window - 1) => m <= First(h)
<1> DEFINE q == h \div BlockSize
           f == q + 1 - Need
<1>1. q \in Int /\ q * BlockSize = h
  BY AlignedBlocks, Floor, Sizes
<1>2. First(h) = AtLeast(f, 0)
  BY DEF First
<1> HIDE DEF q
<1>3. q \in Nat
  <2>1. 0 * BlockSize < q * BlockSize + BlockSize
    BY <1>1, Sizes
  <2> QED
    BY <1>1, <2>1, Product, Sizes
<1>4. f \in Int /\ f * BlockSize = h - (Need - 1) * BlockSize /\ (Need - 1) * BlockSize \in Int
  <2>1. \A a, b, d \in Int : (a + 1 - b) * d = a * d - (b - 1) * d /\ (b - 1) * d \in Int
    OBVIOUS
  <2> QED
    BY <1>1, <2>1, Needed, Sizes
<1> HIDE DEF f
<1>5. First(h) \in Nat /\ (First(h) = 0 \/ First(h) = f) /\ First(h) >= f
  BY <1>2, <1>4 DEF AtLeast
<1>6. f <= q
  BY <1>1, Needed DEF f
<1>7. First(h) <= q
  BY <1>2, <1>3, <1>4, <1>6 DEF AtLeast
<1>8. f * BlockSize <= h - (Window - 1) /\ f * BlockSize >= h - (Window - 1) - (BlockSize - 1)
  BY <1>4, Needed, Sizes
<1>9. First(h) * BlockSize <= h
  BY <1>1, <1>5, <1>7, Product, Sizes
<1>10. First(h) * BlockSize >= f * BlockSize
  BY <1>4, <1>5, Product, Sizes
<1>11. ASSUME NEW m \in Int, m * BlockSize <= h - (Window - 1) PROVE m <= f
  <2>1. m * BlockSize \in Int /\ f * BlockSize \in Int
    BY <1>4, Product, Sizes
  <2>2. m * BlockSize < f * BlockSize + BlockSize
    BY <2>1, <1>8, <1>11, Sizes
  <2> QED
    BY <1>4, <2>2, Product, Sizes
<1>12. First(h) * BlockSize >= h - (Window - 1) - (BlockSize - 1)
  BY <1>4, <1>5, <1>8, <1>10, Product, Sizes
<1>13. First(h) = 0 \/ First(h) * BlockSize <= h - (Window - 1)
  BY <1>5, <1>8
<1>14. \A m \in Int : m * BlockSize <= h - (Window - 1) => m <= First(h)
  BY <1>4, <1>5, <1>11
<1> QED
  BY <1>1, <1>3, <1>5, <1>7, <1>9, <1>12, <1>13, <1>14 DEF q

LEMMA FirstMono ==
  ASSUME NEW h \in Nat, NEW b \in Nat, Align(h) = h, Align(b) = b, h <= b
  PROVE  First(h) <= First(b) /\ h \div BlockSize <= b \div BlockSize
<1>1. h \div BlockSize <= b \div BlockSize /\ h \div BlockSize \in Int /\ b \div BlockSize \in Int
  BY FloorMono, Floor, Sizes
<1> QED
  BY <1>1, Needed DEF First, AtLeast

LEMMA TailFacts ==
  ASSUME NEW b \in Nat, Align(b) = b, NEW i \in TailOf(b)
  PROVE  /\ i \in Nat /\ First(b) <= i /\ i <= b \div BlockSize
         /\ i * BlockSize <= b /\ (i + 1) * BlockSize <= b + BlockSize
         /\ b \div BlockSize + 1 - Need <= i
<1>1. First(b) \in Nat /\ b \div BlockSize \in Nat /\ (b \div BlockSize) * BlockSize = b
  BY FirstOf
<1>2. i \in Nat /\ First(b) <= i /\ i <= b \div BlockSize
  BY <1>1 DEF TailOf
<1>3. i * BlockSize <= b /\ (i + 1) * BlockSize <= b + BlockSize
  BY <1>1, <1>2, Product, Sizes
<1>4. b \div BlockSize + 1 - Need <= First(b)
  BY <1>1, Needed DEF First, AtLeast
<1> QED
  BY <1>1, <1>2, <1>3, <1>4, Needed

LEMMA Settings ==
  ASSUME config \in Configs
  PROVE  /\ Final \in BOOLEAN /\ Keep \in Nat /\ (Keep = 0 \/ Keep >= Window + Drafts + 1)
         /\ MaxInFlight \in Nat /\ MaxTokens \in Nat
         /\ Prompts \subseteq 1..(MaxTokens - 1) /\ Chunks \subseteq 1..MaxInFlight
         /\ \A p \in Prompts : p \in Nat /\ p > 0 /\ p < MaxTokens
         /\ \A c \in Chunks : c \in Nat /\ c > 0 /\ c <= MaxInFlight
<1>1. /\ Final \in BOOLEAN /\ Keep \in Nat /\ (Keep = 0 \/ Keep >= Window + Drafts + 1)
      /\ MaxInFlight \in Nat /\ MaxTokens \in Nat
      /\ Prompts \subseteq 1..(MaxTokens - 1) /\ Chunks \subseteq 1..MaxInFlight
  BY WindowAssumption DEF Final, Keep, MaxInFlight, MaxTokens, Prompts, Chunks
<1> QED
  BY <1>1

LEMMA Held ==
  ASSUME config \in Configs
  PROVE  Hold \in Nat /\ (Final => Hold >= Alignment + BlockSize - 1 + Keep)
<1>1. Final \in BOOLEAN /\ Keep \in Nat
  BY Settings
<1> DEFINE c == cdiv(Window - 1, BlockSize) * BlockSize
<1>2. c \in Int /\ Window - 1 <= c
  BY Ceiling, Product, Sizes
<1>3. Hold = IF Final THEN AtLeast(Alignment + BlockSize - 1 + Keep - (Window - 1) + c, 0) ELSE 0
  BY DEF Hold
<1> HIDE DEF c
<1> QED
  BY <1>1, <1>2, <1>3, Sizes DEF AtLeast

LEMMA Reserved ==
  ASSUME config \in Configs
  PROVE  /\ Reservation \in Nat
         /\ Reservation * BlockSize >= Window - 1 + MaxInFlight + BlockSize + Hold
<1>1. MaxInFlight \in Nat /\ Hold \in Nat
  BY Settings, Held
<1> DEFINE a == cdiv(Window - 1 + MaxInFlight, BlockSize)
           b == cdiv(Hold, BlockSize)
<1>2. a \in Nat /\ Window - 1 + MaxInFlight <= a * BlockSize /\ b \in Nat /\ Hold <= b * BlockSize
  BY <1>1, Ceiling, Sizes
<1>3. Reservation = a + 1 + b
  BY DEF Reservation
<1> HIDE DEF a, b
<1>4. (a + 1 + b) * BlockSize = a * BlockSize + BlockSize + b * BlockSize
  BY <1>2, Sizes
<1>5. a * BlockSize \in Int /\ b * BlockSize \in Int
  BY <1>2, Product, Sizes
<1> QED
  BY <1>1, <1>2, <1>3, <1>4, <1>5, Sizes

LEMMA Registered ==
  ASSUME NEW x \in Nat
  PROVE  /\ Registrable(x) \in Nat /\ Registrable(x) * BlockSize <= x
         /\ \A b \in Nat : Align(b) = b /\ b > 0 /\ b <= x => b \div BlockSize <= Registrable(x)
         /\ \A b \in Nat : Align(b) = b /\ b > 0 /\ b + BlockSize <= x => b \div BlockSize + 1 <= Registrable(x)
<1> DEFINE y == AtMost(x, Align(x) + BlockSize)
<1>1. Align(x) \in Nat /\ Align(x) <= x
  BY Aligned
<1>2. y \in Nat /\ y <= x /\ y <= Align(x) + BlockSize /\ (y = x \/ y = Align(x) + BlockSize)
  BY <1>1, Sizes DEF AtMost
<1>3. Registrable(x) = IF Align(x) > 0 THEN y \div BlockSize ELSE 0
  BY DEF Registrable
<1> HIDE DEF y
<1>4. y \div BlockSize \in Int /\ (y \div BlockSize) * BlockSize <= y /\ y < (y \div BlockSize) * BlockSize + BlockSize
  BY <1>2, Floor, Sizes
<1>5. y \div BlockSize \in Nat
  <2>1. 0 * BlockSize < (y \div BlockSize) * BlockSize + BlockSize
    BY <1>2, <1>4, Sizes
  <2> QED
    BY <1>4, <2>1, Product, Sizes
<1>6. Registrable(x) \in Nat /\ Registrable(x) * BlockSize <= x
  <2>1. 0 * BlockSize = 0
    BY Sizes
  <2>2. (y \div BlockSize) * BlockSize \in Int
    BY <1>4, Product, Sizes
  <2> QED
    BY <1>2, <1>3, <1>4, <1>5, <2>1, <2>2
<1>7. ASSUME NEW b \in Nat, Align(b) = b, b > 0, b <= x
      PROVE  /\ b \div BlockSize <= Registrable(x)
             /\ b + BlockSize <= x => b \div BlockSize + 1 <= Registrable(x)
  <2>1. b <= Align(x)
    BY <1>7, AlignMono
  <2>2. Registrable(x) = y \div BlockSize /\ b <= y /\ (b + BlockSize <= x => b + BlockSize <= y)
    BY <1>1, <1>2, <1>3, <1>7, <2>1, Sizes
  <2>3. (b \div BlockSize) * BlockSize = b /\ b \div BlockSize \in Int /\ (b \div BlockSize + 1) * BlockSize = b + BlockSize
    BY <1>7, FirstOf, Product, Sizes
  <2>4. b \div BlockSize <= y \div BlockSize
    BY <1>2, <2>2, FloorMono, Sizes
  <2>5. b + BlockSize <= y => b \div BlockSize + 1 <= y \div BlockSize
    <3>1. b + BlockSize <= y => (b \div BlockSize + 1) * BlockSize < (y \div BlockSize) * BlockSize + BlockSize
      BY <1>2, <1>4, <2>3, Sizes
    <3> QED
      BY <1>4, <2>3, <3>1, Product, Sizes
  <2> QED
    BY <2>2, <2>4, <2>5
<1> QED
  BY <1>6, <1>7, Sizes

LEMMA RegisteredMono ==
  ASSUME NEW x \in Nat, NEW y \in Nat, x <= y
  PROVE  Registrable(x) <= Registrable(y)
<1>1. Align(x) \in Nat /\ Align(y) \in Nat /\ Align(x) <= Align(y)
  BY Aligned, AlignMono
<1>2. Align(x) > 0 => Registrable(x) <= Registrable(y)
  <2>1. AtMost(x, Align(x) + BlockSize) <= AtMost(y, Align(y) + BlockSize)
    BY <1>1, Sizes DEF AtMost
  <2>2. AtMost(x, Align(x) + BlockSize) \in Int /\ AtMost(y, Align(y) + BlockSize) \in Int
    BY <1>1, Sizes DEF AtMost
  <2> QED
    BY <1>1, <2>1, <2>2, FloorMono, Sizes DEF Registrable
<1>3. ~ (Align(x) > 0) => Registrable(x) = 0
  BY DEF Registrable
<1> QED
  BY <1>2, <1>3, Registered

-----------------------------------------------------------------------------
(* What a lookup finds *)

\* Every nonempty set of naturals has a least element: what induction rests on.
LEMMA Least ==
  ASSUME NEW T \in SUBSET Nat, T # {}
  PROVE  \E x \in T : \A y \in T : x <= y
<1> DEFINE R == OpToRel(<, Nat)
<1>1. IsWellFoundedOn(R, Nat)
  BY NatLessThanWellFounded
<1>2. \E x \in T : \A y \in T : ~ (<<y, x>> \in R)
  BY <1>1, WFMin, Zenon
<1>3. \A x, y \in T : <<y, x>> \notin R => x <= y
  BY DEF OpToRel
<1> QED BY <1>2, <1>3

LEMMA Greatest ==
  ASSUME NEW n \in Nat, NEW T \in SUBSET (0..n), T # {}
  PROVE  Max(T) \in T /\ \A y \in T : y <= Max(T)
<1> DEFINE U == {n - y : y \in T}
<1>0. \A y \in T : y \in Nat /\ n - y \in Nat
  OBVIOUS
<1>1. U \in SUBSET Nat /\ U # {}
  BY <1>0
<1>2. PICK u \in U : \A v \in U : u <= v
  BY <1>1, Least
<1>3. PICK x \in T : u = n - x
  BY <1>2
<1>4. \A y \in T : n - y \in U
  OBVIOUS
<1>5. \A y \in T : x >= y
  <2> HIDE DEF U
  <2> QED
    BY <1>0, <1>2, <1>3, <1>4
<1> QED
  BY <1>5 DEF Max

\* What find_longest_cache_hit returns is a checkpoint that is cached in every
\* group, and no longer one is.
LEMMA Longest ==
  ASSUME config \in Configs, full \in Nat, NEW total \in Nat, total > 0
  PROVE  LET h == find_longest_cache_hit(total)
         IN /\ h \in Nat /\ Align(h) = h /\ h <= full /\ h <= MaxHit(total) /\ h < total
            /\ h > 0 => h + BlockSize <= MaxHit(total) /\ TailOf(h) \subseteq cached
            /\ \A b \in Nat : Align(b) = b /\ b <= full /\ b + BlockSize <= MaxHit(total)
                                /\ TailOf(b) \subseteq cached => b <= h
            /\ FullHit(total) \in Nat /\ FullHit(total) <= full
<1> DEFINE S == {h \in {Alignment * i : i \in 0..(FullHit(total) \div Alignment)} :
                   h > 0 => /\ h + BlockSize <= MaxHit(total)
                            /\ TailOf(h) \subseteq cached}
           m == MaxHit(total)
           g == FullHit(total)
           h == find_longest_cache_hit(total)
<1>1. h = Max(S)
  BY DEF find_longest_cache_hit
<1>2. m \in Nat /\ m < total
  BY Settings, Sizes DEF MaxHit, AtLeast
<1>3. g \in Nat /\ Align(g) = g /\ g <= full /\ g <= m
  <2>1. AtMost(full, m) \in Nat /\ AtMost(full, m) <= full /\ AtMost(full, m) <= m
    BY <1>2 DEF AtMost
  <2>2. g = Align(AtMost(full, m))
    BY DEF FullHit
  <2> QED
    BY <1>2, <2>1, <2>2, Aligned
<1>4. \A b \in Nat : Align(b) = b /\ b <= full /\ b <= m => b <= g
  <2>1. AtMost(full, m) \in Int /\ (AtMost(full, m) = full \/ AtMost(full, m) = m)
    BY <1>2 DEF AtMost
  <2> QED
    BY <1>2, <2>1, AlignMono DEF FullHit
<1>5. g \div Alignment \in Nat /\ (g \div Alignment) * Alignment = g
  <2>1. (g \div Alignment) * Alignment = g /\ g \div Alignment \in Int
    BY <1>3, Floor, Sizes DEF Align
  <2>2. 0 * Alignment < (g \div Alignment) * Alignment + Alignment
    BY <1>3, <2>1, Sizes
  <2> QED
    BY <2>1, <2>2, Product, Sizes
<1> HIDE DEF g, m
<1>6. ASSUME NEW i \in 0..(g \div Alignment)
      PROVE  i * Alignment \in Nat /\ Align(i * Alignment) = i * Alignment /\ i * Alignment <= g
  <2>1. i * Alignment \in Nat
    BY <1>5, Sizes
  <2>2. i * Alignment <= (g \div Alignment) * Alignment
    BY <1>5, Product, Sizes
  <2>3. (i * Alignment) \div Alignment = i
    BY <1>5, Multiple, Sizes
  <2> QED
    BY <1>5, <2>1, <2>2, <2>3 DEF Align
<1>7. \A i \in Int : Alignment * i = i * Alignment
  BY Sizes
<1>8. \A x \in S : /\ x \in Nat /\ Align(x) = x /\ x <= g
                   /\ x > 0 => x + BlockSize <= m /\ TailOf(x) \subseteq cached
  BY <1>5, <1>6, <1>7 DEF g, m
<1>9. 0 \in S
  <2>1. 0 \in 0..(g \div Alignment) /\ Alignment * 0 = 0
    BY <1>5, Sizes
  <2> QED
    BY <2>1 DEF g
<1>10. ASSUME NEW b \in Nat, Align(b) = b, b <= full, b + BlockSize <= m, TailOf(b) \subseteq cached
       PROVE  b \in S
  <2>1. b <= g
    BY <1>2, <1>4, <1>10, Sizes
  <2>2. b \div Alignment \in Int /\ (b \div Alignment) * Alignment = b /\ b \div Alignment <= g \div Alignment
    BY <1>3, <1>10, <2>1, Floor, FloorMono, Sizes DEF Align
  <2>3. b \div Alignment \in Nat
    <3>1. 0 * Alignment < (b \div Alignment) * Alignment + Alignment
      BY <2>2, Sizes
    <3> QED
      BY <2>2, <3>1, Product, Sizes
  <2>4. b \div Alignment \in 0..(g \div Alignment) /\ b = Alignment * (b \div Alignment)
    BY <1>5, <1>7, <2>2, <2>3
  <2> QED
    BY <1>10, <2>4 DEF g, m
<1> HIDE DEF S
<1>11. S \in SUBSET (0..g)
  BY <1>3, <1>8
<1>12. Max(S) \in S /\ \A y \in S : y <= Max(S)
  BY <1>3, <1>9, <1>11, Greatest
<1> HIDE DEF h
<1>13. /\ h \in Nat /\ Align(h) = h /\ h <= g
       /\ h > 0 => h + BlockSize <= m /\ TailOf(h) \subseteq cached
  BY <1>1, <1>8, <1>12
<1>14. \A b \in Nat : Align(b) = b /\ b <= full /\ b + BlockSize <= m /\ TailOf(b) \subseteq cached => b <= h
  BY <1>1, <1>10, <1>12
<1> QED
  BY <1>2, <1>3, <1>13, <1>14 DEF g, m, h

-----------------------------------------------------------------------------
(* What the steps have in common *)

LEMMA SameConfig ==
  ASSUME config' = config
  PROVE  /\ Final' = Final /\ Keep' = Keep /\ MaxInFlight' = MaxInFlight /\ MaxTokens' = MaxTokens
         /\ Hold' = Hold /\ Reservation' = Reservation /\ Blocks' = Blocks
BY DEF Final, Keep, MaxInFlight, MaxTokens, Hold, Reservation, Blocks

LEMMA BlockSet ==
  ASSUME config \in Configs
  PROVE  /\ Blocks \in SUBSET Nat
         /\ 0 \in Blocks
         /\ \A i \in Nat : i * BlockSize <= MaxTokens => i \in Blocks
         /\ \A x \in Nat : x <= MaxTokens + Drafts => cdiv(x, BlockSize) \in Blocks
<1> DEFINE c == cdiv(MaxTokens + Drafts, BlockSize)
<1>1. MaxTokens + Drafts \in Nat /\ MaxTokens \in Nat
  BY Settings, Sizes
<1>2. c \in Nat /\ MaxTokens + Drafts <= c * BlockSize
  BY <1>1, Ceiling
<1>3. Blocks = 0..c
  BY DEF Blocks
<1>4. ASSUME NEW x \in Nat, x <= MaxTokens + Drafts PROVE cdiv(x, BlockSize) \in Nat /\ cdiv(x, BlockSize) <= c
  BY <1>1, <1>4, Ceiling, CeilingMono
<1> HIDE DEF c
<1>5. ASSUME NEW i \in Nat, i * BlockSize <= MaxTokens PROVE i <= c
  <2>1. i * BlockSize < c * BlockSize + BlockSize
    BY <1>1, <1>2, <1>5, Sizes
  <2> QED
    BY <1>2, <2>1, Product, Sizes
<1> QED
  BY <1>2, <1>3, <1>4, <1>5

\* What registering the blocks of a step changes.
LEMMA CacheBlocks ==
  ASSUME config \in Configs, config' = config, full \in Nat, hollow \in SUBSET cached, cached \in SUBSET Blocks,
         prompt' \in Nat, tokens' \in Nat,
         NEW upto \in Nat, NEW done \in Nat, NEW from \in Nat, NEW lowest \in Nat,
         cache_blocks(upto, done, from, lowest)
  PROVE  LET known == AtMost(upto, tokens')
             b == KeepBoundary(prompt')
         IN /\ known \in Nat /\ known <= upto /\ known <= tokens' /\ known \in {upto, tokens'}
            /\ registered' = AtLeast(from, Registrable(known)) /\ full' = AtLeast(full, Align(known))
            /\ cached \subseteq cached' /\ cached' \in SUBSET Blocks /\ hollow' \in SUBSET cached'
            /\ \A i \in hollow' : i \in hollow \/ (i + 1) * BlockSize <= known
            /\ Keep > 0 /\ b > 0 =>
                 \A i \in TailOf(b) :
                   i \in Blocks /\ from <= i /\ i < Registrable(known) /\ lowest <= i => i \in cached'
<1> DEFINE known == AtMost(upto, tokens')
           end == Registrable(known)
           new == {i \in Blocks : /\ from <= i /\ i < end /\ lowest <= i
                                  /\ InSegmentTail(i) \/ InBoundaryTail(i, shared')}
<1>1. /\ registered' = AtLeast(from, end) /\ full' = AtLeast(full, Align(known))
      /\ cached' = cached \cup new /\ hollow' = hollow \cup {i \in new : (i + 1) * BlockSize > done}
  BY DEF cache_blocks
<1>2. known \in Nat /\ known <= upto /\ known <= tokens' /\ known \in {upto, tokens'}
  BY DEF AtMost
<1>3. end \in Nat /\ end * BlockSize <= known
  BY <1>2, Registered
<1>4. new \in SUBSET Blocks /\ \A i \in new : from <= i /\ i < end
  OBVIOUS
<1>5. ASSUME NEW i \in Blocks, NEW b \in Nat, b = KeepBoundary(prompt'), Keep > 0, b > 0, i \in TailOf(b),
             from <= i, i < end, lowest <= i
      PROVE  i \in new
  <2>1. Keep' = Keep /\ Keep \in Nat
    BY SameConfig, Settings
  <2>2. b = Align(prompt' - Keep - BlockSize) /\ prompt' - Keep - BlockSize \in Int
    BY <1>5, <2>1, Sizes DEF KeepBoundary
  <2>3. Align(b) = b /\ b <= prompt' - Keep - BlockSize
    BY <2>2, Aligned
  <2>4. prompt' - Keep - BlockSize \in ReachableBoundaries(shared')
    BY <1>5, <2>1, <2>2, <2>3 DEF ReachableBoundaries
  <2>5. ((b \div BlockSize) + 1) - Need <= i /\ i < (b \div BlockSize) + 1
    BY <1>5, <2>3, TailFacts, FirstOf, Needed
  <2>6. InBoundaryTail(i, shared')
    BY <2>2, <2>4, <2>5, Zenon DEF InBoundaryTail
  <2> QED
    BY <1>5, <2>6
<1> HIDE DEF new, end, known
<1>6. \A i \in hollow' : i \in hollow \/ (i + 1) * BlockSize <= known
  <2>1. SUFFICES ASSUME NEW i \in new PROVE (i + 1) * BlockSize <= known
    BY <1>1
  <2>2. i \in Nat /\ i < end
    BY <1>4, BlockSet
  <2>3. (i + 1) * BlockSize <= end * BlockSize /\ (i + 1) * BlockSize \in Int /\ end * BlockSize \in Int
    BY <1>3, <2>2, Product, Sizes
  <2> QED
    BY <1>2, <1>3, <2>3
<1>7. Keep > 0 /\ KeepBoundary(prompt') > 0 => KeepBoundary(prompt') \in Nat
  BY Settings, Aligned, Sizes DEF KeepBoundary
<1>8. \A i \in TailOf(KeepBoundary(prompt')) :
        Keep > 0 /\ KeepBoundary(prompt') > 0 /\ i \in Blocks /\ from <= i /\ i < end /\ lowest <= i => i \in cached'
  BY <1>1, <1>5, <1>7
<1>9. cached \subseteq cached' /\ cached' \in SUBSET Blocks /\ hollow' \in SUBSET cached'
  BY <1>1, <1>4
<1> QED
  BY <1>1, <1>2, <1>6, <1>8, <1>9 DEF end, known

\* A block table whose lower end is the hit's, or lies the window and the hold
\* behind, has the tail of every checkpoint from the hit on.
LEMMA TailHeld ==
  ASSUME config \in Configs, NEW h \in Nat, NEW b \in Nat, Align(h) = h, Align(b) = b, h <= b,
         NEW l \in Nat, NEW p \in Int, p - Hold <= b,
         l <= First(h) \/ l * BlockSize <= p - Window + 1 - Hold
  PROVE  l <= First(b)
<1>1. Hold \in Nat
  BY Held
<1>2. CASE l <= First(h)
  BY <1>2, FirstMono, FirstOf
<1>3. CASE l * BlockSize <= p - Window + 1 - Hold
  <2>1. l * BlockSize <= b - (Window - 1)
    BY <1>1, <1>3, Product, Sizes
  <2> QED
    BY <2>1, FirstOf
<1> QED
  BY <1>2, <1>3

\* get_num_skipped_tokens, in blocks.
LEMMA SkippedFacts ==
  ASSUME config \in Configs, NEW p \in Nat
  PROVE  /\ Skipped(p) \in Nat /\ Skipped(p) * BlockSize <= p
         /\ Skipped(p) = 0 \/ Skipped(p) * BlockSize <= p - Window + 1 - Hold
         /\ Skipped(p) * BlockSize >= p - Window + 1 - Hold - (BlockSize - 1)
<1> DEFINE x == AtLeast(p - Window + 1 - Hold, 0)
<1>1. Hold \in Nat
  BY Held
<1>2. x \in Nat /\ x <= p /\ (x = 0 \/ x = p - Window + 1 - Hold) /\ x >= p - Window + 1 - Hold
  BY <1>1, Sizes DEF AtLeast
<1>3. Skipped(p) = x \div BlockSize
  BY DEF Skipped
<1> HIDE DEF x
<1>4. x \div BlockSize \in Int /\ (x \div BlockSize) * BlockSize <= x /\ x < (x \div BlockSize) * BlockSize + BlockSize
      /\ (x \div BlockSize) * BlockSize \in Int
  BY <1>2, Floor, Product, Sizes
<1>5. x \div BlockSize >= 0
  <2>1. 0 * BlockSize < (x \div BlockSize) * BlockSize + BlockSize
    BY <1>2, <1>4, Sizes
  <2> QED
    BY <1>4, <2>1, Product, Sizes
<1>6. x = 0 => x \div BlockSize = 0
  BY Multiple, Sizes
<1> QED
  BY <1>1, <1>2, <1>3, <1>4, <1>5, <1>6, Sizes

\* A table from so many blocks below a position to what can be in flight past it
\* has no more blocks than the reservation.
LEMMA Reserves ==
  ASSUME config \in Configs, NEW p \in Nat, NEW x \in Int, NEW l \in Nat, NEW k \in Nat, x <= p + MaxInFlight,
         l * BlockSize >= p - (Window - 1) - Hold - (BlockSize - 1), k * BlockSize <= x + BlockSize - 1
  PROVE  k - l <= Reservation
<1>1. MaxInFlight \in Nat /\ Hold \in Nat /\ Reservation \in Nat
      /\ Reservation * BlockSize >= Window - 1 + MaxInFlight + BlockSize + Hold
  BY Settings, Held, Reserved
<1>2. (k - l) * BlockSize = k * BlockSize - l * BlockSize /\ k * BlockSize \in Int /\ l * BlockSize \in Int
      /\ k - l \in Int /\ Reservation * BlockSize \in Int
  BY <1>1, Sizes
<1>3. (k - l) * BlockSize < Reservation * BlockSize + BlockSize
  BY <1>1, <1>2, Sizes
<1> QED
  BY <1>1, <1>2, <1>3, Product, Sizes

\* The checkpoints a freed request may leave.
LEMMA BoundaryFacts ==
  ASSUME config \in Configs, NEW done \in Nat, NEW total \in Nat, NEW b \in Boundaries(done, total)
  PROVE  /\ b \in Nat /\ Align(b) = b /\ b > 0 /\ b + BlockSize <= done
         /\ b >= done - (BlockSize - 1) - Alignment \/ b >= total - Keep - BlockSize - Alignment + 1
<1>1. Keep \in Nat
  BY Settings
<1> DEFINE top == FullBlocks(done)
<1>2. top \in Int /\ top <= done /\ done < top + BlockSize /\ FullBlocks(top) = top
  BY FullBlocksFacts
<1>3. b \in {Align(top - BlockSize), Align(total - Keep - BlockSize)} /\ b >= Alignment /\ b + BlockSize <= top
  BY DEF Boundaries
<1> HIDE DEF top
<1>4. top - BlockSize \in Int /\ total - Keep - BlockSize \in Int
  BY <1>1, <1>2, Sizes
<1>5. b \in Int /\ Align(b) = b
  BY <1>3, <1>4, Aligned
<1>6. b = Align(total - Keep - BlockSize) => b >= total - Keep - BlockSize - Alignment + 1
  BY <1>1, <1>4, <1>5, Aligned, Sizes
<1>7. b = Align(top - BlockSize) => b >= top - Alignment
  <2>1. b = Align(top - BlockSize) => top < b + BlockSize + Alignment
    BY <1>2, <1>4, <1>5, Aligned, Sizes
  <2>2. FullBlocks(b + Alignment) = b + Alignment
    BY <1>5, RoundDown, AlignedBlocks, Sizes DEF Align
  <2>3. b + Alignment < top => b + Alignment + BlockSize <= top
    <3>1. b + Alignment \in Int
      BY <1>5, Sizes
    <3>2. b + Alignment < top => FullBlocks(b + Alignment) + BlockSize <= top
      BY <1>2, <3>1, RoundDown, Sizes DEF FullBlocks
    <3> QED
      BY <2>2, <3>2
  <2> QED
    BY <1>2, <1>5, <2>1, <2>3, Sizes
<1> QED
  BY <1>1, <1>2, <1>3, <1>5, <1>6, <1>7, Sizes

-----------------------------------------------------------------------------
(* The admission of a request *)

LEMMA AdmitKeeps ==
  ASSUME IInv, phase # "running", NEW p \in Nat, NEW t \in Nat, p > 0, p <= t, t < MaxTokens,
         NEW chunk \in Chunks, Admit(p, t, chunk)
  PROVE  IInv'
<1> DEFINE h == find_longest_cache_hit(t)
           n == AtMost(chunk, t - h)
           b == KeepBoundary(p)
           k == cdiv(h + n + Drafts, BlockSize)
<1> USE DEF IInv
<1>1. config \in Configs /\ config' = config
  BY DEF TypeInv, Admit
<1>2. /\ Final' = Final /\ Keep' = Keep /\ MaxInFlight' = MaxInFlight /\ MaxTokens' = MaxTokens
      /\ Hold' = Hold /\ Reservation' = Reservation /\ Blocks' = Blocks
  BY <1>1, SameConfig
<1>3. /\ Final \in BOOLEAN /\ Keep \in Nat /\ (Keep = 0 \/ Keep >= Window + Drafts + 1)
      /\ MaxInFlight \in Nat /\ MaxTokens \in Nat /\ Hold \in Nat /\ Reservation \in Nat
      /\ chunk \in Nat /\ chunk > 0 /\ chunk <= MaxInFlight
  BY <1>1, Settings, Held, Reserved
<1>4. /\ h \in Nat /\ Align(h) = h /\ h <= full /\ h <= MaxHit(t) /\ h < t
      /\ h > 0 => h + BlockSize <= MaxHit(t) /\ TailOf(h) \subseteq cached
      /\ \A x \in Nat : Align(x) = x /\ x <= full /\ x + BlockSize <= MaxHit(t)
                          /\ TailOf(x) \subseteq cached => x <= h
      /\ FullHit(t) \in Nat /\ FullHit(t) <= full
  BY <1>1, Longest, SMTT(20) DEF TypeInv
<1>5. /\ turns < MaxTurns /\ n + Drafts <= MaxInFlight
      /\ phase' = "running" /\ turns' = turns + 1 /\ prompt' = p /\ tokens' = t /\ prefill' = t /\ hit' = h
      /\ shared' = (IF FullHit(t) > h THEN FullHit(t) ELSE 0)
      /\ computed' = h + n /\ inflight' = n /\ flight' = <<n>>
      /\ low' = First(h) /\ len' = k
      /\ rows' = (IF Keep > 0 THEN {} ELSE (First(h) * BlockSize)..(h - 1))
      /\ last' = last /\ evictions' = evictions
  BY DEF Admit
<1>6. cache_blocks(h + n, h, h \div BlockSize, First(h))
  BY DEF Admit
<1> HIDE DEF h
<1>7. n \in Nat /\ n > 0 /\ n <= MaxInFlight /\ h + n <= t
  BY <1>3, <1>4, <1>5, Sizes DEF AtMost
<1> HIDE DEF n
<1>8. /\ h \div BlockSize \in Nat /\ (h \div BlockSize) * BlockSize = h
      /\ First(h) \in Nat /\ First(h) <= h \div BlockSize /\ First(h) * BlockSize <= h
      /\ First(h) = 0 \/ First(h) * BlockSize <= h - (Window - 1)
      /\ First(h) * BlockSize >= h - (Window - 1) - (BlockSize - 1)
  BY <1>4, FirstOf
<1>9. AtMost(h + n, t) = h + n
  BY <1>4, <1>7 DEF AtMost
<1>10. /\ registered' = AtLeast(h \div BlockSize, Registrable(h + n)) /\ full' = AtLeast(full, Align(h + n))
       /\ cached \subseteq cached' /\ cached' \in SUBSET Blocks /\ hollow' \in SUBSET cached'
       /\ \A i \in hollow' : i \in hollow \/ (i + 1) * BlockSize <= h + n
       /\ Keep > 0 /\ b > 0 =>
            \A i \in TailOf(b) :
              i \in Blocks /\ h \div BlockSize <= i /\ i < Registrable(h + n) /\ First(h) <= i => i \in cached'
  <2>1. h + n \in Nat /\ prompt' \in Nat /\ tokens' \in Nat
    BY <1>4, <1>5, <1>7
  <2>2. full \in Nat /\ hollow \in SUBSET cached /\ cached \in SUBSET Blocks
    BY DEF TypeInv
  <2> QED
    BY <1>1, <1>4, <1>5, <1>6, <1>8, <1>9, <2>1, <2>2, CacheBlocks
<1>11. Processed' = h /\ Prefilling'
  BY <1>4, <1>5, <1>7 DEF Processed, Prefilling
<1>12. Registrable(h + n) \in Nat /\ Registrable(h + n) * BlockSize <= h + n
  BY <1>4, <1>7, Registered
<1>13. /\ k \in Nat
       /\ h + n + Drafts <= k * BlockSize
       /\ k * BlockSize <= h + n + Drafts + BlockSize - 1
       /\ k \in Blocks
  <2>1. h + n + Drafts \in Nat /\ h + n + Drafts <= MaxTokens + Drafts
    BY <1>3, <1>4, <1>7, Sizes
  <2> QED
    BY <1>1, <2>1, Ceiling, BlockSet
<1> HIDE DEF k
<1>14. Align(h + n) \in Int /\ Align(h + n) <= h + n
  BY <1>4, <1>7, Aligned
<1>15. hollow = {}
  BY DEF BoundInv
<1>16. full' \in Nat /\ full <= full' /\ Align(h + n) <= full' /\ full' <= MaxTokens
  BY <1>3, <1>4, <1>7, <1>10, <1>14, SMTT(20) DEF AtLeast, TypeInv, BoundInv
<1>17. registered' \in Nat /\ registered' \in {h \div BlockSize, Registrable(h + n)}
       /\ registered' >= h \div BlockSize /\ registered' >= Registrable(h + n)
  BY <1>8, <1>10, <1>12 DEF AtLeast
<1>18. TypeInv'
  <2>1. rows' \in SUBSET (0..MaxTokens)
    <3>1. (First(h) * BlockSize) \in Nat
      BY <1>8, Sizes
    <3> QED
      BY <1>3, <1>4, <1>5, <3>1
  <2>2. flight' \in Seq(1..MaxInFlight)
    BY <1>3, <1>5, <1>7
  <2>3. turns' \in 0..MaxTurns
    BY <1>5, WindowAssumption DEF TypeInv
  <2>4. shared' \in Nat
    BY <1>4, <1>5
  <2>5. /\ config' \in Configs /\ phase' \in {"idle", "running", "preempted"}
        /\ prompt' \in Nat /\ tokens' \in Nat /\ prefill' \in Nat /\ hit' \in Nat
        /\ computed' \in Nat /\ inflight' \in Nat /\ low' \in Nat
    BY <1>1, <1>4, <1>5, <1>7, <1>8
  <2>6. len' \in Blocks
    BY <1>5, <1>13 DEF k
  <2>7. last' \in [done : Nat, prompt : Nat, tokens : Nat, hit : Nat, intact : BOOLEAN]
        /\ evictions' \in 0..MaxEvictions
    BY <1>5 DEF TypeInv
  <2> QED
    BY <1>2, <1>8, <1>10, <1>12, <1>16, <1>17, <2>1, <2>2, <2>3, <2>4, <2>5, <2>6, <2>7 DEF TypeInv
<1>19. MaxHit(t) = IF Keep > 0 THEN AtLeast(t - Keep, 0) ELSE t - 1
  BY DEF MaxHit
<1>20. BoundInv'
  <2>1. Keep > 0 /\ h > 0 => h + Keep <= t
    BY <1>3, <1>4, <1>19 DEF AtLeast
  <2>2. shared' <= MaxTokens
    BY <1>3, <1>4, <1>5, SMTT(20) DEF BoundInv, TypeInv
  <2>3. last.done <= last.tokens /\ last.prompt <= last.tokens /\ last.tokens <= MaxTokens /\ last.hit <= MaxTokens
    BY DEF BoundInv
  <2> QED
    BY <1>2, <1>3, <1>4, <1>5, <1>16, <2>1, <2>2, <2>3 DEF BoundInv
<1>21. FlightInv'
  <2>1. Len(flight') = 1 /\ flight'[1] = n /\ flight' # <<>>
    BY <1>5
  <2>2. (StepAt(Processed, flight[1]))'
    BY <1>4, <1>5, <1>7, <1>11, <2>1 DEF StepAt
  <2> QED
    BY <1>2, <1>3, <1>4, <1>5, <1>7, <1>11, <2>1, <2>2, Sizes DEF FlightInv
<1>22. TableInv'
  <2>1. First(h) <= k
    <3>1. First(h) * BlockSize < k * BlockSize + BlockSize
      BY <1>4, <1>7, <1>8, <1>13, Product, Sizes
    <3> QED
      BY <1>8, <1>13, <3>1, Product, Sizes
  <2>2. k <= cdiv(h + MaxInFlight, BlockSize)
    BY <1>3, <1>4, <1>5, <1>7, CeilingMono, Sizes DEF k
  <2>3. registered' <= k
    <3>1. registered' * BlockSize <= h + n
      BY <1>4, <1>7, <1>8, <1>12, <1>17
    <3>2. registered' * BlockSize \in Int /\ k * BlockSize \in Int
      BY <1>13, <1>17, Product, Sizes
    <3>3. registered' * BlockSize < k * BlockSize + BlockSize
      BY <1>4, <1>7, <1>13, <3>1, <3>2, Sizes
    <3> QED
      BY <1>13, <1>17, <3>3, Below
  <2>4. k - First(h) <= Reservation
    <3>1. h + n + Drafts \in Int /\ h + n + Drafts <= h + MaxInFlight
      BY <1>3, <1>4, <1>5, <1>7, Sizes
    <3>2. First(h) * BlockSize >= h - (Window - 1) - Hold - (BlockSize - 1)
      BY <1>3, <1>4, <1>8, Product, Sizes
    <3> QED
      BY <1>1, <1>4, <1>8, <1>13, <3>1, <3>2, Reserves
  <2>5. computed' <= len' * BlockSize
    <3>1. k * BlockSize \in Int /\ h + n <= k * BlockSize
      BY <1>4, <1>7, <1>13, Product, Sizes
    <3> QED
      BY <1>5, <3>1 DEF k
  <2>6. (Registrable(AtMost(computed, prefill)))' <= registered'
    BY <1>5, <1>9, <1>17
  <2>7. low' = First(hit') /\ len' = k
    BY <1>5 DEF k
  <2>8. cdiv(Processed + MaxInFlight, BlockSize)' = cdiv(h + MaxInFlight, BlockSize)
    BY <1>2, <1>11
  <2>9. len' - low' <= Reservation'
    BY <1>2, <1>5, <2>4, <2>7
  <2>10. (len <= cdiv(Processed + MaxInFlight, BlockSize))' /\ low' <= len' /\ registered' <= len'
    BY <1>5, <2>1, <2>2, <2>3, <2>7, <2>8 DEF k
  <2>11. (low <= First(hit) \/ low * BlockSize <= Processed - Window + 1 - Hold)'
    BY <1>5, <1>8, <2>7
  <2> QED
    BY <2>5, <2>6, <2>9, <2>10, <2>11, Zenon DEF TableInv
<1>23. CacheInv'
  <2>1. h + n \in Int /\ (h + n) - BlockSize \in Int
    BY <1>4, <1>7, Sizes
  <2>2. /\ Align((h + n) - BlockSize) \in Int /\ Align((h + n) - BlockSize) <= (h + n) - BlockSize
        /\ Align(Align((h + n) - BlockSize)) = Align((h + n) - BlockSize)
    BY <2>1, Aligned
  <2>3. Align((h + n) - BlockSize) <= Align(h + n)
    BY <2>1, <2>2, AlignMono, Sizes
  <2>4. Align(computed' - BlockSize) <= full'
    BY <1>5, <1>14, <1>16, <2>2, <2>3
  <2>5. \A i \in hollow' : (i + 1) * BlockSize <= computed' /\ (i + 1) * BlockSize <= tokens'
    <3>1. SUFFICES ASSUME NEW i \in hollow' PROVE (i + 1) * BlockSize <= h + n /\ (i + 1) * BlockSize <= t
      BY <1>5
    <3>2. (i + 1) * BlockSize <= h + n
      BY <1>10, <1>15
    <3>3. i \in Nat
      BY <1>1, <1>10, BlockSet
    <3> QED
      BY <1>4, <1>7, <3>2, <3>3, Product, Sizes
  <2> QED
    BY <2>4, <2>5, Zenon DEF CacheInv
<1>24. LeftInv'
  <2>1. ASSUME Final, last.intact, t >= last.tokens,
               NEW x \in Boundaries(last.done, last.tokens), x >= last.hit, x + BlockSize <= MaxHit(t)
        PROVE  x <= h
    <3>1. x \in Nat /\ Align(x) = x
      BY <1>1, <1>3, BoundaryFacts DEF TypeInv
    <3>2. TailOf(x) \subseteq cached /\ x <= full
      BY <2>1 DEF LeftInv
    <3> QED
      BY <1>4, <2>1, <3>1, <3>2
  <2>2. (Boundaries(last.done, last.tokens))' = Boundaries(last.done, last.tokens) /\ MaxHit(prefill)' = MaxHit(t)
    BY <1>2, <1>5 DEF Boundaries, MaxHit
  <2>3. ContinuationHits'
    BY <1>2, <1>4, <1>5, <2>1, <2>2 DEF ContinuationHits
  <2> QED
    BY <1>5, <2>3 DEF LeftInv
<1>25. RetryInv'
  <2>1. KeepBoundary(prompt)' = b /\ KeepBoundary(last.prompt)' = KeepBoundary(last.prompt)
    BY <1>2, <1>5 DEF KeepBoundary
  <2>2. ASSUME Keep > 0, b > 0, b >= h, NEW i \in TailOf(b), i < registered' PROVE i \in cached'
    <3>1. b \in Nat /\ Align(b) = b /\ b <= MaxTokens
      BY <1>3, <2>2, Aligned, Sizes DEF KeepBoundary
    <3>2. i \in Nat /\ First(b) <= i /\ i * BlockSize <= b
      BY <2>2, <3>1, TailFacts
    <3>3. i \in Blocks
      <4>1. i * BlockSize <= MaxTokens
        BY <1>3, <3>1, <3>2, Product, Sizes
      <4> QED
        BY <1>1, <3>2, <4>1, BlockSet
    <3>4. CASE i < h \div BlockSize
      <4>1. h > 0
        <5>1. h = 0 => h \div BlockSize = 0
          BY <1>8, Multiple, Sizes
        <5> QED
          BY <1>4, <3>2, <3>4, <5>1
      <4>2. First(h) <= First(b) /\ First(b) \in Nat
        BY <1>4, <2>2, <3>1, FirstMono, FirstOf
      <4>3. i \in TailOf(h)
        BY <1>8, <3>2, <3>4, <4>2 DEF TailOf
      <4> QED
        BY <1>4, <1>10, <4>1, <4>3
    <3>5. CASE h \div BlockSize <= i
      <4>1. i < Registrable(h + n) /\ First(h) <= i
        BY <1>8, <1>12, <1>17, <2>2, <3>2, <3>5
      <4> QED
        BY <1>10, <2>2, <3>3, <3>5, <4>1
    <3> QED
      BY <1>8, <3>2, <3>4, <3>5
  <2> DEFINE c == KeepBoundary(last.prompt)
  <2>3. ASSUME Keep > 0, evictions = 0, last.done >= last.prompt, c > 0, c >= last.hit
        PROVE  TailOf(c) \subseteq cached /\ c <= full
    BY <2>3 DEF RetryInv
  <2>4. ASSUME Keep > 0, evictions = 0, t = last.prompt, last.done >= last.prompt, c >= last.hit
        PROVE  h >= c
    <3>1. c \in Int /\ Align(c) = c /\ c <= t - Keep - BlockSize
      BY <1>3, <2>4, Aligned, Sizes DEF KeepBoundary
    <3>2. c > 0 => c + BlockSize <= MaxHit(t)
      BY <1>3, <1>19, <2>4, <3>1, Sizes DEF AtLeast
    <3> QED
      BY <1>4, <2>3, <2>4, <3>1, <3>2
  <2>5. RetryHits'
    <3>1. ASSUME Keep > 0, evictions = 0, t = last.prompt, last.done >= last.prompt, Align(t - Keep - BlockSize) >= last.hit
          PROVE  h >= Align(t - Keep - BlockSize)
      BY <2>4, <3>1 DEF KeepBoundary
    <3> QED
      BY <1>2, <1>5, <3>1 DEF RetryHits
  <2>6. ASSUME Keep > 0, evictions = 0, last.done >= last.prompt, c > 0, c >= last.hit
        PROVE  TailOf(c) \subseteq cached' /\ c <= full'
    <3>1. c \in Int
      <4>1. last.prompt \in Nat
        BY DEF TypeInv
      <4> QED
        BY <1>3, <4>1, Aligned, Sizes DEF KeepBoundary
    <3> QED
      BY <1>10, <1>16, <2>3, <2>6, <3>1 DEF TypeInv
  <2> HIDE DEF c
  <2> QED
    BY <1>2, <1>5, <2>1, <2>2, <2>5, <2>6 DEF RetryInv, c
<1>26. RowsInv'
  <2>1. (LowerBound)' = IF Keep > 0 /\ t > Keep THEN t - Keep ELSE 0
    BY <1>2, <1>5, <1>11 DEF LowerBound, Truncated
  <2>2. CASE Keep > 0
    <3>1. h = 0 \/ (h <= t - Keep /\ t > Keep)
      BY <1>3, <1>4, <1>19, <2>2, Sizes DEF AtLeast
    <3>2. (LowerBound)' \in Nat /\ AtLeast(h - Window + 1, LowerBound') >= LowerBound'
      BY <1>3, <1>4, <2>1, Sizes DEF AtLeast
    <3>3. h - 1 < LowerBound'
      BY <1>3, <1>4, <2>1, <2>2, <3>1
    <3>4. AtLeast(h - Window + 1, LowerBound')..(h - 1) = {}
      BY <1>4, <3>2, <3>3, Sizes DEF AtLeast
    <3> QED
      BY <1>11, <3>4 DEF RowsInv
  <2>3. CASE Keep = 0
    <3>1. LowerBound' = 0 /\ rows' = (First(h) * BlockSize)..(h - 1)
      BY <1>5, <2>1, <2>3
    <3>2. (First(h) * BlockSize) \in Nat /\ First(h) * BlockSize <= AtLeast(h - Window + 1, 0)
      BY <1>4, <1>8, Sizes DEF AtLeast
    <3>3. AtLeast(h - Window + 1, 0) \in Int
      BY <1>4, Sizes DEF AtLeast
    <3> QED
      BY <1>4, <1>11, <3>1, <3>2, <3>3 DEF RowsInv
  <2> QED
    BY <1>3, <2>2, <2>3
<1> QED
  BY <1>18, <1>20, <1>21, <1>22, <1>23, <1>24, <1>25, <1>26

-----------------------------------------------------------------------------
(* A step is scheduled *)

\* What a running request's counters say of the steps in flight.
LEMMA InFlight ==
  ASSUME IInv, phase = "running"
  PROVE  /\ Processed \in Nat /\ computed = Processed + inflight /\ hit <= Processed /\ inflight <= MaxInFlight
         /\ Len(flight) \in 0..2 /\ (flight = <<>> <=> Len(flight) = 0)
         /\ flight = <<>> => inflight = 0
         /\ Len(flight) = 1 => inflight = flight[1]
         /\ Len(flight) = 2 => inflight = flight[1] + flight[2] /\ flight[2] \in 1..MaxInFlight
                               /\ StepAt(Processed + flight[1], flight[2])
         /\ Len(flight) > 0 => flight[1] \in 1..MaxInFlight /\ StepAt(Processed, flight[1])
<1>1. config \in Configs /\ computed \in Nat /\ inflight \in Nat /\ hit \in Nat /\ flight \in Seq(1..MaxInFlight)
  BY DEF IInv, TypeInv
<1>2. /\ Len(flight) <= 2
      /\ inflight = (IF flight = <<>> THEN 0 ELSE flight[1]) + (IF Len(flight) < 2 THEN 0 ELSE flight[2])
      /\ hit <= Processed /\ inflight + Drafts <= MaxInFlight
      /\ flight # <<>> => StepAt(Processed, flight[1])
      /\ Len(flight) = 2 => StepAt(Processed + flight[1], flight[2])
  BY DEF IInv, FlightInv
<1>3. Processed \in Int /\ computed = Processed + inflight
  BY <1>1 DEF Processed
<1>4. Len(flight) \in Nat /\ (flight = <<>> <=> Len(flight) = 0)
      /\ \A i \in 1..Len(flight) : flight[i] \in 1..MaxInFlight
  BY <1>1, SeqFacts
<1>5. Processed \in Nat
  BY <1>1, <1>2, <1>3
<1>6. MaxInFlight \in Nat
  BY <1>1, Settings
<1>7. Len(flight) > 0 => flight[1] \in 1..MaxInFlight /\ flight[1] \in Nat
  BY <1>4, <1>6
<1>8. Len(flight) = 2 => flight[2] \in 1..MaxInFlight
  BY <1>4
<1>9. Len(flight) \in 0..2
  <2>1. \A x \in Nat : x <= 2 => x \in 0..2
    OBVIOUS
  <2> QED
    BY <1>2, <1>4, <2>1
<1>10. Len(flight) = 1 => inflight = flight[1]
  BY <1>2, <1>4, <1>7
<1>11. Len(flight) = 2 => inflight = flight[1] + flight[2]
  BY <1>2, <1>4
<1>12. flight = <<>> => inflight = 0
  BY <1>2, <1>4
<1>13. inflight <= MaxInFlight
  BY <1>1, <1>2, <1>6, Sizes
<1> QED
  BY <1>2, <1>3, <1>4, <1>5, <1>7, <1>8, <1>9, <1>10, <1>11, <1>12, <1>13

LEMMA ScheduleKeeps ==
  ASSUME IInv, Schedule
  PROVE  IInv'
<1> USE DEF IInv
<1>1. /\ phase = "running" /\ Len(flight) < 2
      /\ phase' = phase /\ config' = config /\ prompt' = prompt /\ tokens' = tokens /\ prefill' = prefill
      /\ hit' = hit /\ shared' = shared /\ rows' = rows /\ last' = last /\ turns' = turns
      /\ evictions' = evictions
  BY DEF Schedule, request
<1>2. PICK n \in (IF computed < prefill THEN {AtMost(chunk, prefill - computed) : chunk \in Chunks} ELSE {1 + Drafts}) :
        /\ inflight + n + Drafts <= MaxInFlight
        /\ computed + n < MaxTokens
        /\ Allocate(n)
        /\ computed' = computed + n /\ inflight' = inflight + n
        /\ flight' = Append(flight, n)
  BY DEF Schedule
<1>3. config \in Configs
  BY DEF TypeInv
<1>4. /\ Final' = Final /\ Keep' = Keep /\ MaxInFlight' = MaxInFlight /\ MaxTokens' = MaxTokens
      /\ Hold' = Hold /\ Reservation' = Reservation /\ Blocks' = Blocks
  BY <1>1, <1>3, SameConfig
<1>5. /\ Final \in BOOLEAN /\ Keep \in Nat /\ MaxInFlight \in Nat /\ MaxTokens \in Nat /\ Hold \in Nat
      /\ Reservation \in Nat
  BY <1>3, Settings, Held, Reserved
<1>6. /\ prompt \in Nat /\ tokens \in Nat /\ prefill \in Nat /\ hit \in Nat /\ shared \in Nat
      /\ computed \in Nat /\ inflight \in Nat /\ flight \in Seq(1..MaxInFlight)
      /\ low \in Nat /\ len \in Blocks /\ len \in Nat /\ registered \in Nat /\ full \in Nat
      /\ cached \in SUBSET Blocks /\ hollow \in SUBSET cached
  BY <1>3, BlockSet DEF TypeInv
<1>7. n \in Nat /\ n > 0 /\ n <= MaxInFlight /\ (computed < prefill => computed + n <= prefill)
      /\ (prefill <= computed => n = 1 + Drafts)
  <2>1. \A c \in Chunks : c \in Nat /\ c > 0 /\ c <= MaxInFlight
    BY <1>3, Settings
  <2>2. CASE computed < prefill
    <3>1. PICK c \in Chunks : n = AtMost(c, prefill - computed)
      BY <1>2, <2>2
    <3> QED
      BY <1>5, <1>6, <2>1, <2>2, <3>1 DEF AtMost
  <2>3. CASE ~ (computed < prefill)
    BY <1>2, <1>5, <1>6, <2>3, Sizes
  <2> QED
    BY <2>2, <2>3
<1>8. /\ Processed \in Nat /\ computed = Processed + inflight /\ hit <= Processed
      /\ Len(flight) \in 0..2 /\ (flight = <<>> <=> Len(flight) = 0)
      /\ flight = <<>> => inflight = 0
      /\ Len(flight) = 1 => inflight = flight[1]
      /\ Len(flight) > 0 => flight[1] \in 1..MaxInFlight /\ StepAt(Processed, flight[1])
  BY <1>1, InFlight
<1>9. Processed' = Processed /\ (Prefilling <=> Processed < prefill) /\ (Prefilling' <=> Prefilling)
  BY <1>1, <1>2, <1>6, <1>7 DEF Processed, Prefilling
<1>10. /\ prompt > 0 /\ computed < MaxTokens /\ tokens < MaxTokens /\ inflight + Drafts <= MaxInFlight
       /\ tokens = IF Prefilling THEN prefill ELSE Processed + 1
  BY <1>1 DEF FlightInv
<1>11. computed + n <= tokens + 2 * Drafts + 1
  <2>1. CASE flight = <<>>
    BY <1>6, <1>7, <1>8, <1>9, <1>10, <2>1, Sizes
  <2>2. CASE Len(flight) = 1
    <3>1. StepAt(Processed, inflight)
      BY <1>8, <2>2
    <3>2. IF Processed < prefill THEN computed <= prefill ELSE inflight = 1 + Drafts
      BY <1>8, <3>1 DEF StepAt
    <3> QED
      BY <1>6, <1>7, <1>8, <1>9, <1>10, <3>2, Sizes
  <2> QED
    BY <1>1, <1>8, <2>1, <2>2
<1>12. /\ low' = AtLeast(low, AtMost(Skipped(Processed), len))
       /\ len' = AtLeast(len, cdiv(computed + n + Drafts, BlockSize))
       /\ cache_blocks(computed + n, Processed, registered, low')
  BY <1>2 DEF Allocate, SafeToFree
<1> DEFINE k == cdiv(computed + n + Drafts, BlockSize)
<1>13. /\ k \in Nat /\ computed + n + Drafts <= k * BlockSize
       /\ k * BlockSize <= computed + n + Drafts + BlockSize - 1
       /\ k \in Blocks /\ k <= cdiv(Processed + MaxInFlight, BlockSize)
  <2>1. computed + n + Drafts \in Nat /\ computed + n + Drafts <= MaxTokens + Drafts
        /\ computed + n + Drafts <= Processed + MaxInFlight /\ Processed + MaxInFlight \in Nat
    BY <1>2, <1>5, <1>6, <1>7, <1>8, Sizes
  <2> QED
    BY <1>3, <2>1, Ceiling, CeilingMono, BlockSet
<1> HIDE DEF k
<1>14. /\ Skipped(Processed) \in Nat /\ Skipped(Processed) * BlockSize <= Processed
       /\ Skipped(Processed) = 0 \/ Skipped(Processed) * BlockSize <= Processed - Window + 1 - Hold
       /\ Skipped(Processed) * BlockSize >= Processed - Window + 1 - Hold - (BlockSize - 1)
  BY <1>3, <1>8, SkippedFacts
<1>15. /\ low <= First(hit) \/ low * BlockSize <= Processed - Window + 1 - Hold
       /\ low <= len /\ computed <= len * BlockSize
       /\ len <= cdiv(Processed + MaxInFlight, BlockSize) /\ len - low <= Reservation
       /\ registered <= len /\ Registrable(AtMost(computed, prefill)) <= registered
  BY <1>1 DEF TableInv
<1>16. low' \in Nat /\ low <= low' /\ Skipped(Processed) <= low' /\ low' \in {low, Skipped(Processed)} /\ low' <= len
  <2>1. Skipped(Processed) <= len
    <3>1. Skipped(Processed) * BlockSize < len * BlockSize + BlockSize
      <4>1. len * BlockSize \in Int /\ Skipped(Processed) * BlockSize \in Int
        BY <1>6, <1>14, Product, Sizes
      <4> QED
        BY <1>6, <1>8, <1>14, <1>15, <4>1, Sizes
    <3> QED
      BY <1>6, <1>14, <3>1, Below
  <2> QED
    BY <1>6, <1>12, <1>14, <1>15, <2>1 DEF AtLeast, AtMost
<1>17. len' \in Nat /\ len' \in Blocks /\ len <= len' /\ k <= len' /\ len' \in {len, k}
  BY <1>6, <1>12, <1>13 DEF AtLeast, k
<1> DEFINE known == AtMost(computed + n, tokens)
           b == KeepBoundary(prompt)
<1>18. /\ known \in Nat /\ known <= computed + n /\ known <= tokens /\ known \in {computed + n, tokens}
       /\ registered' = AtLeast(registered, Registrable(known)) /\ full' = AtLeast(full, Align(known))
       /\ cached \subseteq cached' /\ cached' \in SUBSET Blocks /\ hollow' \in SUBSET cached'
       /\ \A i \in hollow' : i \in hollow \/ (i + 1) * BlockSize <= known
       /\ Keep > 0 /\ b > 0 =>
            \A i \in TailOf(b) :
              i \in Blocks /\ registered <= i /\ i < Registrable(known) /\ low' <= i => i \in cached'
  <2>1. prompt' \in Nat /\ tokens' \in Nat /\ computed + n \in Nat
    BY <1>1, <1>6, <1>7
  <2>2. config' = config
    BY <1>1
  <2>3. LET known2 == AtMost(computed + n, tokens')
            b2 == KeepBoundary(prompt')
        IN /\ known2 \in Nat /\ known2 <= computed + n /\ known2 <= tokens' /\ known2 \in {computed + n, tokens'}
           /\ registered' = AtLeast(registered, Registrable(known2)) /\ full' = AtLeast(full, Align(known2))
           /\ cached \subseteq cached' /\ cached' \in SUBSET Blocks /\ hollow' \in SUBSET cached'
           /\ \A i \in hollow' : i \in hollow \/ (i + 1) * BlockSize <= known2
           /\ Keep > 0 /\ b2 > 0 =>
                \A i \in TailOf(b2) :
                  i \in Blocks /\ registered <= i /\ i < Registrable(known2) /\ low' <= i => i \in cached'
    <3>1. /\ config \in Configs /\ config' = config /\ full \in Nat /\ hollow \in SUBSET cached /\ cached \in SUBSET Blocks
          /\ prompt' \in Nat /\ tokens' \in Nat
      BY <1>3, <1>6, <2>1, <2>2, Zenon
    <3>2. computed + n \in Nat /\ Processed \in Nat /\ registered \in Nat /\ low' \in Nat
      BY <1>6, <1>8, <1>16, <2>1, Zenon
    <3>3. cache_blocks(computed + n, Processed, registered, low')
      BY <1>12, Zenon
    <3> QED
      BY <3>1, <3>2, <3>3, CacheBlocks, Zenon
  <2> QED
    BY <1>1, <2>3
<1> HIDE DEF known
<1>19. Registrable(known) \in Nat /\ Registrable(known) * BlockSize <= known
  BY <1>18, Registered
<1>20. registered' \in Nat /\ registered <= registered' /\ Registrable(known) <= registered'
       /\ registered' \in {registered, Registrable(known)}
  BY <1>6, <1>18, <1>19 DEF AtLeast
<1>21. Align(known) \in Int /\ Align(known) <= known
  BY <1>18, Aligned
<1>22. full' \in Nat /\ full <= full' /\ Align(known) <= full' /\ full' <= MaxTokens
  BY <1>5, <1>6, <1>10, <1>18, <1>21, SMTT(20) DEF AtLeast, BoundInv
<1>23. TypeInv'
  <2>1. flight' \in Seq(1..MaxInFlight)
    BY <1>2, <1>5, <1>6, <1>7
  <2>2. computed' \in Nat /\ inflight' \in Nat
    BY <1>2, <1>6, <1>7
  <2>3. rows \in SUBSET (0..MaxTokens) /\ turns \in 0..MaxTurns /\ evictions \in 0..MaxEvictions
        /\ last \in [done : Nat, prompt : Nat, tokens : Nat, hit : Nat, intact : BOOLEAN]
        /\ phase \in {"idle", "running", "preempted"}
    BY DEF TypeInv
  <2> QED
    BY <1>1, <1>3, <1>4, <1>6, <1>16, <1>17, <1>18, <1>20, <1>22, <2>1, <2>2, <2>3 DEF TypeInv
<1>24. BoundInv'
  BY <1>1, <1>4, <1>22 DEF BoundInv
<1>25. FlightInv'
  <2>1. CASE flight = <<>>
    <3>1. Len(flight') = 1 /\ flight'[1] = n /\ flight' # <<>>
      BY <1>2, <2>1
    <3>2. (StepAt(Processed, flight[1]))'
      BY <1>1, <1>6, <1>7, <1>8, <1>9, <2>1, <3>1 DEF StepAt
    <3>3. inflight' = n
      BY <1>2, <1>7, <1>8, <2>1
    <3> QED
      BY <1>1, <1>2, <1>4, <1>7, <1>8, <1>9, <1>10, <3>1, <3>2, <3>3, Sizes DEF FlightInv
  <2>2. CASE Len(flight) = 1
    <3>1. Len(flight') = 2 /\ flight'[1] = flight[1] /\ flight'[2] = n /\ flight' # <<>>
      <4>1. n \in 1..MaxInFlight
        BY <1>5, <1>7
      <4>2. flight' \in Seq(1..MaxInFlight) /\ Len(flight') = 2 /\ flight'[1] = flight[1] /\ flight'[2] = n
        <5>1. /\ Append(flight, n) \in Seq(1..MaxInFlight) /\ Len(Append(flight, n)) = Len(flight) + 1
              /\ \A i \in 1..Len(flight) : Append(flight, n)[i] = flight[i]
              /\ Append(flight, n)[Len(flight) + 1] = n
          BY <1>6, <4>1, AppendProperties
        <5>2. 1 \in 1..1 /\ 1 + 1 = 2
          OBVIOUS
        <5> QED
          BY <1>2, <2>2, <5>1, <5>2
      <4> QED
        BY <4>2, SeqFacts
    <3>2. StepAt(Processed, flight[1]) /\ inflight = flight[1] /\ flight[1] \in Nat
      BY <1>8, <2>2
    <3>3. (StepAt(Processed, flight[1]))'
      BY <1>1, <1>9, <3>1, <3>2 DEF StepAt
    <3>4. (StepAt(Processed + flight[1], flight[2]))'
      BY <1>1, <1>6, <1>7, <1>8, <1>9, <3>1, <3>2 DEF StepAt
    <3>5. inflight' = flight'[1] + flight'[2]
      BY <1>2, <3>1, <3>2
    <3> QED
      BY <1>1, <1>2, <1>4, <1>7, <1>8, <1>9, <1>10, <3>1, <3>3, <3>4, <3>5, Sizes DEF FlightInv
  <2> QED
    BY <1>1, <1>8, <2>1, <2>2, SMTT(20)
<1>26. (low <= First(hit) \/ low * BlockSize <= Processed - Window + 1 - Hold)'
  <2>1. First(hit) \in Nat
    BY <1>6, FirstOf DEF BoundInv
  <2>2. low' <= First(hit) \/ low' * BlockSize <= Processed - Window + 1 - Hold
    BY <1>6, <1>14, <1>15, <1>16, <2>1
  <2> QED
    BY <1>1, <1>4, <1>9, <2>2
<1>27. TableInv'
  <2>1. computed' <= len' * BlockSize
    <3>1. k * BlockSize <= len' * BlockSize /\ k * BlockSize \in Int /\ len' * BlockSize \in Int
      BY <1>13, <1>17, Scaled
    <3> QED
      BY <1>2, <1>6, <1>7, <1>13, <3>1, Sizes
  <2>2. len' <= cdiv(Processed + MaxInFlight, BlockSize)
    BY <1>13, <1>15, <1>17
  <2>3. len' - low' <= Reservation
    <3>1. Processed + MaxInFlight \in Int /\ Processed + MaxInFlight <= Processed + MaxInFlight
      BY <1>5, <1>8
    <3>2. low' * BlockSize >= Processed - (Window - 1) - Hold - (BlockSize - 1)
      <4>1. Skipped(Processed) * BlockSize <= low' * BlockSize /\ low' * BlockSize \in Int
            /\ Skipped(Processed) * BlockSize \in Int
        BY <1>14, <1>16, Product, Sizes
      <4> QED
        BY <1>5, <1>8, <1>14, <4>1, Sizes
    <3>3. len' * BlockSize <= (Processed + MaxInFlight) + BlockSize - 1
      <4> DEFINE c == cdiv(Processed + MaxInFlight, BlockSize)
      <4>1. c \in Nat /\ c * BlockSize <= (Processed + MaxInFlight) + BlockSize - 1
        BY <1>5, <1>8, <3>1, Ceiling, SMTT(20)
      <4>2. len' <= c
        BY <2>2
      <4> HIDE DEF c
      <4>3. len' * BlockSize <= c * BlockSize /\ len' * BlockSize \in Int /\ c * BlockSize \in Int
        BY <1>17, <4>1, <4>2, Scaled
      <4> QED
        BY <3>1, <4>1, <4>3, Sizes
    <3> QED
      BY <1>3, <1>8, <1>16, <1>17, <3>1, <3>2, <3>3, Reserves, Zenon
  <2>4. registered' <= len'
    <3>1. Registrable(known) <= len'
      <4>1. Registrable(known) * BlockSize \in Int /\ len' * BlockSize \in Int
        BY <1>17, <1>19, Product, Sizes
      <4>2. Registrable(known) * BlockSize < len' * BlockSize + BlockSize
        BY <1>2, <1>6, <1>7, <1>18, <1>19, <2>1, <4>1, Sizes
      <4> QED
        BY <1>17, <1>19, <4>2, Below
    <3> QED
      BY <1>6, <1>15, <1>17, <1>20, <3>1
  <2>5. (Registrable(AtMost(computed, prefill)))' <= registered'
    <3>1. AtMost(computed + n, prefill) \in Nat /\ AtMost(computed + n, prefill) <= known
      BY <1>6, <1>7, <1>18 DEF AtMost, BoundInv
    <3>2. Registrable(AtMost(computed + n, prefill)) <= Registrable(known)
          /\ Registrable(AtMost(computed + n, prefill)) \in Nat
      BY <1>18, <3>1, RegisteredMono, Registered
    <3> QED
      BY <1>1, <1>2, <1>19, <1>20, <3>2
  <2>6. low' <= len' /\ (len <= cdiv(Processed + MaxInFlight, BlockSize))' /\ (len - low <= Reservation)'
    BY <1>4, <1>6, <1>9, <1>16, <1>17, <2>2, <2>3
  <2> QED
    BY <1>26, <2>1, <2>4, <2>5, <2>6, Zenon DEF TableInv
<1>28. CacheInv'
  <2>1. ASSUME NEW i \in hollow' PROVE (i + 1) * BlockSize <= computed' /\ (i + 1) * BlockSize <= tokens'
    <3>1. i \in Nat
      BY <1>3, <1>18, BlockSet
    <3>2. (i + 1) * BlockSize \in Int
      BY <3>1, Product, Sizes
    <3>3. CASE i \in hollow
      <4>1. (i + 1) * BlockSize <= computed /\ (i + 1) * BlockSize <= tokens
        BY <1>1, <3>3 DEF CacheInv
      <4> QED
        BY <1>1, <1>2, <1>6, <1>7, <3>2, <4>1
    <3>4. CASE (i + 1) * BlockSize <= known
      BY <1>1, <1>2, <1>6, <1>7, <1>18, <3>2, <3>4
    <3> QED
      BY <1>18, <3>3, <3>4
  <2>2. Align(computed' - BlockSize) <= full'
    <3> DEFINE x == (computed + n) - BlockSize
    <3>1. x \in Int /\ x <= known /\ computed' - BlockSize = x
      BY <1>2, <1>6, <1>7, <1>11, <1>18, Sizes
    <3> HIDE DEF x
    <3>2. Align(x) \in Int /\ Align(x) <= x /\ Align(Align(x)) = Align(x)
      BY <3>1, Aligned
    <3>3. Align(x) <= Align(known)
      BY <1>18, <3>1, <3>2, AlignMono
    <3> QED
      BY <1>21, <1>22, <3>1, <3>2, <3>3
  <2> QED
    BY <2>1, <2>2, Zenon DEF CacheInv
<1>29. LeftInv'
  <2>1. ContinuationHits'
    <3>1. (Boundaries(last.done, last.tokens))' = Boundaries(last.done, last.tokens) /\ MaxHit(prefill)' = MaxHit(prefill)
      BY <1>1, <1>4 DEF Boundaries, MaxHit
    <3> QED
      BY <1>1, <1>4, <3>1 DEF ContinuationHits, LeftInv
  <2> QED
    BY <1>1, <2>1 DEF LeftInv
<1>30. RetryInv'
  <2>1. KeepBoundary(prompt)' = b /\ KeepBoundary(last.prompt)' = KeepBoundary(last.prompt)
    BY <1>1, <1>4 DEF KeepBoundary
  <2>2. ASSUME Keep > 0, evictions = 0, b > 0, b >= hit, NEW i \in TailOf(b), i < registered' PROVE i \in cached'
    <3>1. b \in Nat /\ Align(b) = b /\ b <= MaxTokens /\ b + BlockSize <= prompt /\ b + BlockSize <= prefill
      <4>1. prompt - Keep - BlockSize \in Int
        BY <1>5, <1>6, Sizes
      <4>2. b \in Int /\ Align(b) = b /\ b <= prompt - Keep - BlockSize
        BY <4>1, Aligned DEF KeepBoundary
      <4> HIDE DEF b
      <4>3. prompt <= prefill /\ prefill <= tokens
        BY DEF BoundInv
      <4> QED
        BY <1>5, <1>6, <1>10, <2>2, <4>2, <4>3, Sizes
    <3>2. i \in Nat /\ First(b) <= i /\ i <= b \div BlockSize /\ i * BlockSize <= b
      BY <2>2, <3>1, TailFacts
    <3>3. i \in Blocks
      <4>1. i * BlockSize <= MaxTokens
        BY <1>5, <3>1, <3>2, Product, Sizes
      <4> QED
        BY <1>3, <3>2, <4>1, BlockSet
    <3>4. CASE i < registered
      BY <1>1, <1>18, <2>2, <3>4 DEF RetryInv
    <3>5. CASE registered <= i
      <4>1. i < Registrable(known)
        BY <1>6, <1>20, <2>2, <3>2, <3>5
      <4> DEFINE x == AtMost(computed, prefill)
      <4>2. x \in Nat /\ (x = computed \/ x = prefill) /\ Registrable(x) <= registered /\ Registrable(x) \in Nat
        BY <1>6, <1>15, Registered DEF AtMost
      <4> HIDE DEF x
      <4>3. x < b + BlockSize
        <5>1. b + BlockSize <= x => b \div BlockSize + 1 <= Registrable(x)
          BY <2>2, <3>1, <4>2, Registered
        <5> QED
          BY <1>6, <3>1, <3>2, <3>5, <4>2, <5>1, FirstOf, Sizes, SMTT(20)
      <4>4. x = computed
        <5> HIDE DEF b
        <5> QED
          BY <1>6, <3>1, <4>2, <4>3, Sizes
      <4>5. low' <= i
        <5>1. CASE x < b
          <6>1. Processed - Hold <= b
            BY <1>5, <1>6, <1>8, <3>1, <4>4, <5>1
          <6>2. hit \in Nat /\ Align(hit) = hit /\ hit <= b
            BY <1>6, <2>2 DEF BoundInv
          <6>3. low' <= First(hit) \/ low' * BlockSize <= Processed - Window + 1 - Hold
            BY <1>1, <1>4, <1>9, <1>26
          <6>4. low' <= First(b)
            BY <1>3, <1>8, <1>16, <3>1, <6>1, <6>2, <6>3, TailHeld
          <6> QED
            BY <1>16, <3>1, <3>2, <6>4, FirstOf
        <5>2. CASE b <= x
          <6>1. b \div BlockSize <= Registrable(x) /\ b \div BlockSize \in Nat /\ (b \div BlockSize) * BlockSize = b
            BY <2>2, <3>1, <4>2, <5>2, Registered, FirstOf
          <6>2. i = b \div BlockSize
            BY <1>6, <3>2, <3>5, <4>2, <6>1
          <6>3. CASE low' * BlockSize <= Processed - Window + 1 - Hold
            <7>1. low' * BlockSize < (b \div BlockSize) * BlockSize + BlockSize
              <8>1. low' * BlockSize \in Int
                BY <1>16, Scaled
              <8>2. Processed < b + BlockSize
                BY <1>6, <1>8, <3>1, <4>3, <4>4, Sizes
              <8> HIDE DEF b
              <8>3. low' * BlockSize < b + BlockSize
                BY <1>5, <1>8, <3>1, <6>3, <8>1, <8>2, Sizes
              <8> QED
                BY <6>1, <8>3
            <7> QED
              BY <1>16, <6>1, <6>2, <7>1, Below
          <6>4. CASE low' <= First(hit)
            <7>1. First(hit) <= First(b) /\ First(b) \in Nat /\ First(hit) \in Nat /\ First(b) <= b \div BlockSize
              BY <1>6, <2>2, <3>1, FirstMono, FirstOf DEF BoundInv
            <7> QED
              BY <1>16, <6>1, <6>2, <6>4, <7>1
          <6> QED
            BY <1>1, <1>4, <1>9, <1>26, <6>3, <6>4
        <5> QED
          BY <3>1, <4>2, <5>1, <5>2
      <4> QED
        BY <1>18, <2>2, <3>3, <3>5, <4>1, <4>5
    <3> QED
      BY <1>6, <3>2, <3>4, <3>5
  <2> DEFINE c == KeepBoundary(last.prompt)
  <2>3. ASSUME Keep > 0, evictions = 0, last.done >= last.prompt, c > 0, c >= last.hit
        PROVE  TailOf(c) \subseteq cached' /\ c <= full'
    <3>1. TailOf(c) \subseteq cached /\ c <= full
      BY <2>3 DEF RetryInv
    <3>2. last.prompt \in Nat
      BY DEF TypeInv
    <3>3. c \in Int
      BY <1>5, <3>2, Aligned, Sizes DEF KeepBoundary
    <3> HIDE DEF c
    <3>4. c <= full'
      BY <1>6, <1>22, <3>1, <3>3
    <3> QED
      BY <1>18, <3>1, <3>4
  <2>4. RetryHits'
    BY <1>1, <1>4 DEF RetryHits, RetryInv
  <2> HIDE DEF c, b
  <2> QED
    BY <1>1, <1>4, <2>1, <2>2, <2>3, <2>4 DEF RetryInv, c
<1>31. RowsInv'
  BY <1>1, <1>4, <1>9 DEF RowsInv, LowerBound, Truncated
<1> QED
  BY <1>23, <1>24, <1>25, <1>27, <1>28, <1>29, <1>30, <1>31

-----------------------------------------------------------------------------
(* A request is freed *)

LEMMA ReleaseKeeps ==
  ASSUME IInv, phase = "running", NEW c \in Nat, NEW in \in Nat, NEW t \in Nat, NEW to \in {"idle", "preempted"},
         Release(c, in, t, to),
         Processed <= c - in, c <= computed, tokens <= t, t <= MaxTokens, to = "preempted" => t < MaxTokens,
         \A i \in hollow : (i + 1) * BlockSize <= c,
         config' = config, tokens' = t, prompt' = prompt, prefill' = prefill, hit' = hit, shared' = shared,
         full' = full, turns' = turns, evictions' = evictions
  PROVE  IInv'
<1> USE DEF IInv
<1> DEFINE done == AtMost(c - in, t)
           held == {h \in Boundaries(done, t) : TailOf(h) \subseteq low..(len - 1)}
           tails == IF Final THEN UNION {TailOf(h) : h \in held} ELSE {}
<1>1. /\ phase' = to /\ cached' = cached \cup tails
      /\ hollow' = {i \in hollow \cup (tails \ cached) : (i + 1) * BlockSize > AtMost(c, t)}
      /\ last' = [done |-> done, prompt |-> prompt, tokens |-> t, hit |-> hit, intact |-> TRUE]
      /\ low' = 0 /\ len' = 0 /\ registered' = 0
      /\ computed' = 0 /\ inflight' = 0 /\ flight' = <<>> /\ rows' = {}
  BY DEF Release, Done
<1>2. config \in Configs
  BY DEF TypeInv
<1>3. /\ Final' = Final /\ Keep' = Keep /\ MaxInFlight' = MaxInFlight /\ MaxTokens' = MaxTokens
      /\ Hold' = Hold /\ Reservation' = Reservation /\ Blocks' = Blocks
  BY <1>2, SameConfig
<1>4. /\ Final \in BOOLEAN /\ Keep \in Nat /\ MaxInFlight \in Nat /\ MaxTokens \in Nat /\ Hold \in Nat
      /\ Final => Hold >= Alignment + BlockSize - 1 + Keep
  BY <1>2, Settings, Held
<1>5. /\ prompt \in Nat /\ tokens \in Nat /\ prefill \in Nat /\ hit \in Nat /\ shared \in Nat
      /\ computed \in Nat /\ low \in Nat /\ len \in Nat /\ registered \in Nat /\ full \in Nat
      /\ cached \in SUBSET Blocks /\ hollow \in SUBSET cached
  BY <1>2, BlockSet DEF TypeInv
<1>6. Processed \in Nat /\ hit <= Processed
  BY InFlight
<1>7. prompt <= prefill /\ prefill <= tokens /\ hit <= prefill /\ Align(hit) = hit /\ Processed <= tokens
      /\ prompt > 0
  BY <1>5, <1>6 DEF BoundInv, FlightInv, Prefilling
<1>8. done \in Nat /\ done <= c - in /\ done <= c /\ done <= t /\ Processed <= done
  BY <1>5, <1>6, <1>7 DEF AtMost
<1>9. /\ low <= First(hit) \/ low * BlockSize <= Processed - Window + 1 - Hold
      /\ computed <= len * BlockSize /\ Registrable(AtMost(computed, prefill)) <= registered
  BY DEF TableInv
<1>10. computed >= BlockSize => Align(computed - BlockSize) <= full
  BY DEF CacheInv
<1> HIDE DEF done
<1>11. ASSUME NEW b \in Nat, Align(b) = b, b + BlockSize <= computed
       PROVE  b <= full
  <2>1. computed - BlockSize \in Int /\ b <= computed - BlockSize /\ computed >= BlockSize
    BY <1>5, <1>11, Sizes
  <2>2. b <= Align(computed - BlockSize) /\ Align(computed - BlockSize) \in Int
    BY <1>11, <2>1, AlignMono, Aligned
  <2> QED
    BY <1>5, <1>10, <1>11, <2>1, <2>2
<1>12. ASSUME NEW b \in Boundaries(done, t)
       PROVE  b \in Nat /\ Align(b) = b /\ b > 0 /\ b + BlockSize <= done /\ (Final => Processed - Hold <= b)
  <2>1. /\ b \in Nat /\ Align(b) = b /\ b > 0 /\ b + BlockSize <= done
        /\ b >= done - (BlockSize - 1) - Alignment \/ b >= t - Keep - BlockSize - Alignment + 1
    BY <1>2, <1>8, BoundaryFacts
  <2>2. Final => Processed - Hold <= b
    <3>1. Final => Hold >= Alignment + BlockSize - 1 + Keep
      BY <1>4
    <3>2. b >= done - (BlockSize - 1) - Alignment => (Final => Processed - Hold <= b)
      BY <1>4, <1>6, <1>8, <2>1, <3>1, Sizes
    <3>3. b >= t - Keep - BlockSize - Alignment + 1 => (Final => Processed - Hold <= b)
      BY <1>4, <1>6, <1>8, <2>1, <3>1, Sizes
    <3> QED
      BY <2>1, <3>2, <3>3
  <2> QED
    BY <2>1, <2>2
<1>13. ASSUME Final, NEW b \in Boundaries(done, t), hit <= b
       PROVE  TailOf(b) \subseteq cached' /\ b <= full
  <2>1. b \in Nat /\ Align(b) = b /\ b > 0 /\ b + BlockSize <= done /\ Processed - Hold <= b
    BY <1>12, <1>13
  <2>2. low <= First(b)
    BY <1>2, <1>5, <1>6, <1>7, <1>9, <1>13, <2>1, TailHeld
  <2>3. ASSUME NEW i \in TailOf(b) PROVE i \in low..(len - 1)
    <3>1. i \in Nat /\ First(b) <= i /\ (i + 1) * BlockSize <= b + BlockSize
      BY <2>1, TailFacts
    <3>2. First(b) \in Nat
      BY <2>1, FirstOf
    <3>3. i + 1 <= len
      <4>1. len * BlockSize \in Int /\ (i + 1) * BlockSize \in Int /\ i + 1 \in Int
        BY <1>5, <3>1, Product, Sizes
      <4>2. (i + 1) * BlockSize < len * BlockSize + BlockSize
        BY <1>5, <1>8, <1>9, <2>1, <3>1, <4>1, Sizes
      <4> QED
        BY <1>5, <4>1, <4>2, Below
    <3> QED
      BY <1>5, <2>2, <3>1, <3>2, <3>3
  <2>4. b \in held
    BY <2>3
  <2>5. TailOf(b) \subseteq tails
    BY <1>13, <2>4
  <2>6. b + BlockSize <= computed
    BY <1>5, <1>8, <2>1, Sizes
  <2> QED
    BY <1>1, <1>11, <2>1, <2>5, <2>6
<1>14. ASSUME NEW i \in tails PROVE i \in Nat /\ i \in Blocks /\ (i + 1) * BlockSize <= done
  <2>1. PICK b \in Boundaries(done, t) : i \in TailOf(b)
    OBVIOUS
  <2>2. b \in Nat /\ Align(b) = b /\ b + BlockSize <= done
    BY <1>12
  <2>3. i \in Nat /\ i * BlockSize <= b /\ (i + 1) * BlockSize <= b + BlockSize
    BY <2>1, <2>2, TailFacts
  <2>4. i * BlockSize \in Int /\ (i + 1) * BlockSize \in Int
    BY <2>3, Product, Sizes
  <2>5. i * BlockSize <= MaxTokens /\ (i + 1) * BlockSize <= done
    BY <1>4, <1>8, <2>2, <2>3, <2>4, Sizes
  <2> QED
    BY <1>2, <2>3, <2>5, BlockSet
<1> HIDE DEF tails, held
<1>15. hollow' = {}
  <2>1. SUFFICES ASSUME NEW i \in hollow \cup tails PROVE (i + 1) * BlockSize <= AtMost(c, t)
    <3>1. \A i \in hollow' : i \in hollow \cup tails /\ (i + 1) * BlockSize > AtMost(c, t)
      BY <1>1
    <3>2. \A i \in hollow \cup tails : i \in Nat
      BY <1>2, <1>5, <1>14, BlockSet
    <3>3. \A i \in Nat : (i + 1) * BlockSize \in Int
      BY Sizes
    <3>4. AtMost(c, t) \in Int
      BY DEF AtMost
    <3>5. \A x, y \in Int : x <= y => ~ (x > y)
      OBVIOUS
    <3> QED
      BY <2>1, <3>1, <3>2, <3>3, <3>4, <3>5
  <2>2. i \in Nat /\ (i + 1) * BlockSize \in Int
    <3>1. i \in Nat
      BY <1>2, <1>5, <1>14, BlockSet
    <3> QED
      BY <3>1, Product, Sizes
  <2>3. (i + 1) * BlockSize <= c /\ (i + 1) * BlockSize <= t
    <3>1. CASE i \in hollow
      <4>1. (i + 1) * BlockSize <= tokens
        BY <3>1 DEF CacheInv
      <4> QED
        BY <1>5, <2>2, <3>1, <4>1
    <3>2. CASE i \in tails
      BY <1>8, <1>14, <2>2, <3>2
    <3> QED
      BY <3>1, <3>2
  <2> QED
    BY <2>2, <2>3 DEF AtMost
<1>16. phase' # "running" /\ phase' \in {"idle", "running", "preempted"}
  BY <1>1
<1>17. TypeInv'
  <2>1. cached' \in SUBSET Blocks
    BY <1>1, <1>5, <1>14
  <2>2. last' \in [done : Nat, prompt : Nat, tokens : Nat, hit : Nat, intact : BOOLEAN]
    BY <1>1, <1>5, <1>8
  <2>3. flight' \in Seq(1..MaxInFlight) /\ 0 \in Blocks
    BY <1>1, <1>2, BlockSet
  <2>4. turns \in 0..MaxTurns /\ evictions \in 0..MaxEvictions
    BY DEF TypeInv
  <2> QED
    BY <1>1, <1>2, <1>3, <1>5, <1>15, <1>16, <2>1, <2>2, <2>3, <2>4 DEF TypeInv
<1>18. BoundInv'
  <2>1. last'.done = done /\ last'.prompt = prompt /\ last'.tokens = t /\ last'.hit = hit
    BY <1>1
  <2>2. Keep > 0 /\ hit > 0 => hit + Keep <= prefill
    BY DEF BoundInv
  <2>3. shared <= MaxTokens /\ full <= MaxTokens
    BY DEF BoundInv
  <2>4. last'.done <= last'.tokens /\ last'.prompt <= last'.tokens /\ last'.tokens <= MaxTokens /\ last'.hit <= MaxTokens
    BY <1>4, <1>5, <1>7, <1>8, <2>1
  <2>5. prefill <= t
    BY <1>5, <1>7
  <2>6. phase' = "preempted" => t < MaxTokens
    BY <1>1
  <2> QED
    BY <1>1, <1>3, <1>7, <1>15, <2>2, <2>3, <2>4, <2>5, <2>6 DEF BoundInv
<1>19. FlightInv' /\ TableInv' /\ CacheInv' /\ RowsInv'
  BY <1>16 DEF FlightInv, TableInv, CacheInv, RowsInv
<1>20. LeftInv'
  <2>1. (Boundaries(last.done, last.tokens))' = Boundaries(done, t) /\ last'.hit = hit
    BY <1>1, <1>3 DEF Boundaries
  <2>2. ContinuationHits'
    BY <1>16 DEF ContinuationHits
  <2>3. ASSUME Final, NEW b \in Boundaries(done, t), b >= hit PROVE TailOf(b) \subseteq cached' /\ b <= full'
    <3>1. b \in Nat
      BY <1>12
    <3> QED
      BY <1>5, <1>13, <2>3, <3>1
  <2> QED
    BY <1>3, <2>1, <2>2, <2>3 DEF LeftInv
<1>21. RetryInv'
  <2> DEFINE b == KeepBoundary(prompt)
  <2>1. (KeepBoundary(last.prompt))' = b /\ last'.hit = hit /\ last'.done = done /\ last'.prompt = prompt
    BY <1>1, <1>3 DEF KeepBoundary
  <2>2. RetryHits'
    BY <1>16 DEF RetryHits
  <2>3. ASSUME Keep > 0, evictions = 0, done >= prompt, b > 0, b >= hit
        PROVE  TailOf(b) \subseteq cached' /\ b <= full'
    <3>1. b \in Nat /\ Align(b) = b /\ b + BlockSize <= prompt
      <4>1. prompt - Keep - BlockSize \in Int
        BY <1>4, <1>5, Sizes
      <4>2. b \in Int /\ Align(b) = b /\ b <= prompt - Keep - BlockSize
        BY <4>1, Aligned DEF KeepBoundary
      <4> HIDE DEF b
      <4> QED
        BY <1>4, <1>5, <2>3, <4>2, Sizes
    <3>2. \A i \in TailOf(b) : i < registered => i \in cached
      BY <2>3 DEF RetryInv
    <3> HIDE DEF b
    <3> DEFINE x == AtMost(computed, prefill)
    <3>3. x \in Nat /\ b + BlockSize <= x /\ b + BlockSize <= computed
      BY <1>5, <1>7, <1>8, <2>3, <3>1, Sizes DEF AtMost
    <3>4. Registrable(x) <= registered
      BY <1>9
    <3> HIDE DEF x
    <3>5. b \div BlockSize + 1 <= Registrable(x) /\ Registrable(x) \in Nat /\ b \div BlockSize \in Nat
      BY <2>3, <3>1, <3>3, Registered, FirstOf
    <3>6. \A i \in TailOf(b) : i < registered
      <4>1. \A i \in TailOf(b) : i \in Nat /\ i <= b \div BlockSize
        BY <3>1, TailFacts
      <4> QED
        BY <1>5, <3>4, <3>5, <4>1
    <3>7. b <= full
      BY <1>11, <3>1, <3>3
    <3> QED
      BY <1>1, <3>2, <3>6, <3>7
  <2> HIDE DEF b
  <2> QED
    BY <1>3, <1>16, <2>1, <2>2, <2>3 DEF RetryInv
<1> QED
  BY <1>17, <1>18, <1>19, <1>20, <1>21

-----------------------------------------------------------------------------
(* A step is processed *)

\* What the oldest step in flight leaves of the counters.
LEMMA Oldest ==
  ASSUME IInv, phase = "running", flight # <<>>,
         NEW a \in Nat, a <= Drafts, Prefilling => a = 0
  PROVE  LET n == Head(flight)
             r == Rejected(a)
         IN /\ n \in Nat /\ n = flight[1] /\ n <= inflight /\ r \in Nat /\ r < n /\ StepAt(Processed, n)
            /\ Prefilling => r = 0 /\ Processed + n <= prefill /\ tokens = prefill
            /\ ~ Prefilling => r = Drafts - a /\ n = 1 + Drafts /\ tokens = Processed + 1
            /\ a \in Nat /\ a <= Drafts
            /\ \A i \in hollow : (i + 1) * BlockSize <= computed - r
<1> USE DEF IInv
<1>1. /\ Processed \in Nat /\ computed = Processed + inflight /\ Len(flight) \in 0..2 /\ (flight = <<>> <=> Len(flight) = 0)
      /\ Len(flight) = 1 => inflight = flight[1]
      /\ Len(flight) = 2 => inflight = flight[1] + flight[2] /\ flight[2] \in 1..MaxInFlight
      /\ Len(flight) > 0 => flight[1] \in 1..MaxInFlight /\ StepAt(Processed, flight[1])
  BY InFlight
<1>2. config \in Configs /\ prefill \in Nat /\ tokens \in Nat /\ flight \in Seq(1..MaxInFlight) /\ inflight \in Nat
      /\ computed \in Nat
  BY DEF TypeInv
<1>3. MaxInFlight \in Nat
  BY <1>2, Settings
<1> DEFINE n == Head(flight)
           r == Rejected(a)
<1>4. n = flight[1]
  BY <1>2, HeadTailProperties
<1>5. n \in Nat /\ n > 0 /\ n <= inflight /\ StepAt(Processed, n)
  BY <1>1, <1>2, <1>3, <1>4
<1> HIDE DEF n
<1>6. (Prefilling <=> Processed < prefill) /\ tokens = IF Prefilling THEN prefill ELSE Processed + 1
  BY DEF Prefilling, FlightInv
<1>7. Prefilling => Processed + n <= prefill /\ tokens = prefill /\ r = 0 /\ a = 0
  BY <1>5, <1>6 DEF StepAt, Rejected
<1>8. ~ Prefilling => n = 1 + Drafts /\ tokens = Processed + 1 /\ r = Drafts - a
  BY <1>1, <1>2, <1>5, <1>6 DEF StepAt, Rejected
<1> HIDE DEF r
<1>9. a \in Nat /\ a <= Drafts /\ r \in Nat /\ r < n
  BY <1>5, <1>7, <1>8, Sizes
<1>10. ASSUME NEW i \in hollow PROVE (i + 1) * BlockSize <= computed - r
  <2>1. (i + 1) * BlockSize <= computed /\ (i + 1) * BlockSize <= tokens
    BY DEF CacheInv
  <2>2. (i + 1) * BlockSize \in Int
    <3>1. i \in Nat
      BY <1>2, BlockSet DEF TypeInv
    <3> QED
      BY <3>1, Product, Sizes
  <2>3. CASE Prefilling
    BY <1>2, <1>7, <2>1, <2>3
  <2>4. CASE ~ Prefilling
    BY <1>1, <1>2, <1>5, <1>8, <1>9, <2>1, <2>2, <2>4, Sizes
  <2> QED
    BY <2>3, <2>4
<1> QED
  BY <1>4, <1>5, <1>7, <1>8, <1>9, <1>10 DEF n, r

\* The request goes on after a step whose verification accepted `a` drafts.
Continues(a, sampled) ==
  /\ sampled = IF ~ Prefilling THEN a + 1 ELSE IF Processed + Head(flight) = prefill THEN 1 ELSE 0
  /\ tokens + sampled < MaxTokens /\ tokens' = tokens + sampled
  /\ computed' = computed - Rejected(a) /\ inflight' = inflight - Head(flight) /\ flight' = Tail(flight)
  /\ rows' = (rows \cup Kept(Head(flight))) \cap 0..(computed' - inflight' - 1)
  /\ hollow' = {i \in hollow : (i + 1) * BlockSize > computed' - inflight'}
  /\ phase' = phase /\ low' = low /\ len' = len /\ registered' = registered /\ cached' = cached /\ last' = last
  /\ config' = config /\ prompt' = prompt /\ prefill' = prefill /\ hit' = hit /\ shared' = shared
  /\ full' = full /\ turns' = turns /\ evictions' = evictions

LEMMA ContinueKeeps ==
  ASSUME IInv, phase = "running", flight # <<>>,
         NEW a \in Nat, a <= Drafts, Prefilling => a = 0, NEW sampled \in Nat, Continues(a, sampled)
  PROVE  IInv'
<1> USE DEF IInv
<1> DEFINE n == Head(flight)
           r == Rejected(a)
<1>1. /\ n \in Nat /\ n = flight[1] /\ n <= inflight /\ r \in Nat /\ r < n /\ StepAt(Processed, n)
      /\ Prefilling => r = 0 /\ Processed + n <= prefill /\ tokens = prefill
      /\ ~ Prefilling => r = Drafts - a /\ n = 1 + Drafts /\ tokens = Processed + 1
      /\ a \in Nat /\ a <= Drafts
      /\ \A i \in hollow : (i + 1) * BlockSize <= computed - r
  BY Oldest
<1>2. /\ Processed \in Nat /\ computed = Processed + inflight /\ Len(flight) \in 0..2 /\ (flight = <<>> <=> Len(flight) = 0)
      /\ hit <= Processed
      /\ Len(flight) = 1 => inflight = flight[1]
      /\ Len(flight) = 2 => inflight = flight[1] + flight[2] /\ flight[2] \in 1..MaxInFlight
                            /\ StepAt(Processed + flight[1], flight[2])
  BY InFlight
<1>3. config \in Configs
  BY DEF TypeInv
<1>4. /\ config' = config /\ Final' = Final /\ Keep' = Keep /\ MaxInFlight' = MaxInFlight /\ MaxTokens' = MaxTokens
      /\ Hold' = Hold /\ Reservation' = Reservation /\ Blocks' = Blocks
  BY <1>3, SameConfig DEF Continues
<1>5. /\ Final \in BOOLEAN /\ Keep \in Nat /\ (Keep = 0 \/ Keep >= Window + Drafts + 1)
      /\ MaxInFlight \in Nat /\ MaxTokens \in Nat /\ Hold \in Nat
      /\ Reservation \in Nat
  BY <1>3, Settings, Held, Reserved
<1>6. /\ prompt \in Nat /\ tokens \in Nat /\ prefill \in Nat /\ hit \in Nat /\ shared \in Nat
      /\ computed \in Nat /\ inflight \in Nat /\ flight \in Seq(1..MaxInFlight)
      /\ low \in Nat /\ len \in Blocks /\ len \in Nat /\ registered \in Nat /\ full \in Nat
      /\ cached \in SUBSET Blocks /\ hollow \in SUBSET cached /\ rows \in SUBSET (0..MaxTokens)
  BY <1>3, BlockSet DEF TypeInv
<1>7. computed' = computed - r /\ inflight' = inflight - n /\ flight' = Tail(flight)
      /\ rows' = (rows \cup Kept(n)) \cap 0..(computed' - inflight' - 1)
      /\ (sampled = IF ~ Prefilling THEN a + 1 ELSE IF Processed + n = prefill THEN 1 ELSE 0)
      /\ tokens + sampled < MaxTokens /\ tokens' = tokens + sampled
      /\ hollow' \in SUBSET hollow
      /\ phase' = phase /\ low' = low /\ len' = len /\ registered' = registered /\ cached' = cached
      /\ last' = last /\ config' = config /\ prompt' = prompt /\ prefill' = prefill /\ hit' = hit
      /\ shared' = shared /\ full' = full /\ turns' = turns /\ evictions' = evictions
  BY DEF Continues
<1> HIDE DEF n, r
<1>27. /\ n \in Nat /\ n <= inflight /\ r \in Nat /\ r < n /\ a <= Drafts
       /\ Processed < prefill => r = 0 /\ Processed + n <= prefill /\ tokens = prefill
       /\ ~ (Processed < prefill) => r = Drafts - a /\ n = 1 + Drafts /\ tokens = Processed + 1
  BY <1>1 DEF Prefilling
<1>28. /\ Processed \in Nat /\ computed = Processed + inflight /\ hit <= Processed
       /\ computed \in Nat /\ inflight \in Nat /\ tokens \in Nat /\ prefill \in Nat /\ Drafts \in Nat
  BY <1>2, <1>6, Sizes
<1>29. sampled = IF ~ (Processed < prefill) THEN a + 1 ELSE IF Processed + n = prefill THEN 1 ELSE 0
  BY <1>7 DEF Prefilling
<1> DEFINE c2 == computed'
           in2 == inflight'
           t2 == tokens'
           q == c2 - in2
<1>24. Processed' = q /\ rows' = (rows \cup Kept(n)) \cap 0..(q - 1)
  BY <1>7 DEF Processed
<1>25. c2 = computed - r /\ in2 = inflight - n /\ t2 = tokens + sampled
  BY <1>7
<1>26. computed' = c2 /\ inflight' = in2 /\ tokens' = t2
  OBVIOUS
<1> HIDE DEF c2, in2, t2
<1>8. /\ q = (Processed + n) - r /\ q \in Nat /\ Processed <= q
      /\ c2 \in Nat /\ in2 \in Nat /\ c2 <= computed /\ in2 <= inflight
      /\ q <= c2
  BY <1>25, <1>27, <1>28 DEF q
<1> HIDE DEF q
<1>9. (Prefilling <=> Processed < prefill) /\ Prefilling' = (q < prefill)
  BY <1>7, <1>24 DEF Prefilling
<1>10. /\ prompt > 0 /\ computed < MaxTokens /\ tokens < MaxTokens /\ inflight + Drafts <= MaxInFlight
  BY DEF FlightInv
<1>11. hollow' \in SUBSET hollow
  BY <1>7
<1>12. /\ t2 \in Nat /\ tokens <= t2 /\ t2 < MaxTokens
  BY <1>6, <1>7, <1>25
<1>13. Len(flight) > 0 /\ Tail(flight) \in Seq(1..MaxInFlight) /\ Len(Tail(flight)) = Len(flight) - 1
       /\ (Len(flight) = 2 => Tail(flight)[1] = flight[2])
  <2>1. /\ Tail(flight) \in Seq(1..MaxInFlight) /\ Len(Tail(flight)) = Len(flight) - 1
        /\ \A i \in 1..Len(flight) - 1 : Tail(flight)[i] = flight[i + 1]
    BY <1>6, HeadTailProperties
  <2>2. Len(flight) = 2 => 1 \in 1..Len(flight) - 1 /\ 1 + 1 = 2
    OBVIOUS
  <2> QED
    BY <1>2, <2>1, <2>2
<1>14. TypeInv'
  <2>1. rows' \in SUBSET (0..MaxTokens)
    BY <1>5, <1>6, <1>8, <1>10, <1>24
  <2>2. turns \in 0..MaxTurns /\ evictions \in 0..MaxEvictions
        /\ last \in [done : Nat, prompt : Nat, tokens : Nat, hit : Nat, intact : BOOLEAN]
        /\ phase \in {"idle", "running", "preempted"}
    BY DEF TypeInv
  <2> QED
    BY <1>3, <1>4, <1>6, <1>7, <1>8, <1>11, <1>12, <1>13, <1>26, <2>1, <2>2 DEF TypeInv
<1>15. BoundInv'
  <2>1. prefill <= t2 /\ t2 <= MaxTokens
    BY <1>5, <1>6, <1>12 DEF BoundInv
  <2> QED
    BY <1>4, <1>7, <1>26, <2>1 DEF BoundInv
<1>16. t2 = IF q < prefill THEN prefill ELSE q + 1
  <2>1. CASE Processed < prefill
    BY <1>8, <1>25, <1>27, <1>28, <1>29, <2>1
  <2>2. CASE ~ (Processed < prefill)
    BY <1>8, <1>25, <1>27, <1>28, <1>29, <2>2
  <2> QED
    BY <2>1, <2>2
<1>17. FlightInv'
  <2>1. hit <= q /\ c2 < MaxTokens /\ in2 + Drafts <= MaxInFlight
    BY <1>2, <1>5, <1>6, <1>8, <1>10, Sizes
  <2>2. /\ prompt' > 0 /\ hit' <= Processed' /\ computed' < MaxTokens' /\ tokens' < MaxTokens'
        /\ inflight' + Drafts <= MaxInFlight'
    <3>1. prompt' = prompt /\ hit' = hit /\ MaxTokens' = MaxTokens /\ MaxInFlight' = MaxInFlight
      BY <1>4, <1>7
    <3>2. prompt > 0 /\ t2 < MaxTokens
      BY <1>10, <1>12
    <3> QED
      BY <1>24, <1>26, <2>1, <3>1, <3>2, Zenon
  <2>3. tokens' = IF Prefilling' THEN prefill' ELSE Processed' + 1
    <3>1. prefill' = prefill
      BY <1>7
    <3> QED
      BY <1>9, <1>16, <1>24, <1>26, <3>1, Zenon
  <2>4. flight' = Tail(flight)
    BY <1>7
  <2>5. CASE Len(flight) = 1
    <3>1. Len(Tail(flight)) = 0 /\ Tail(flight) = <<>>
      <4>1. Len(Tail(flight)) = 0
        BY <1>13, <2>5
      <4> QED
        BY <1>13, <4>1, SeqFacts
    <3>2. in2 = 0
      BY <1>1, <1>2, <1>6, <1>25, <2>5
    <3>3. Len(flight') = 0 /\ flight' = <<>> /\ inflight' = 0
      BY <1>26, <2>4, <3>1, <3>2, Zenon
    <3>4. Len(flight') <= 2 /\ Len(flight') # 2 /\ Len(flight') < 2
      BY <3>3
    <3>5. inflight' = (IF flight' = <<>> THEN 0 ELSE flight'[1]) + (IF Len(flight') < 2 THEN 0 ELSE flight'[2])
      <4>1. 0 + 0 = 0
        OBVIOUS
      <4> QED
        BY <3>3, <3>4, <4>1, Zenon
    <3> QED
      BY <2>2, <2>3, <3>3, <3>4, <3>5, Zenon DEF FlightInv
  <2>6. CASE Len(flight) = 2
    <3>1. Len(Tail(flight)) = 1 /\ Tail(flight)[1] = flight[2] /\ Tail(flight) # <<>>
      <4>1. Len(Tail(flight)) = 1 /\ Tail(flight)[1] = flight[2]
        BY <1>13, <2>6, SMTT(20)
      <4>2. Tail(flight) = <<>> <=> Len(Tail(flight)) = 0
        BY <1>13, SeqFacts
      <4> QED
        BY <4>1, <4>2, SMTT(20)
    <3>2. in2 = flight[2] /\ flight[2] \in Nat /\ StepAt(Processed + n, flight[2])
      <4>1. inflight = n + flight[2] /\ flight[2] \in 1..MaxInFlight /\ StepAt(Processed + n, flight[2])
        BY <1>1, <1>2, <2>6
      <4>2. flight[2] \in Nat
        BY <1>5, <4>1
      <4> QED
        BY <1>25, <1>27, <4>1, <4>2
    <3>3. Len(flight') = 1 /\ flight'[1] = flight[2] /\ flight' # <<>>
      BY <2>4, <3>1, Zenon
    <3>4. (StepAt(Processed, flight[1]))'
      <4>1. IF Processed + n < prefill THEN Processed + n + flight[2] <= prefill ELSE flight[2] = 1 + Drafts
        BY <3>2 DEF StepAt
      <4>2. IF q < prefill THEN q + flight[2] <= prefill ELSE flight[2] = 1 + Drafts
        BY <1>8, <1>27, <1>28, <3>2, <4>1
      <4>3. prefill' = prefill
        BY <1>7
      <4> QED
        BY <1>24, <3>3, <4>2, <4>3, Zenon DEF StepAt
    <3>5. Len(flight') <= 2 /\ Len(flight') # 2 /\ Len(flight') < 2
      BY <3>3
    <3>6. inflight' = (IF flight' = <<>> THEN 0 ELSE flight'[1]) + (IF Len(flight') < 2 THEN 0 ELSE flight'[2])
      <4>1. flight[2] + 0 = flight[2]
        BY <3>2
      <4>2. inflight' = flight[2]
        BY <1>26, <3>2
      <4> QED
        BY <3>3, <3>5, <4>1, <4>2, Zenon
    <3> QED
      BY <2>2, <2>3, <3>3, <3>4, <3>5, <3>6, Zenon DEF FlightInv
  <2> QED
    BY <1>2, <1>13, <2>5, <2>6
<1>18. /\ low <= First(hit) \/ low * BlockSize <= Processed - Window + 1 - Hold
       /\ low <= len /\ computed <= len * BlockSize
       /\ len <= cdiv(Processed + MaxInFlight, BlockSize) /\ len - low <= Reservation
       /\ registered <= len /\ Registrable(AtMost(computed, prefill)) <= registered
  BY DEF TableInv
<1>19. TableInv'
  <2>1. low <= First(hit) \/ low * BlockSize <= q - Window + 1 - Hold
    <3>1. low * BlockSize \in Int
      BY <1>6, Product, Sizes
    <3> QED
      BY <1>2, <1>5, <1>8, <1>18, <3>1, Sizes, SMTT(20)
  <2>2. c2 <= len * BlockSize
    <3>1. len * BlockSize \in Int
      BY <1>6, Product, Sizes
    <3> QED
      BY <1>6, <1>8, <1>18, <3>1
  <2>3. len <= cdiv(q + MaxInFlight, BlockSize)
    <3>1. Processed + MaxInFlight \in Int /\ q + MaxInFlight \in Int
          /\ Processed + MaxInFlight <= q + MaxInFlight
      BY <1>2, <1>5, <1>8
    <3>2. cdiv(Processed + MaxInFlight, BlockSize) \in Int /\ cdiv(q + MaxInFlight, BlockSize) \in Int
      BY <3>1, Ceiling
    <3>3. cdiv(Processed + MaxInFlight, BlockSize) <= cdiv(q + MaxInFlight, BlockSize)
      BY <3>1, CeilingMono
    <3> QED
      BY <1>6, <1>18, <3>2, <3>3
  <2>4. Registrable(AtMost(c2, prefill)) <= registered
    <3>1. AtMost(computed, prefill) \in Nat /\ AtMost(c2, prefill) \in Nat
          /\ AtMost(c2, prefill) <= AtMost(computed, prefill)
      BY <1>6, <1>8 DEF AtMost
    <3>2. /\ Registrable(AtMost(c2, prefill)) <= Registrable(AtMost(computed, prefill))
          /\ Registrable(AtMost(c2, prefill)) \in Nat /\ Registrable(AtMost(computed, prefill)) \in Nat
      BY <3>1, RegisteredMono, Registered
    <3> QED
      BY <1>6, <1>18, <3>2
  <2> QED
    BY <1>4, <1>7, <1>18, <1>24, <1>26, <2>1, <2>2, <2>3, <2>4 DEF TableInv
<1>20. CacheInv'
  <2>1. ASSUME NEW i \in hollow' PROVE (i + 1) * BlockSize <= c2 /\ (i + 1) * BlockSize <= t2
    <3>1. i \in hollow /\ i \in Nat
      BY <1>3, <1>6, <1>11, BlockSet
    <3>2. (i + 1) * BlockSize \in Int /\ (i + 1) * BlockSize <= tokens
      BY <3>1, Product, Sizes DEF CacheInv
    <3> QED
      BY <1>1, <1>6, <1>12, <1>25, <3>1, <3>2
  <2>2. ASSUME c2 >= BlockSize PROVE Align(c2 - BlockSize) <= full
    <3>1. /\ c2 - BlockSize \in Int /\ computed - BlockSize \in Int /\ computed >= BlockSize
          /\ c2 - BlockSize <= computed - BlockSize
      BY <1>6, <1>8, <2>2, Sizes
    <3>2. /\ Align(c2 - BlockSize) \in Int /\ Align(c2 - BlockSize) <= c2 - BlockSize
          /\ Align(Align(c2 - BlockSize)) = Align(c2 - BlockSize)
          /\ Align(computed - BlockSize) \in Int
      BY <3>1, Aligned
    <3>3. Align(c2 - BlockSize) <= Align(computed - BlockSize)
      BY <3>1, <3>2, AlignMono
    <3>4. Align(computed - BlockSize) <= full
      BY <3>1 DEF CacheInv
    <3> QED
      BY <1>6, <3>2, <3>3, <3>4
  <2> QED
    BY <1>7, <1>26, <2>1, <2>2 DEF CacheInv
<1>21. LeftInv'
  <2>1. ContinuationHits'
    <3>1. (Boundaries(last.done, last.tokens))' = Boundaries(last.done, last.tokens) /\ MaxHit(prefill)' = MaxHit(prefill)
      BY <1>4, <1>7 DEF Boundaries, MaxHit
    <3> QED
      BY <1>4, <1>7, <3>1 DEF ContinuationHits, LeftInv
  <2> QED
    BY <1>7, <2>1 DEF LeftInv
<1>22. RetryInv'
  <2>1. KeepBoundary(prompt)' = KeepBoundary(prompt) /\ KeepBoundary(last.prompt)' = KeepBoundary(last.prompt)
    BY <1>4, <1>7 DEF KeepBoundary
  <2>2. RetryHits'
    BY <1>4, <1>7 DEF RetryHits, RetryInv
  <2> QED
    BY <1>4, <1>7, <2>1, <2>2 DEF RetryInv
<1>23. RowsInv'
  <2> DEFINE m == LowerBound'
  <2>1. /\ LowerBound = IF Processed < prefill /\ Keep > 0 /\ prefill > Keep THEN prefill - Keep ELSE 0
        /\ m = IF q < prefill /\ Keep > 0 /\ prefill > Keep THEN prefill - Keep ELSE 0
    BY <1>4, <1>7, <1>9 DEF LowerBound, Truncated
  <2> HIDE DEF m
  <2>2. LowerBound \in Nat /\ m \in Nat
    BY <1>5, <1>6, <2>1
  <2>3. ASSUME NEW p \in AtLeast(q - Window + 1, m)..(q - 1)
        PROVE  p \in rows'
    <3>1. p \in Int /\ p >= q - Window + 1 /\ p >= m /\ p <= q - 1 /\ p >= 0
      <4>1. AtLeast(q - Window + 1, m) \in Int
            /\ AtLeast(q - Window + 1, m) >= q - Window + 1
            /\ AtLeast(q - Window + 1, m) >= m
        BY <1>8, <2>2, Sizes DEF AtLeast
      <4> QED
        BY <1>8, <2>2, <4>1, Sizes, SMTT(20)
    <3>2. p >= LowerBound
      <4>1. CASE Processed < prefill /\ ~ (q < prefill) /\ Keep > 0 /\ prefill > Keep
        <5>1. q = prefill /\ LowerBound = prefill - Keep
          BY <1>8, <1>27, <1>28, <2>1, <4>1
        <5> QED
          BY <1>5, <1>6, <3>1, <4>1, <5>1, Sizes
      <4>2. CASE ~ (Processed < prefill /\ ~ (q < prefill) /\ Keep > 0 /\ prefill > Keep)
        <5>1. LowerBound = m \/ LowerBound = 0
          BY <1>2, <1>6, <1>8, <2>1, <4>2
        <5> QED
          BY <2>2, <3>1, <5>1
      <4> QED
        BY <4>1, <4>2
    <3>3. p \in rows \cup Kept(n)
      <4>1. CASE p < Processed
        <5>1. p \in AtLeast(Processed - Window + 1, LowerBound)..(Processed - 1)
          BY <1>2, <1>8, <2>2, <3>1, <3>2, <4>1, Sizes DEF AtLeast
        <5> QED
          BY <5>1 DEF RowsInv
      <4>2. CASE Processed <= p
        <5>1. p \in AtLeast(Processed, LowerBound)..(Processed + n - 1)
          BY <1>8, <1>27, <1>28, <2>2, <3>1, <3>2, <4>2 DEF AtLeast
        <5> QED
          BY <5>1 DEF Kept
      <4> QED
        BY <1>2, <3>1, <4>1, <4>2
    <3>4. p \in 0..(q - 1)
      BY <1>8, <3>1
    <3> QED
      BY <1>24, <3>3, <3>4
  <2> QED
    BY <1>7, <1>24, <2>3 DEF RowsInv, m
<1> QED
  BY <1>14, <1>15, <1>17, <1>19, <1>20, <1>21, <1>22, <1>23

\* The tokens that a step brings, and the end of a request after `j` of them.
NewTokens(a) == IF ~ Prefilling THEN a + 1 ELSE IF Processed + Head(flight) = prefill THEN 1 ELSE 0
Stops(a, j) ==
  /\ tokens' = tokens + j
  /\ Release(computed - Rejected(a), inflight - Head(flight), tokens', "idle")
  /\ config' = config /\ prompt' = prompt /\ prefill' = prefill /\ hit' = hit /\ shared' = shared
  /\ full' = full /\ turns' = turns /\ evictions' = evictions

LEMMA StopKeeps ==
  ASSUME IInv, phase = "running", flight # <<>>,
         NEW a \in Nat, a <= Drafts, Prefilling => a = 0, NEW j \in 1..NewTokens(a), Stops(a, j)
  PROVE  IInv'
<1> DEFINE n == Head(flight)
           r == Rejected(a)
<1>1. /\ n \in Nat /\ n = flight[1] /\ n <= inflight /\ r \in Nat /\ r < n /\ StepAt(Processed, n)
      /\ Prefilling => r = 0 /\ Processed + n <= prefill /\ tokens = prefill
      /\ ~ Prefilling => r = Drafts - a /\ n = 1 + Drafts /\ tokens = Processed + 1
      /\ \A i \in hollow : (i + 1) * BlockSize <= computed - r
  BY Oldest
<1>2. Processed \in Nat /\ computed = Processed + inflight
  BY InFlight
<1>3. /\ config \in Configs /\ computed \in Nat /\ inflight \in Nat /\ tokens \in Nat
      /\ computed < MaxTokens /\ tokens < MaxTokens
  BY DEF IInv, TypeInv, FlightInv
<1>4. MaxTokens \in Nat
  BY <1>3, Settings
<1> DEFINE t == tokens + j
           c == computed - r
           in == inflight - n
           m == NewTokens(a)
<1>5. m = IF ~ Prefilling THEN a + 1 ELSE IF Processed + n = prefill THEN 1 ELSE 0
  BY DEF NewTokens
<1>6. /\ tokens' = t /\ Release(c, in, tokens', "idle")
      /\ config' = config /\ prompt' = prompt /\ prefill' = prefill /\ hit' = hit /\ shared' = shared
      /\ full' = full /\ turns' = turns /\ evictions' = evictions
  BY DEF Stops
<1>7. j \in 1..m
  OBVIOUS
<1> HIDE DEF n, r, m
<1>8. m \in Nat /\ m <= a + 1
  BY <1>5
<1>9. j \in Nat /\ j <= m
  BY <1>7, <1>8
<1>10. t \in Nat /\ tokens <= t /\ t <= MaxTokens
  <2>1. CASE Prefilling
    BY <1>3, <1>4, <1>5, <1>9, <2>1
  <2>2. CASE ~ Prefilling
    BY <1>1, <1>2, <1>3, <1>4, <1>8, <1>9, <2>2, Sizes
  <2> QED
    BY <2>1, <2>2
<1>11. c \in Nat /\ c <= computed /\ in \in Nat /\ Processed <= c - in
  BY <1>1, <1>2, <1>3
<1>12. Release(c, in, t, "idle")
  BY <1>6
<1>13. \A i \in hollow : (i + 1) * BlockSize <= c
  BY <1>1
<1> HIDE DEF t, c, in
<1> QED
  BY <1>6, <1>10, <1>11, <1>12, <1>13, ReleaseKeeps

LEMMA ProcessKeeps ==
  ASSUME IInv, Process
  PROVE  IInv'
<1>1. phase = "running" /\ flight # <<>>
  BY DEF Process
<1>2. PICK a \in IF Prefilling THEN {0} ELSE 0..Drafts :
        Continues(a, NewTokens(a)) \/ \E j \in 1..NewTokens(a) : Stops(a, j)
  BY Zenon DEF Process, Continues, Stops, NewTokens, request
<1>3. a \in Nat /\ a <= Drafts /\ (Prefilling => a = 0)
  BY Sizes
<1>4. NewTokens(a) \in Nat
  BY <1>3 DEF NewTokens
<1>5. CASE Continues(a, NewTokens(a))
  BY <1>1, <1>3, <1>4, <1>5, ContinueKeeps
<1>6. CASE \E j \in 1..NewTokens(a) : Stops(a, j)
  BY <1>1, <1>3, <1>6, StopKeeps
<1> QED
  BY <1>2, <1>5, <1>6

-----------------------------------------------------------------------------
(* The other steps *)

LEMMA SubmitKeeps ==
  ASSUME IInv, Submit
  PROVE  IInv'
<1>1. PICK p \in Prompts, chunk \in Chunks : Admit(p, p, chunk)
  BY DEF Submit
<1>2. phase # "running"
  BY DEF Submit
<1>3. config \in Configs
  BY DEF IInv, TypeInv
<1>4. p \in 1..(MaxTokens - 1) /\ MaxTokens \in Nat
  BY <1>3, WindowAssumption DEF Prompts, MaxTokens
<1>5. p \in Nat /\ p > 0 /\ p <= p /\ p < MaxTokens
  BY <1>4
<1> QED
  BY <1>1, <1>2, <1>5, AdmitKeeps

LEMMA ResumeKeeps ==
  ASSUME IInv, Resume
  PROVE  IInv'
<1>1. PICK chunk \in Chunks : Admit(prompt, tokens, chunk)
  BY DEF Resume
<1>2. phase = "preempted"
  BY DEF Resume
<1>3. prompt \in Nat /\ tokens \in Nat /\ prefill \in Nat /\ prompt <= prefill /\ prefill <= tokens
      /\ tokens < MaxTokens /\ prompt > 0
  BY <1>2 DEF IInv, TypeInv, BoundInv
<1>4. prompt <= tokens
  BY <1>3
<1>5. phase # "running"
  BY <1>2
<1> QED
  BY <1>1, <1>3, <1>4, <1>5, AdmitKeeps

\* A running request is freed with its steps in flight.
LEMMA FreeKeeps ==
  ASSUME IInv, phase = "running", NEW to \in {"idle", "preempted"},
         Release(computed, inflight, tokens, to), UNCHANGED <<request, full, turns, evictions>>
  PROVE  IInv'
<1>1. /\ computed \in Nat /\ inflight \in Nat /\ tokens \in Nat /\ tokens < MaxTokens /\ tokens <= MaxTokens
      /\ \A i \in hollow : (i + 1) * BlockSize <= computed
  BY DEF IInv, TypeInv, BoundInv, FlightInv, CacheInv
<1>2. Processed \in Nat /\ computed = Processed + inflight
  BY InFlight
<1>3. Processed <= computed - inflight /\ computed <= computed /\ tokens <= tokens
  BY <1>1, <1>2
<1>4. /\ config' = config /\ tokens' = tokens /\ prompt' = prompt /\ prefill' = prefill /\ hit' = hit
      /\ shared' = shared /\ full' = full /\ turns' = turns /\ evictions' = evictions
  BY DEF request
<1> QED
  BY <1>1, <1>3, <1>4, ReleaseKeeps

LEMMA AbortKeeps ==
  ASSUME IInv, Abort
  PROVE  IInv'
<1>1. UNCHANGED <<request, full, turns, evictions>>
  BY DEF Abort
<1>2. CASE phase = "running"
  <2>1. Release(computed, inflight, tokens, "idle")
    BY <1>2 DEF Abort
  <2> QED
    BY <1>1, <1>2, <2>1, FreeKeeps
<1>3. CASE phase # "running"
  <2>1. /\ phase = "preempted" /\ phase' = "idle"
        /\ UNCHANGED <<computed, inflight, flight, low, len, registered, cached, hollow, rows, last>>
    BY <1>3 DEF Abort
  <2>2. config \in Configs /\ config' = config
    BY <1>1 DEF IInv, TypeInv, request
  <2>3. /\ Final' = Final /\ Keep' = Keep /\ MaxInFlight' = MaxInFlight /\ MaxTokens' = MaxTokens
        /\ Blocks' = Blocks
    BY <2>2, SameConfig
  <2>4. /\ tokens' = tokens /\ prompt' = prompt /\ prefill' = prefill /\ hit' = hit /\ shared' = shared
        /\ full' = full /\ turns' = turns /\ evictions' = evictions
    BY <1>1 DEF request
  <2>5. TypeInv'
    BY <2>1, <2>2, <2>3, <2>4 DEF IInv, TypeInv
  <2>6. BoundInv'
    BY <2>1, <2>3, <2>4 DEF IInv, BoundInv
  <2>7. FlightInv' /\ TableInv' /\ CacheInv' /\ RowsInv'
    BY <2>1 DEF FlightInv, TableInv, CacheInv, RowsInv
  <2>8. LeftInv'
    <3>1. (Boundaries(last.done, last.tokens))' = Boundaries(last.done, last.tokens)
      BY <2>1, <2>3 DEF Boundaries
    <3>2. ContinuationHits'
      BY <2>1 DEF ContinuationHits
    <3> QED
      BY <2>1, <2>3, <2>4, <3>1, <3>2 DEF IInv, LeftInv
  <2>9. RetryInv'
    <3>1. KeepBoundary(prompt)' = KeepBoundary(prompt) /\ KeepBoundary(last.prompt)' = KeepBoundary(last.prompt)
      BY <2>1, <2>3, <2>4 DEF KeepBoundary
    <3>2. RetryHits'
      BY <2>1 DEF RetryHits
    <3> QED
      BY <2>1, <2>3, <2>4, <3>1, <3>2 DEF IInv, RetryInv
  <2> QED
    BY <2>5, <2>6, <2>7, <2>8, <2>9 DEF IInv
<1> QED
  BY <1>2, <1>3

LEMMA PreemptKeeps ==
  ASSUME IInv, Preempt
  PROVE  IInv'
BY FreeKeeps DEF Preempt

LEMMA EvictKeeps ==
  ASSUME IInv, Evict
  PROVE  IInv'
<1>1. /\ evictions < MaxEvictions /\ evictions' = evictions + 1
      /\ last' = [last EXCEPT !.intact = @ /\ phase = "running"]
      /\ UNCHANGED <<phase, request, computed, inflight, flight, low, len, registered, rows, turns>>
  BY DEF Evict
<1>2. config \in Configs /\ config' = config
  BY <1>1 DEF IInv, TypeInv, request
<1>3. /\ Final' = Final /\ Keep' = Keep /\ MaxInFlight' = MaxInFlight /\ MaxTokens' = MaxTokens
      /\ Hold' = Hold /\ Reservation' = Reservation /\ Blocks' = Blocks
  BY <1>2, SameConfig
<1>4. /\ tokens' = tokens /\ prompt' = prompt /\ prefill' = prefill /\ hit' = hit /\ shared' = shared
      /\ computed' = computed /\ inflight' = inflight /\ flight' = flight /\ low' = low /\ len' = len
      /\ registered' = registered /\ rows' = rows /\ turns' = turns /\ phase' = phase
  BY <1>1 DEF request
<1>5. last \in [done : Nat, prompt : Nat, tokens : Nat, hit : Nat, intact : BOOLEAN]
      /\ evictions \in 0..MaxEvictions /\ full \in Nat /\ MaxTokens \in Nat /\ full <= MaxTokens
      /\ cached \in SUBSET Blocks /\ hollow \in SUBSET cached
      /\ (phase # "running" => hollow = {})
  BY <1>2, Settings DEF IInv, TypeInv, BoundInv
<1>6. /\ last' \in [done : Nat, prompt : Nat, tokens : Nat, hit : Nat, intact : BOOLEAN]
      /\ last'.done = last.done /\ last'.prompt = last.prompt /\ last'.tokens = last.tokens /\ last'.hit = last.hit
      /\ last'.intact = (last.intact /\ phase = "running")
  BY <1>1, <1>5
<1>7. evictions' \in 0..MaxEvictions /\ evictions' # 0
  BY <1>1, <1>5, WindowAssumption
<1>8. /\ cached' \in SUBSET cached /\ hollow' \in SUBSET hollow /\ hollow' \in SUBSET cached'
      /\ full' \in Nat /\ full' <= full /\ (phase = "running" => full' = full)
  <2>1. CASE \E i \in cached : cached' = cached \ {i} /\ hollow' = hollow \ {i} /\ UNCHANGED full
    BY <1>5, <2>1
  <2>2. CASE /\ phase # "running"
             /\ \E f \in {Alignment * i : i \in 0..(full \div Alignment)} : f < full /\ full' = f
             /\ UNCHANGED <<cached, hollow>>
    <3>1. PICK i \in 0..(full \div Alignment) : full' = Alignment * i /\ full' < full
      BY <2>2
    <3>2. full \div Alignment \in Nat
      BY <1>5, Floor, Sizes
    <3>3. i \in Nat
      BY <3>2
    <3>4. Alignment * i \in Nat
      BY <3>3, Product, Sizes
    <3> QED
      BY <1>5, <2>2, <3>1, <3>4
  <2> QED
    BY <2>1, <2>2 DEF Evict
<1>9. TypeInv'
  BY <1>2, <1>3, <1>4, <1>5, <1>6, <1>7, <1>8 DEF IInv, TypeInv
<1>10. BoundInv'
  <2>1. full' <= MaxTokens
    BY <1>5, <1>8
  <2>2. hollow = {} => hollow' = {}
    BY <1>8
  <2>3. (Align(hit))' = Align(hit)
    BY <1>4 DEF Align
  <2> QED
    BY <1>3, <1>4, <1>6, <2>1, <2>2, <2>3 DEF IInv, BoundInv
<1>11. FlightInv'
  BY <1>3, <1>4 DEF IInv, FlightInv, Processed, Prefilling, StepAt
<1>12. TableInv'
  BY <1>3, <1>4 DEF IInv, TableInv, Processed
<1>13. CacheInv'
  BY <1>4, <1>8 DEF IInv, CacheInv
<1>14. LeftInv'
  <2>1. (Boundaries(last.done, last.tokens))' = Boundaries(last.done, last.tokens) /\ MaxHit(prefill)' = MaxHit(prefill)
    BY <1>3, <1>4, <1>6 DEF Boundaries, MaxHit
  <2>2. ContinuationHits'
    BY <1>3, <1>4, <1>6, <2>1 DEF IInv, LeftInv, ContinuationHits
  <2> QED
    BY <1>4, <1>6, <2>2 DEF LeftInv
<1>15. RetryInv'
  BY <1>7 DEF RetryInv, RetryHits
<1>16. RowsInv'
  BY <1>3, <1>4 DEF IInv, RowsInv, Processed, LowerBound, Truncated, Prefilling
<1> QED
  BY <1>9, <1>10, <1>11, <1>12, <1>13, <1>14, <1>15, <1>16 DEF IInv

LEMMA ResetKeeps ==
  ASSUME IInv, ResetPrefixCache
  PROVE  IInv'
<1>1. /\ phase = "idle" /\ phase' = "idle"
      /\ cached' = {} /\ full' = 0 /\ hollow' = {}
      /\ last' = [done |-> 0, prompt |-> 0, tokens |-> 0, hit |-> 0, intact |-> FALSE]
      /\ prompt' = 0 /\ tokens' = 0 /\ prefill' = 0 /\ hit' = 0 /\ shared' = 0
      /\ turns' = 0 /\ evictions' = 0
      /\ config' = config /\ computed' = computed /\ inflight' = inflight /\ flight' = flight
      /\ low' = low /\ len' = len /\ registered' = registered /\ rows' = rows
  BY DEF ResetPrefixCache
<1>2. config \in Configs
  BY DEF IInv, TypeInv
<1>3. /\ Final' = Final /\ Keep' = Keep /\ MaxInFlight' = MaxInFlight /\ MaxTokens' = MaxTokens
      /\ Blocks' = Blocks
  BY <1>1, <1>2, SameConfig
<1>4. MaxTokens \in Nat /\ Keep \in Nat
  BY <1>2, Settings
<1>5. Align(0) = 0
  BY Sizes, Multiple DEF Align
<1>6. TypeInv'
  BY <1>1, <1>2, <1>3, WindowAssumption DEF IInv, TypeInv
<1>7. BoundInv'
  <2>1. (Align(hit))' = Align(0)
    BY <1>1 DEF Align
  <2> QED
    BY <1>1, <1>3, <1>4, <1>5, <2>1 DEF IInv, BoundInv
<1>8. FlightInv' /\ TableInv' /\ CacheInv' /\ RowsInv'
  BY <1>1 DEF FlightInv, TableInv, CacheInv, RowsInv
<1>9. LeftInv'
  BY <1>1 DEF LeftInv, ContinuationHits
<1>10. RetryInv'
  <2>1. 0 - Keep - BlockSize \in Int /\ 0 - Keep - BlockSize <= 0
    BY <1>4, Sizes
  <2>2. Align(0 - Keep - BlockSize) \in Int /\ Align(0 - Keep - BlockSize) <= 0 - Keep - BlockSize
    BY <2>1, Aligned
  <2>3. (KeepBoundary(last.prompt))' = Align(0 - Keep - BlockSize)
    BY <1>1, <1>3 DEF KeepBoundary
  <2>4. ~ ((KeepBoundary(last.prompt))' > 0)
    BY <2>1, <2>2, <2>3
  <2>5. RetryHits' /\ phase' # "running"
    BY <1>1 DEF RetryHits
  <2> QED
    BY <2>4, <2>5 DEF RetryInv
<1> QED
  BY <1>6, <1>7, <1>8, <1>9, <1>10 DEF IInv

LEMMA StutterKeeps ==
  ASSUME IInv, UNCHANGED vars
  PROVE  IInv'
<1>1. UNCHANGED <<phase, config, prompt, tokens, prefill, hit, shared, computed, inflight, flight, low, len,
                  registered, cached, full, hollow, rows, last, turns, evictions>>
  BY DEF vars, request
<1>2. /\ Final' = Final /\ Keep' = Keep /\ MaxInFlight' = MaxInFlight /\ MaxTokens' = MaxTokens
      /\ Hold' = Hold /\ Reservation' = Reservation /\ Blocks' = Blocks
  BY <1>1, SameConfig
<1>3. TypeInv' /\ BoundInv'
  BY <1>1, <1>2 DEF IInv, TypeInv, BoundInv
<1>4. FlightInv' /\ TableInv' /\ CacheInv' /\ RowsInv'
  BY <1>1, <1>2 DEF IInv, FlightInv, TableInv, CacheInv, RowsInv, Processed, Prefilling, StepAt, LowerBound,
                    Truncated
<1>5. LeftInv'
  <2>1. (Boundaries(last.done, last.tokens))' = Boundaries(last.done, last.tokens) /\ MaxHit(prefill)' = MaxHit(prefill)
    BY <1>1, <1>2 DEF Boundaries, MaxHit
  <2> QED
    BY <1>1, <1>2, <2>1 DEF IInv, LeftInv, ContinuationHits
<1>6. RetryInv'
  <2>1. KeepBoundary(prompt)' = KeepBoundary(prompt) /\ KeepBoundary(last.prompt)' = KeepBoundary(last.prompt)
    BY <1>1, <1>2 DEF KeepBoundary
  <2>2. RetryHits'
    BY <1>1, <1>2 DEF IInv, RetryInv, RetryHits
  <2> QED
    BY <1>1, <1>2, <2>1, <2>2 DEF IInv, RetryInv
<1> QED
  BY <1>3, <1>4, <1>5, <1>6 DEF IInv

LEMMA InitIInv ==
  ASSUME Init
  PROVE  IInv
<1>1. /\ config \in Configs /\ phase = "idle"
      /\ prompt = 0 /\ tokens = 0 /\ prefill = 0 /\ hit = 0 /\ shared = 0
      /\ computed = 0 /\ inflight = 0 /\ flight = <<>>
      /\ low = 0 /\ len = 0 /\ registered = 0
      /\ cached = {} /\ full = 0 /\ hollow = {} /\ rows = {}
      /\ last = [done |-> 0, prompt |-> 0, tokens |-> 0, hit |-> 0, intact |-> FALSE]
      /\ turns = 0 /\ evictions = 0
  BY DEF Init
<1>2. MaxTokens \in Nat /\ Keep \in Nat /\ 0 \in Blocks
  BY <1>1, Settings, BlockSet
<1>3. Align(0) = 0
  BY Sizes, Multiple DEF Align
<1>4. TypeInv
  BY <1>1, <1>2, WindowAssumption DEF TypeInv
<1>5. BoundInv
  BY <1>1, <1>2, <1>3 DEF BoundInv
<1>6. FlightInv /\ TableInv /\ CacheInv /\ RowsInv
  BY <1>1 DEF FlightInv, TableInv, CacheInv, RowsInv
<1>7. LeftInv
  BY <1>1 DEF LeftInv, ContinuationHits
<1>8. RetryInv
  <2>1. 0 - Keep - BlockSize \in Int /\ 0 - Keep - BlockSize <= 0
    BY <1>2, Sizes
  <2>2. Align(0 - Keep - BlockSize) \in Int /\ Align(0 - Keep - BlockSize) <= 0 - Keep - BlockSize
    BY <2>1, Aligned
  <2>3. KeepBoundary(last.prompt) = Align(0 - Keep - BlockSize)
    BY <1>1 DEF KeepBoundary
  <2>4. ~ (KeepBoundary(last.prompt) > 0)
    BY <2>1, <2>2, <2>3
  <2>5. RetryHits /\ phase # "running"
    BY <1>1 DEF RetryHits
  <2> QED
    BY <2>4, <2>5 DEF RetryInv
<1> QED
  BY <1>4, <1>5, <1>6, <1>7, <1>8 DEF IInv

-----------------------------------------------------------------------------
(* The theorems *)

\* What holds of a conversation at every moment: the steps in flight are chunks of
\* the prefill and then verify steps, and the block table, the prefix cache, the
\* remains of the last request and the decoder's rows fit them, whatever was
\* scheduled, accepted, aborted, preempted, evicted or reset.
THEOREM FinalWindowInvariant == Spec => []IInv
<1>1. Init => IInv
  BY InitIInv
<1>2. IInv /\ [Next]_vars => IInv'
  BY SubmitKeeps, ResumeKeeps, ScheduleKeeps, ProcessKeeps, AbortKeeps, PreemptKeeps, EvictKeeps, ResetKeeps,
     StutterKeeps DEF Next
<1> QED
  BY <1>1, <1>2, PTL DEF Spec

\* The blocks that the steps in flight read or write are in the table: what the
\* hit left out (add_local_computed_blocks) and what remove_skipped_blocks freed is
\* below the window of the oldest of them, even if all their drafts are rejected.
THEOREM WindowIsHeld == Spec => []WindowHeld
<1>1. ASSUME IInv PROVE WindowHeld
  <2>1. SUFFICES ASSUME phase = "running"
                 PROVE  low * BlockSize <= AtLeast(Processed - Window + 1, 0) /\ computed <= len * BlockSize
    BY DEF WindowHeld
  <2>2. /\ config \in Configs /\ hit \in Nat /\ low \in Nat /\ prefill \in Nat
        /\ low <= First(hit) \/ low * BlockSize <= Processed - Window + 1 - Hold
        /\ computed <= len * BlockSize
    BY <1>1, <2>1 DEF IInv, TypeInv, TableInv
  <2>3. Processed \in Nat /\ hit <= Processed
    BY <1>1, <2>1, InFlight
  <2>4. Hold \in Nat
    BY <2>2, Held
  <2>5. Align(hit) = hit
    BY <1>1 DEF IInv, BoundInv
  <2>6. First(hit) \in Nat /\ (First(hit) = 0 \/ First(hit) * BlockSize <= hit - (Window - 1))
    BY <2>2, <2>5, FirstOf
  <2>7. low * BlockSize \in Int /\ First(hit) * BlockSize \in Int /\ 0 * BlockSize = 0
        /\ (low <= First(hit) => low * BlockSize <= First(hit) * BlockSize)
    BY <2>2, <2>6, Product, Sizes
  <2>8. CASE low <= First(hit) /\ First(hit) = 0
    <3>1. low = 0
      BY <2>2, <2>8
    <3> QED
      BY <2>2, <2>3, <2>7, <3>1, Sizes DEF AtLeast
  <2>9. CASE low <= First(hit) /\ First(hit) * BlockSize <= hit - (Window - 1)
    BY <2>2, <2>3, <2>7, <2>9, Sizes DEF AtLeast
  <2>10. CASE low * BlockSize <= Processed - Window + 1 - Hold
    BY <2>2, <2>3, <2>4, <2>7, <2>10, Sizes DEF AtLeast
  <2> QED
    BY <2>2, <2>6, <2>8, <2>9, <2>10
<1> QED
  BY <1>1, FinalWindowInvariant, PTL

\* The admission reservation, grown by the hold (max_admission_blocks_per_request),
\* bounds the sliding-window blocks a request holds at any moment of its life.
THEOREM ReservationIsEnough == Spec => []HeldWithinReservation
<1>1. ASSUME IInv PROVE HeldWithinReservation
  <2>1. CASE phase = "running"
    BY <1>1, <2>1 DEF IInv, TableInv, HeldWithinReservation
  <2>2. CASE phase # "running"
    <3>1. len = 0 /\ low = 0 /\ config \in Configs
      BY <1>1, <2>2 DEF IInv, TypeInv, BoundInv
    <3>2. Reservation \in Nat
      BY <3>1, Reserved
    <3> QED
      BY <3>1, <3>2 DEF HeldWithinReservation
  <2> QED
    BY <2>1, <2>2
<1> QED
  BY <1>1, FinalWindowInvariant, PTL

\* No block with a row that no step computed, or that holds a rejected draft,
\* outlives its request in the prefix cache (_dsv41_swa_final_window's `done`).
THEOREM CacheIsComputed == Spec => []CachedComputed
<1>1. ASSUME IInv PROVE CachedComputed
  BY <1>1 DEF IInv, BoundInv, CachedComputed
<1> QED
  BY <1>1, FinalWindowInvariant, PTL

LEMMA Typed ==
  ASSUME IInv
  PROVE  TypeOK
<1>1. /\ config \in Configs /\ phase \in {"idle", "running", "preempted"}
      /\ prompt \in Nat /\ tokens \in Nat /\ prefill \in Nat /\ hit \in Nat /\ shared \in Nat
      /\ computed \in Nat /\ inflight \in Nat /\ flight \in Seq(1..MaxInFlight)
      /\ low \in Nat /\ len \in Blocks /\ len \in Nat /\ registered \in Nat /\ full \in Nat
      /\ cached \in SUBSET Blocks /\ hollow \in SUBSET cached /\ rows \in SUBSET (0..MaxTokens)
      /\ last \in [done : Nat, prompt : Nat, tokens : Nat, hit : Nat, intact : BOOLEAN]
      /\ turns \in 0..MaxTurns /\ evictions \in 0..MaxEvictions
  BY BlockSet DEF IInv, TypeInv
<1>2. MaxTokens \in Nat /\ MaxInFlight \in Nat
  BY <1>1, Settings
<1>3. /\ prompt <= prefill /\ prefill <= tokens /\ tokens <= MaxTokens /\ hit <= prefill
      /\ shared <= MaxTokens /\ full <= MaxTokens
      /\ last.done <= last.tokens /\ last.prompt <= last.tokens /\ last.tokens <= MaxTokens /\ last.hit <= MaxTokens
  BY DEF IInv, BoundInv
<1>4. /\ computed \in 0..MaxTokens /\ inflight \in 0..MaxInFlight /\ Len(flight) <= 2
      /\ phase = "running" => Processed \in 0..tokens
      /\ low \in 0..len /\ registered \in 0..len
  <2>1. CASE phase = "running"
    <3>1. /\ Len(flight) <= 2 /\ computed < MaxTokens /\ low <= len /\ registered <= len
          /\ tokens = IF Processed < prefill THEN prefill ELSE Processed + 1
      BY <2>1 DEF IInv, FlightInv, TableInv, Prefilling
    <3>2. Processed \in Nat /\ inflight <= MaxInFlight
      BY <2>1, InFlight
    <3>3. Processed \in 0..tokens
      BY <1>1, <3>1, <3>2
    <3> QED
      BY <1>1, <1>2, <3>1, <3>2, <3>3
  <2>2. CASE phase # "running"
    <3>1. computed = 0 /\ inflight = 0 /\ flight = <<>> /\ low = 0 /\ len = 0 /\ registered = 0
      BY <2>2 DEF IInv, BoundInv
    <3>2. Len(flight) = 0
      BY <1>1, <3>1, SeqFacts
    <3> QED
      BY <1>1, <1>2, <2>2, <3>1, <3>2
  <2> QED
    BY <2>1, <2>2
<1>5. /\ prompt \in 0..MaxTokens /\ tokens \in prompt..MaxTokens /\ prefill \in prompt..MaxTokens
      /\ hit \in 0..MaxTokens /\ shared \in 0..MaxTokens /\ full \in 0..MaxTokens
  BY <1>1, <1>2, <1>3
<1>6. last \in [done : 0..MaxTokens, prompt : 0..MaxTokens, tokens : 0..MaxTokens, hit : 0..MaxTokens,
                intact : BOOLEAN]
  BY <1>1, <1>2, <1>3
<1> QED
  BY <1>1, <1>4, <1>5, <1>6 DEF TypeOK

\* A turn that continues a freed request hits the newest checkpoint whose tail the
\* overlay kept, and a retry of a prompt under YOCO the boundary below the kept
\* tokens; and every variable has its type.
THEOREM HitsAreFound == Spec => []HitsFound
<1>1. ASSUME IInv PROVE HitsFound
  BY <1>1, Typed DEF IInv, LeftInv, RetryInv, HitsFound
<1> QED
  BY <1>1, FinalWindowInvariant, PTL

\* The rows that the decoder layers of a step read were all computed by the same
\* request: the hit cap, the kept rows, the clipped window and the rollback of
\* rejected drafts leave no hole below a step.
THEOREM DecoderReadsAreGood == Spec => []DecoderReadsGood
<1>1. ASSUME IInv PROVE DecoderReadsGood
  <2> DEFINE n == Head(flight)
  <2>1. SUFFICES ASSUME phase = "running", flight # <<>>, NEW p \in Kept(n), NEW x \in Visible(p)
                 PROVE  x \in rows \cup Kept(n)
    BY DEF DecoderReadsGood
  <2>2. /\ config \in Configs /\ prefill \in Nat /\ flight \in Seq(1..MaxInFlight)
        /\ AtLeast(Processed - Window + 1, LowerBound)..(Processed - 1) \subseteq rows
    BY <1>1, <2>1 DEF IInv, TypeInv, RowsInv
  <2>3. Processed \in Nat
    BY <1>1, <2>1, InFlight
  <2>4. Keep \in Nat /\ MaxInFlight \in Nat
    BY <2>2, Settings
  <2>5. LowerBound \in Nat
    BY <2>2, <2>4 DEF LowerBound, Truncated
  <2>6. n \in Nat
    <3>1. n \in 1..MaxInFlight
      BY <2>1, <2>2, HeadTailProperties
    <3> QED
      BY <2>4, <3>1
  <2> HIDE DEF n
  <2>7. p \in Int /\ p >= Processed /\ p <= (Processed + n) - 1
    BY <2>3, <2>5, <2>6 DEF Kept, AtLeast
  <2>8. x \in Int /\ x >= LowerBound /\ x >= p - Window + 1 /\ x <= p
    BY <2>5, <2>7, Sizes DEF Visible, AtLeast
  <2>9. CASE x < Processed
    <3>1. x \in AtLeast(Processed - Window + 1, LowerBound)..(Processed - 1)
      BY <2>3, <2>5, <2>7, <2>8, <2>9, Sizes DEF AtLeast
    <3> QED
      BY <2>2, <3>1
  <2>10. CASE x >= Processed
    <3>1. x \in AtLeast(Processed, LowerBound)..(Processed + n - 1)
      BY <2>3, <2>5, <2>6, <2>7, <2>8, <2>10 DEF AtLeast
    <3> QED
      BY <3>1 DEF Kept
  <2> QED
    BY <2>3, <2>8, <2>9, <2>10
<1> QED
  BY <1>1, FinalWindowInvariant, PTL
===============================================================================
