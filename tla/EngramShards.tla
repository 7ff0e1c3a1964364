---------------------------- MODULE EngramShards ----------------------------
(***************************************************************************)
(* The layout of the Engram tables (overlay/engram_layout.py) and the      *)
(* files scripts/pack_engram.py makes of them: which rows a rank owns, and *)
(* what a packer's open, write and rename leave on a node's disk. Rows are *)
(* numbered over the whole table of a layer; a packed file holds the rows  *)
(* from its header's lo on, in order.                                      *)
(***************************************************************************)
EXTENDS Integers, FiniteSets, FiniteSetsExt, SequencesExt

CONSTANTS
    LayerIds,   \* engram_layer_ids, in order
    VocabSize,  \* engram_vocab_size
    NHeads,     \* engram_n_heads
    MaxNgram,   \* engram_max_ngram_size
    Tp,         \* TP: ranks
    ChunkRows,  \* rows of one write of the packer
    MaxShort    \* bound: rows one write may leave out

ASSUME EngramShardsAssumption ==
    /\ VocabSize \in Nat \ {0} /\ NHeads \in Nat \ {0} /\ MaxNgram \in Nat \ {0, 1}
    /\ Tp \in Nat \ {0} /\ ChunkRows \in Nat \ {0} /\ MaxShort \in Nat
    /\ LayerIds \in Seq(Nat) /\ Len(LayerIds) > 0

-----------------------------------------------------------------------------
(* Head sizes *)

PowMod(a, e, n) ==
    LET f[k \in 0..e] ==
          IF k = 0 THEN 1
          ELSE LET half == f[k \div 2] IN (half * half * (IF k % 2 = 1 THEN a ELSE 1)) % n
    IN f[e]

\* The strong test of n to base a, n - 1 being d * 2^r with d odd.
Passes(a, n) ==
    LET r == Max({k \in 0..30 : (n - 1) % 2^k = 0})
        d == (n - 1) \div 2^r
    IN \/ PowMod(a, d, n) \in {1, n - 1}
       \/ \E k \in 1..(r - 1) : PowMod(a, d * 2^k, n) = n - 1

SmallPrimes == {2, 3, 5, 7, 11, 13, 17, 19, 23, 29, 31, 37}

is_prime(n) ==
    /\ n >= 2
    /\ IF \E p \in SmallPrimes : n % p = 0 THEN n \in SmallPrimes
       ELSE \A a \in {2, 7, 61} : Passes(a, n)

\* The first prime above start that is not taken.
find_next_prime(start, seen) ==
    LET next[c \in Nat] == IF is_prime(c) /\ c \notin seen THEN c ELSE next[c + 1]
    IN next[start + 1]

\* The columns of one layer after those in seen: NHeads primes for every n-gram
\* size from 2 on, each size starting over at VocabSize.
Columns == (MaxNgram - 1) * NHeads
head_sizes(seen) ==
    LET sizes[c \in 0..Columns] ==
          IF c = 0 THEN <<>>
          ELSE LET before == sizes[c - 1]
                   current == IF (c - 1) % NHeads = 0 THEN VocabSize - 1 ELSE before[c - 1]
               IN Append(before, find_next_prime(current, seen \cup Range(before)))
    IN sizes[Columns]

\* Bug: every layer starts from no prime taken.
SizesAlone(k) == head_sizes({})

\* layer_head_sizes_from_config: the primes of the layers before are taken.
SizesOf(k) ==
    LET upto[i \in 0..k] ==
          IF i = 0 THEN [seen |-> {}, last |-> <<>>]
          ELSE LET sizes == head_sizes(upto[i - 1].seen)
               IN [seen |-> upto[i - 1].seen \cup Range(sizes), last |-> sizes]
    IN upto[k].last

-----------------------------------------------------------------------------
(* The rows of a rank *)

Part(columns, shards) == (columns + shards - 1) \div shards
HeadStart(columns, shards, rank) == rank * Part(columns, shards)
HeadEnd(columns, shards, rank) ==
    LET end == HeadStart(columns, shards, rank) + Part(columns, shards)
    IN IF end < columns THEN end ELSE columns

SumOf(sizes) == FoldLeft(LAMBDA a, b : a + b, 0, sizes)
Prefix(sizes, k) == SumOf(SubSeq(sizes, 1, IF k < Len(sizes) THEN k ELSE Len(sizes)))

\* Bug: the rows, not the columns, are split among the ranks.
EvenRange(sizes, rank) ==
    LET rows == SumOf(sizes)
    IN [lo |-> rank * Part(rows, Tp), hi |-> HeadEnd(rows, Tp, rank)]

\* Complete hash columns, never an even split of the rows.
shard_range(sizes, rank) ==
    [lo |-> Prefix(sizes, HeadStart(Len(sizes), Tp, rank)),
     hi |-> Prefix(sizes, HeadEnd(Len(sizes), Tp, rank))]

\* What the packer packs of its layer k of LayerIds.
owned_row_range(k, rank) == shard_range(SizesOf(k), rank)

\* What a rank looks up. vLLM's EngramLayout gives every layer its sizes: over all
\* layers the columns are the primes from VocabSize on, in order.
Primes(count) ==
    LET prime(n) == n > 1 /\ \A m \in 2..(n - 1) : n % m # 0
        nth[j \in 0..count] ==
          IF j = 0 THEN VocabSize - 1
          ELSE CHOOSE n \in (nth[j - 1] + 1)..(2 * nth[j - 1] + 2) :
                 prime(n) /\ \A m \in (nth[j - 1] + 1)..(n - 1) : ~prime(m)
    IN [j \in 1..count |-> nth[j]]
EngineSizes(k) == SubSeq(Primes(k * Columns), (k - 1) * Columns + 1, k * Columns)

\* init: a rank without columns is an error.
EngineStarts == (Tp - 1) * Part(Columns, Tp) < Columns
EngineRange(k, rank) ==
    LET start == HeadStart(Columns, Tp, rank)
    IN [lo |-> Prefix(EngineSizes(k), start),
        hi |-> Prefix(EngineSizes(k), start + Part(Columns, Tp))]

\* A function of layer and rank, evaluated once.
Ranks == 0..(Tp - 1)
Layers == DOMAIN LayerIds
PackerRanges == [r \in Ranks |-> [k \in Layers |-> owned_row_range(k, r)]]
EngineRanges == [r \in Ranks |-> [k \in Layers |-> EngineRange(k, r)]]
Rows(k) == SumOf(EngineSizes(k))

\* The ranges are sums of sizes: numbers, which TLC evaluates for an instance.
ASSUME RangesAssumption ==
    \A r \in Ranks, k \in Layers :
        {PackerRanges[r][k], EngineRanges[r][k]} \subseteq [lo : Nat, hi : Nat]

-----------------------------------------------------------------------------
(* Files *)

NoFile == [lo |-> 0, hi |-> 0, got |-> {}, size |-> 0]

Size(range) == range.hi - range.lo
Chunks(range) == 0..((Size(range) - 1) \div ChunkRows)
RowsBefore(range, c) == Min({c * ChunkRows, Size(range)})

\* open(partial, 'wb') and the header.
Header(range) == [lo |-> range.lo, hi |-> range.hi, got |-> {}, size |-> 0]

\* The file is not buffered and the count write returns is not looked at: on a full
\* disk a block may be cut short, and what is written next follows what was written.
\* How much is cut makes no difference to the tests of a file's size.
Cuts(range, c) == {n \in 0..MaxShort : n <= RowsBefore(range, c + 1) - RowsBefore(range, c)}

\* Mutant: every block is written at its own place in the file.
WriteBlockSeeks(file, range, c, lost, cut) ==
    [file EXCEPT !.got = IF cut = 0 THEN @ \cup {c} ELSE @ \ {c},
                 !.size = Max({@, RowsBefore(range, c + 1) - cut})]

\* Block c at the writer's offset, lost rows before its place, wherever the file ends.
WriteBlock(file, range, c, lost, cut) ==
    LET start == RowsBefore(range, c) - lost
        end == RowsBefore(range, c + 1) - lost - cut
        over == {b \in file.got : RowsBefore(range, b) < end /\ start < RowsBefore(range, b + 1)}
    IN [file EXCEPT !.got = IF lost + cut = 0 THEN @ \cup {c} ELSE @ \ over,
                    !.size = Max({@, end})]

\* target.exists() and st_size == expected
Complete(file, range) == file # NoFile /\ file.size = Size(range)

\* The shard an earlier version of the packer left, which split the rows evenly.
OldShard(k, rank) ==
    LET range == EvenRange(EngineSizes(k), rank)
    IN [lo |-> range.lo, hi |-> range.hi, got |-> Chunks(range), size |-> Size(range)]

Whole(file) == file.got = Chunks(file)

\* Bug: the header's range is not compared.
AttachAny(file, range) ==
    IF file = NoFile THEN "checkpoint"
    ELSE IF file.size >= file.hi - file.lo THEN "packed" ELSE "truncated"

\* row_store_attach_packed: a shard of another range is passed over, a short one
\* is fatal.
Attach(file, range) ==
    IF file = NoFile THEN "checkpoint"
    ELSE IF <<file.lo, file.hi>> # <<range.lo, range.hi>> THEN "refused"
    ELSE IF file.size >= file.hi - file.lo THEN "packed" ELSE "truncated"

\* Row x of a rank is record x - lo of its shard.
ReadsRow(file, range, x) ==
    /\ file.lo + (x - range.lo) = x
    /\ (x - range.lo) \div ChunkRows \in file.got

\* Every row of a table belongs to one rank, and the row count tells a layer from
\* every other one (_layer_id_from_embeddings).
RowsOwned ==
    /\ \A k, l \in Layers : Rows(k) = Rows(l) => k = l
    /\ \A k \in Layers : \A x \in 0..(Rows(k) - 1) :
         \E r \in Ranks : \A q \in Ranks :
             (EngineRanges[q][k].lo <= x /\ x < EngineRanges[q][k].hi) <=> q = r
=============================================================================
