------------------------- MODULE PackedLaunchProofs -------------------------
(* Proofs about Launcher for any number of invocations that follow one another *)
(* (with two at a time BootUndisturbed does not hold), about the columns of    *)
(* EngramShards for any number of columns and ranks, and about PackedLaunch:   *)
(* it implements Launcher, so that what is proved of the invocations holds     *)
(* with the packing of the shards between their steps.                         *)
EXTENDS PackedLaunch, NodeBoot, FiniteSetTheorems, TLAPS

-----------------------------------------------------------------------------
(* The invocations of Launcher *)

\* main lets an invocation begin only when no other one runs.
LEMMA BeginAlone ==
  ASSUME MaxConcurrent = 1, NEW i \in Invocations, Begin(i)
  PROVE  \A j \in Invocations : pc[j] = "idle"
<1> DEFINE Running == {j \in Invocations : pc[j] # "idle"}
<1>1. IsFiniteSet(Running)
  BY FS_Subset, LauncherAssumption
<1>2. Cardinality(Running) \in Nat /\ Cardinality(Running) < 1
  BY <1>1, FS_CardinalityType DEF Begin
<1>3. Running = {}
  BY <1>1, <1>2, FS_EmptySet
<1> QED
  BY <1>3

LEMMA InitSequential == Init => SequentialInv
BY DEF Init, SequentialInv, OneAtATime, BootUndisturbed, Paused, Steps

\* The steps of one invocation: it stays the only one, and the others idle.
LEMMA StepSequential ==
  ASSUME SequentialInv, NEW i \in Invocations, Step(i)
  PROVE  SequentialInv'
<1> USE DEF SequentialInv, OneAtATime, BootUndisturbed, Paused, Steps, Goto, server, guard, wait
<1>1. CASE Stop(i)
  BY <1>1 DEF Stop, Pause, HeadRemoved
<1>2. CASE StopWorker(i)
  BY <1>2 DEF StopWorker, WorkerRemoved
<1>3. CASE pause_watchdog(i)
  BY <1>3 DEF pause_watchdog, Pause
<1>4. CASE preflight(i)
  BY <1>4 DEF preflight
<1>5. CASE RemoveHead(i)
  BY <1>5 DEF RemoveHead, HeadRemoved
<1>6. CASE RemoveWorker(i)
  BY <1>6 DEF RemoveWorker, WorkerRemoved
<1>7. CASE RunWorker(i)
  BY <1>7 DEF RunWorker
<1>8. CASE RunHead(i)
  BY <1>8 DEF RunHead
<1>9. CASE Healthy(i)
  BY <1>9 DEF Healthy
<1>10. CASE GiveUp(i)
  BY <1>10 DEF GiveUp
<1>11. CASE Poll(i)
  <2>1. \/ pc[i] = "wait_for_health" /\ pc' = [pc EXCEPT ![i] = "idle"]
        \/ pc' = pc
    BY <1>11 DEF Poll
  <2>2. UNCHANGED <<head, watchdog, unmanaged>>
    BY <1>11 DEF Poll
  <2> QED
    BY <2>1, <2>2
<1>12. CASE post_ready_warmup(i)
  BY <1>12 DEF post_ready_warmup
<1>13. CASE on_ready(i)
  BY <1>13 DEF on_ready, Resume
<1>14. CASE prepare(i)
  BY <1>14 DEF prepare
<1> QED
  BY <1>1, <1>2, <1>3, <1>4, <1>5, <1>6, <1>7, <1>8, <1>9, <1>10, <1>11, <1>12,
     <1>13, <1>14 DEF Step

LEMMA NextSequential ==
  ASSUME MaxConcurrent = 1, SequentialInv, [Next]_vars
  PROVE  SequentialInv'
<1> USE DEF SequentialInv, OneAtATime, BootUndisturbed, Paused, Steps, server, guard, wait
<1>1. ASSUME NEW i \in Invocations, Begin(i) PROVE SequentialInv'
  <2>1. \A j \in Invocations : pc[j] = "idle"
    BY <1>1, BeginAlone
  <2>2. PICK s \in {"pause_watchdog", "stop"} : pc' = [pc EXCEPT ![i] = s]
    BY <1>1 DEF Begin, Goto
  <2> QED
    BY <1>1, <2>1, <2>2 DEF Begin
<1>2. ASSUME NEW i \in Invocations, Step(i) PROVE SequentialInv'
  BY <1>2, StepSequential
<1>3. ASSUME NEW i \in Invocations, Interrupt(i) PROVE SequentialInv'
  BY <1>3 DEF Interrupt
<1>4. CASE Boot
  BY <1>4 DEF Boot
<1>5. CASE HeadFails
  BY <1>5 DEF HeadFails
<1>6. CASE WorkerFails
  BY <1>6 DEF WorkerFails
<1>7. CASE WatchdogRestarts
  BY <1>7 DEF WatchdogRestarts
<1>8. CASE UNCHANGED vars
  BY <1>8 DEF vars
<1> QED
  BY <1>1, <1>2, <1>3, <1>4, <1>5, <1>6, <1>7, <1>8 DEF Next

(* As long as invocations of start.sh follow one another, any number of them   *)
(* and interrupted or failing anywhere, a boot goes on under an armed watchdog *)
(* only after a pause, or a re-arming, that did not take effect:               *)
(* pause_watchdog, resume_watchdog, on_ready.                                  *)
THEOREM SequentialBoots ==
  ASSUME MaxConcurrent = 1
  PROVE  Spec => []BootUndisturbed
<1>1. Init => SequentialInv
  BY InitSequential
<1>2. SequentialInv /\ [Next]_vars => SequentialInv'
  BY NextSequential
<1>3. SequentialInv => BootUndisturbed
  BY DEF SequentialInv
<1> QED
  BY <1>1, <1>2, <1>3, PTL DEF Spec

-----------------------------------------------------------------------------
(* Types *)

\* The health wait leaves before its count is READY_TIMEOUT.
TypeInv == TypeOK /\ \A i \in Invocations : polls[i] < ReadyPolls

LEMMA InitTyped == Init => TypeInv
<1> SUFFICES ASSUME Init PROVE TypeInv
  OBVIOUS
<1>1. unmanaged \in BOOLEAN /\ watchdog \in {"running", "stopped"}
  BY DEF Init
<1>2. /\ polls \in [Invocations -> 0..ReadyPolls] /\ misses \in [Invocations -> 0..2]
      /\ \A i \in Invocations : polls[i] < ReadyPolls
      /\ interrupts \in 0..MaxInterrupts
  BY LauncherAssumption DEF Init
<1>3. /\ pc \in [Invocations -> Steps \cup {"idle"}] /\ cmd \in [Invocations -> Commands]
      /\ head \in Up \cup {"absent", "exited"} /\ worker \in {"absent", "running", "exited"}
  BY DEF Init, Commands
<1> QED
  BY <1>1, <1>2, <1>3 DEF TypeInv, TypeOK

LEMMA StepTyped ==
  ASSUME TypeInv, NEW i \in Invocations, Step(i)
  PROVE  TypeInv'
<1> USE LauncherAssumption DEF TypeInv, TypeOK, Goto, Forget, wait, server, guard, Steps, Up
<1>1. CASE Stop(i) \/ StopWorker(i) \/ pause_watchdog(i) \/ preflight(i) \/ prepare(i)
  BY <1>1 DEF Stop, StopWorker, pause_watchdog, preflight, prepare, Pause, HeadRemoved, WorkerRemoved,
                Commands
<1>2. CASE RemoveHead(i) \/ RemoveWorker(i) \/ RunWorker(i) \/ RunHead(i)
  BY <1>2 DEF RemoveHead, RemoveWorker, RunWorker, RunHead, HeadRemoved, WorkerRemoved
<1>3. CASE Healthy(i) \/ GiveUp(i)
  BY <1>3 DEF Healthy, GiveUp
<1>4. CASE Poll(i)
  BY <1>4 DEF Poll, WorkerDead, Elapsed
<1>5. CASE post_ready_warmup(i) \/ on_ready(i)
  BY <1>5 DEF post_ready_warmup, on_ready, Resume
<1> QED
  BY <1>1, <1>2, <1>3, <1>4, <1>5 DEF Step

LEMMA NextTyped ==
  ASSUME TypeInv, [Next]_vars
  PROVE  TypeInv'
<1> USE LauncherAssumption DEF TypeInv, TypeOK, Goto, Forget, wait, server, guard, Steps, Up
<1>1. ASSUME NEW i \in Invocations, Begin(i) PROVE TypeInv'
  BY <1>1 DEF Begin, Commands
<1>2. ASSUME NEW i \in Invocations, Step(i) PROVE TypeInv'
  BY <1>2, StepTyped
<1>3. ASSUME NEW i \in Invocations, Interrupt(i) PROVE TypeInv'
  BY <1>3 DEF Interrupt, Commands
<1>4. CASE Boot \/ HeadFails \/ WorkerFails \/ WatchdogRestarts
  BY <1>4 DEF Boot, HeadFails, WorkerFails, WatchdogRestarts
<1>5. CASE UNCHANGED vars
  BY <1>5 DEF vars
<1> QED
  BY <1>1, <1>2, <1>3, <1>4, <1>5 DEF Next

(* The health wait never counts past READY_TIMEOUT or a third missed answer,   *)
(* for any number of invocations, at a time or not.                            *)
THEOREM LauncherTyped == Spec => []TypeOK
<1>1. TypeInv /\ [Next]_vars => TypeInv'
  BY NextTyped
<1>2. TypeInv => TypeOK
  BY DEF TypeInv
<1> QED
  BY InitTyped, <1>1, <1>2, PTL DEF Spec

-----------------------------------------------------------------------------
(* The columns of a layer, over the ranks, for every number of either *)

\* Rounding up: the parts of all ranks reach the last column.
LEMMA PartCovers ==
  ASSUME NEW columns \in Nat \ {0}, NEW shards \in Nat \ {0}
  PROVE  /\ Part(columns, shards) \in Nat \ {0}
         /\ columns <= shards * Part(columns, shards)
<1> DEFINE n == columns + shards - 1
           part == n \div shards
<1>1. n \in Nat /\ n >= shards
  OBVIOUS
<1>2. part \in Nat /\ n = shards * part + (n % shards) /\ (n % shards) \in 0..(shards - 1)
  BY <1>1, Z3
<1>3. columns <= shards * part
  <2>1. shards * part \in Nat
    BY <1>2
  <2> QED
    BY <1>1, <1>2, <2>1
<1>4. part # 0
  <2>1. ASSUME part = 0 PROVE FALSE
    BY <1>3, <2>1
  <2> QED
    BY <2>1
<1> QED
  BY <1>2, <1>3, <1>4 DEF Part

\* A column lies in the part of one rank.
LEMMA ColumnOfRank ==
  ASSUME NEW part \in Nat \ {0}, NEW c \in Nat, NEW r \in Nat
  PROVE  (r * part <= c /\ c < r * part + part) <=> r = c \div part
<1> DEFINE q == c \div part
<1>1. q \in Nat /\ c = part * q + (c % part) /\ (c % part) \in 0..(part - 1)
  BY Z3
<1>2. ASSUME r = q PROVE r * part <= c /\ c < r * part + part
  BY <1>1, <1>2
<1>3. ASSUME r * part <= c, c < r * part + part PROVE r = q
  <2>1. ASSUME r < q PROVE FALSE
    <3>1. q - r - 1 \in Nat
      BY <1>1, <2>1
    <3>2. part * q = part * r + part + part * (q - r - 1)
      BY <1>1, <3>1
    <3>3. part * (q - r - 1) >= 0
      BY <3>1
    <3> QED
      BY <1>1, <1>3, <3>2, <3>3
  <2>2. ASSUME q < r PROVE FALSE
    <3>1. r - q - 1 \in Nat
      BY <1>1, <2>2
    <3>2. part * r = part * q + part + part * (r - q - 1)
      BY <1>1, <3>1
    <3>3. part * (r - q - 1) >= 0
      BY <3>1
    <3> QED
      BY <1>1, <1>3, <3>2, <3>3
  <2> QED
    BY <1>1, <2>1, <2>2
<1> QED
  BY <1>2, <1>3

(* However many hash columns a layer has and however many ranks share them,    *)
(* every column is looked up by one rank and by no other: shard_range and the  *)
(* clamp of its last part.                                                     *)
THEOREM ColumnsPartition ==
  ASSUME NEW columns \in Nat \ {0}, NEW shards \in Nat \ {0}, NEW c \in 0..(columns - 1)
  PROVE  \E r \in 0..(shards - 1) : \A q \in 0..(shards - 1) :
           (HeadStart(columns, shards, q) <= c /\ c < HeadEnd(columns, shards, q)) <=> q = r
<1> DEFINE part == Part(columns, shards)
           r == c \div part
<1>1. part \in Nat \ {0} /\ columns <= shards * part
  BY PartCovers
<1> HIDE DEF part
<1>2. c \in Nat
  OBVIOUS
<1>3. r \in Nat /\ r * part <= c /\ c < r * part + part
  <2>1. r \in Nat
    BY <1>1, <1>2, Z3
  <2> QED
    BY <1>1, <1>2, <2>1, ColumnOfRank
<1>4. r \in 0..(shards - 1)
  <2>1. ASSUME r >= shards PROVE FALSE
    <3>1. r - shards \in Nat
      BY <1>3, <2>1
    <3>2. r * part = shards * part + (r - shards) * part
      BY <1>1, <1>3, <3>1
    <3>3. (r - shards) * part >= 0
      BY <1>1, <3>1
    <3> QED
      BY <1>1, <1>3, <3>2, <3>3
  <2> QED
    BY <1>3, <2>1
<1>5. ASSUME NEW q \in 0..(shards - 1)
      PROVE  (HeadStart(columns, shards, q) <= c /\ c < HeadEnd(columns, shards, q)) <=> q = r
  <2>1. (HeadStart(columns, shards, q) <= c /\ c < HeadEnd(columns, shards, q))
          <=> (q * part <= c /\ c < q * part + part)
    <3>1. q * part \in Nat
      BY <1>1
    <3> QED
      BY <3>1, <1>1 DEF HeadStart, HeadEnd, part
  <2>2. (q * part <= c /\ c < q * part + part) <=> q = r
    <3>1. q \in Nat
      OBVIOUS
    <3> QED
      BY <1>1, <1>2, <3>1, ColumnOfRank
  <2> QED
    BY <2>1, <2>2
<1> QED
  BY <1>4, <1>5

-----------------------------------------------------------------------------
(* The packers between the steps of an invocation *)

\* Packers leave the variables of Launcher alone.
LEMMA PackerStutters ==
  ASSUME NEW p, Packer(p) \/ PackerFails(p)
  PROVE  UNCHANGED vars
<1>1. PackerSkips(p) \/ PackerOpens(p) => UNCHANGED vars
  BY DEF PackerSkips, PackerOpens
<1>2. PackerWrites(p) => UNCHANGED vars
  BY DEF PackerWrites
<1>3. PackerRenames(p) \/ PackerFails(p) => UNCHANGED vars
  BY DEF PackerRenames, PackerFails
<1> QED
  BY <1>1, <1>2, <1>3 DEF Packer

\* A step of an invocation is a step of Launcher or packs.
LEMMA InvocationSteps ==
  ASSUME NEW i \in Invocations, PStep(i)
  PROVE  Step(i) \/ UNCHANGED vars
<1>1. CASE Otherwise(i)
  BY <1>1 DEF Otherwise, Step
<1>2. CASE Prepared(i)
  BY <1>2 DEF Prepared, Step
<1>3. CASE Mount(i)
  BY <1>3 DEF Mount, Step
<1>4. CASE Synced(i) \/ NotPacked(i) \/ PackRank(i)
  BY <1>4 DEF Synced, NotPacked, PackRank
<1>5. CASE Packer(i) \/ PackerFails(i)
  BY <1>5, PackerStutters
<1> QED
  BY <1>1, <1>2, <1>3, <1>4, <1>5 DEF PStep

LEMMA StepSimulates ==
  ASSUME [PNext]_pvars
  PROVE  [Next]_vars
<1>1. ASSUME NEW i \in Invocations, PStep(i) PROVE [Next]_vars
  BY <1>1, InvocationSteps DEF Next
<1>2. ASSUME NEW i \in Invocations, PInterrupt(i) PROVE Next
  BY <1>2 DEF PInterrupt, Next
<1>3. ASSUME NEW p \in Left, Packer(p) \/ PackerFails(p) PROVE UNCHANGED vars
  BY <1>3, PackerStutters
<1>4. CASE Load
  BY <1>4 DEF Load, Next
<1>5. CASE Around
  BY <1>5 DEF Around, Next
<1>6. CASE UNCHANGED pvars
  BY <1>6 DEF pvars
<1> QED
  BY <1>1, <1>2, <1>3, <1>4, <1>5, <1>6 DEF PNext

(* Whatever the packers do, and wherever Ctrl-C leaves them, the invocations,  *)
(* the containers and the watchdog behave as those of Launcher: start.sh with  *)
(* maybe_pack_engram implements start.sh without.                              *)
THEOREM PackedImplements == PSpec => Spec
<1>1. PInit => Init
  BY DEF PInit
<1>2. [PNext]_pvars => [Next]_vars
  BY StepSimulates
<1> QED
  BY <1>1, <1>2, PTL DEF PSpec, Spec

(* The same of the boots that pack first, for any number of invocations one    *)
(* after another, interrupts, layers and ranks' shards: only a pause or a      *)
(* re-arming that did not take effect leaves one under an armed watchdog.      *)
THEOREM PackedBoots == MaxConcurrent = 1 => (PSpec => []BootUndisturbed)
<1> SUFFICES ASSUME MaxConcurrent = 1 PROVE PSpec => []BootUndisturbed
  OBVIOUS
<1>1. Spec => []BootUndisturbed
  BY SequentialBoots
<1> QED
  BY <1>1, PackedImplements, PTL

(* The types of Launcher hold with the packing too.                            *)
THEOREM PackedTyped == PSpec => []TypeOK
BY PackedImplements, LauncherTyped, PTL

-----------------------------------------------------------------------------
(* What a packer leaves on disk *)

USE DEF PackerType

LEMMA LayersAre == Layers = 1..Len(LayerIds) /\ Len(LayerIds) \in Nat \ {0}
BY EngramShardsAssumption DEF Layers

\* The blocks of a range are the numbers up to a last one.
LEMMA BlocksOf ==
  ASSUME NEW range, range \in [lo : Nat, hi : Nat]
  PROVE  \E last \in Int : Chunks(range) = 0..last
<1>1. Size(range) - 1 \in Int
  BY DEF Size
<1>2. ChunkRows \in Nat \ {0}
  BY EngramShardsAssumption
<1>3. (Size(range) - 1) \div ChunkRows \in Int
  BY <1>1, <1>2
<1> QED
  BY <1>3 DEF Chunks

\* One entry of a table is replaced.
LEMMA TableExcept ==
  ASSUME NEW t, IsTable(t), NEW r \in Ranks, NEW k \in Layers, NEW x,
         NEW u, u = [t EXCEPT ![r][k] = x]
  PROVE  /\ IsTable(u) /\ u[r][k] = x
         /\ \A q \in Ranks, l \in Layers : <<q, l>> # <<r, k>> => u[q][l] = t[q][l]
<1>1. /\ DOMAIN t = Ranks /\ t = [q \in Ranks |-> t[q]]
      /\ \A q \in Ranks : t[q] = [l \in Layers |-> t[q][l]]
  BY DEF IsTable
<1>2. \A q \in Ranks : u[q] = IF q = r THEN [t[r] EXCEPT ![k] = x] ELSE t[q]
  BY <1>1
<1>3. \A q \in Ranks : u[q] = [l \in Layers |-> IF q = r /\ l = k THEN x ELSE t[q][l]]
  <2>1. u[r] = [l \in Layers |-> IF l = k THEN x ELSE t[r][l]]
    <3> DEFINE row == t[r]
    <3>1. row = [l \in Layers |-> row[l]] /\ u[r] = [row EXCEPT ![k] = x]
      BY <1>1, <1>2
    <3> HIDE DEF row
    <3>2. u[r] = [l \in Layers |-> IF l = k THEN x ELSE row[l]]
      BY <3>1
    <3> QED
      BY <3>2 DEF row
  <2> QED
    BY <1>1, <1>2, <2>1
<1>4. u = [q \in Ranks |-> u[q]]
  BY <1>1
<1>5. u = [q \in Ranks |-> [l \in Layers |-> u[q][l]]]
  BY <1>3, <1>4
<1> QED
  BY <1>3, <1>5 DEF IsTable

\* A packer that has a file open packs a layer and a range of numbers.
LEMMA RangeTyped ==
  ASSUME PackTypes, NEW p \in Packers, packer[p].file # "none"
  PROVE  /\ packer[p].rank \in Ranks /\ packer[p].layer \in Layers /\ packer[p].block \in Nat
         /\ RangeOf(p) \in [lo : Nat, hi : Nat]
BY RangesAssumption DEF PackTypes, RangeOf

LEMMA MaxOfTwo ==
  ASSUME NEW a \in Int, NEW b \in Int
  PROVE  Max({a, b}) \in {a, b} /\ Max({a, b}) >= a /\ Max({a, b}) >= b
<1>1. \E x \in {a, b} : \A y \in {a, b} : x >= y
  <2>1. CASE a >= b
    BY <2>1
  <2>2. CASE b >= a
    BY <2>2
  <2> QED
    BY <2>1, <2>2
<1> QED
  BY <1>1 DEF Max

LEMMA MinOfTwo ==
  ASSUME NEW a \in Int, NEW b \in Int
  PROVE  Min({a, b}) \in {a, b} /\ Min({a, b}) <= a /\ Min({a, b}) <= b
<1>1. \E x \in {a, b} : \A y \in {a, b} : x <= y
  <2>1. CASE a <= b
    BY <2>1
  <2>2. CASE b <= a
    BY <2>2
  <2> QED
    BY <2>1, <2>2
<1> QED
  BY <1>1 DEF Min

LEMMA RowsBeforeBlock ==
  ASSUME NEW range, range \in [lo : Nat, hi : Nat], NEW c \in Nat
  PROVE  /\ RowsBefore(range, c) \in Int /\ RowsBefore(range, c) <= Size(range)
         /\ range.lo < range.hi => RowsBefore(range, 0) = 0
<1>1. Size(range) \in Int /\ (range.lo < range.hi => Size(range) > 0)
  BY DEF Size
<1>2. ChunkRows \in Nat
  BY EngramShardsAssumption
<1>3. c * ChunkRows \in Int /\ 0 * ChunkRows = 0
  BY <1>2
<1>4. /\ RowsBefore(range, c) \in {c * ChunkRows, Size(range)} /\ RowsBefore(range, c) <= Size(range)
  BY <1>1, <1>3, MinOfTwo DEF RowsBefore
<1>5. /\ RowsBefore(range, 0) \in {0, Size(range)} /\ RowsBefore(range, 0) <= 0
  <2>1. RowsBefore(range, 0) = Min({0, Size(range)})
    BY <1>3, Zenon DEF RowsBefore
  <2>2. 0 \in Int
    OBVIOUS
  <2> QED
    BY <1>1, <2>1, <2>2, MinOfTwo
<1>6. RowsBefore(range, c) \in Int
  <2>1. CASE RowsBefore(range, c) = c * ChunkRows
    BY <1>3, <2>1
  <2>2. CASE RowsBefore(range, c) = Size(range)
    BY <1>1, <2>2
  <2> QED
    BY <1>4, <2>1, <2>2
<1>7. ASSUME range.lo < range.hi PROVE RowsBefore(range, 0) = 0
  <2>1. Size(range) > 0
    BY <1>1, <1>7
  <2> HIDE DEF Size
  <2> QED
    BY <1>1, <1>5, <2>1
<1> QED
  BY <1>4, <1>6, <1>7

\* The .partial a packer has just opened.
LEMMA HoldsHeader ==
  ASSUME NEW range, range \in [lo : Nat, hi : Nat], range.lo < range.hi
  PROVE  Holds(Header(range), range, 0, 0)
<1>1. RowsBefore(range, 0) = 0
  BY RowsBeforeBlock
<1> QED
  BY <1>1 DEF Holds, Header

LEMMA FileExcept ==
  ASSUME NEW f, f = [lo |-> f.lo, hi |-> f.hi, got |-> f.got, size |-> f.size], NEW g, NEW z
  PROVE  [f EXCEPT !.got = g, !.size = z] = [lo |-> f.lo, hi |-> f.hi, got |-> g, size |-> z]
<1> DEFINE u == [f EXCEPT !.got = g, !.size = z]
<1>1. DOMAIN f = {"lo", "hi", "got", "size"}
  OBVIOUS
<1>2. u = [x \in {"lo", "hi", "got", "size"} |-> u[x]]
  BY <1>1
<1>3. u["lo"] = f.lo /\ u["hi"] = f.hi /\ u["got"] = g /\ u["size"] = z
  BY <1>1
<1> HIDE DEF u
<1>4. u = [lo |-> f.lo, hi |-> f.hi, got |-> g, size |-> z]
  BY <1>2, <1>3
<1> QED
  BY <1>4 DEF u

\* A block that is cut short leaves the file short by what was cut.
LEMMA HoldsWritten ==
  ASSUME NEW range, range \in [lo : Nat, hi : Nat], NEW c \in Chunks(range), c \in Nat,
         NEW lost \in Nat, NEW cut \in Cuts(range, c),
         NEW file, Holds(file, range, c, lost)
  PROVE  Holds(WriteBlock(file, range, c, lost, cut), range, c + 1, lost + cut)
<1> DEFINE before == RowsBefore(range, c)
           after == RowsBefore(range, c + 1)
           end == after - lost - cut
           size == Max({file.size, end})
           got == WriteBlock(file, range, c, lost, cut).got
<1>1. before \in Int /\ after \in Int
  BY RowsBeforeBlock
<1>2. cut \in Nat /\ cut <= after - before
  BY DEF Cuts
<1>3. file.size \in Nat /\ file.size + lost <= before /\ (lost = 0 => file.got = 0..(c - 1))
  BY DEF Holds
<1>4. file = [lo |-> range.lo, hi |-> range.hi, got |-> file.got, size |-> file.size]
  BY DEF Holds
<1>5. WriteBlock(file, range, c, lost, cut) = [lo |-> range.lo, hi |-> range.hi, got |-> got, size |-> size]
  <2> DEFINE over == {b \in file.got : RowsBefore(range, b) < end
                                     /\ before - lost < RowsBefore(range, b + 1)}
             kept == IF lost + cut = 0 THEN file.got \cup {c} ELSE file.got \ over
  <2>2. WriteBlock(file, range, c, lost, cut) = [lo |-> range.lo, hi |-> range.hi, got |-> kept, size |-> size]
    <3>1. WriteBlock(file, range, c, lost, cut) = [file EXCEPT !.got = kept, !.size = size]
      BY DEF WriteBlock
    <3>2. file.lo = range.lo /\ file.hi = range.hi
      BY <1>4
    <3> HIDE DEF kept, size, got
    <3>3. [file EXCEPT !.got = kept, !.size = size] =
            [lo |-> file.lo, hi |-> file.hi, got |-> kept, size |-> size]
      BY <1>4, FileExcept
    <3> QED
      BY <3>1, <3>2, <3>3
  <2> HIDE DEF kept, size
  <2>3. got = kept
    BY <2>2 DEF got
  <2> QED
    BY <2>2, <2>3
<1>6. lost + cut = 0 => got = 0..c
  <2> SUFFICES ASSUME lost + cut = 0 PROVE got = 0..c
    OBVIOUS
  <2>1. got = file.got \cup {c}
    BY <1>4 DEF WriteBlock
  <2>2. lost = 0 /\ (0..(c - 1)) \cup {c} = 0..c
    BY <1>2
  <2> QED
    BY <1>3, <2>1, <2>2
<1> HIDE DEF before, after, got
<1>7. end \in Int /\ end = after - lost - cut
  BY <1>1, <1>2
<1>8. size \in Nat /\ size + (lost + cut) <= after
  <2> HIDE DEF end
  <2>1. size \in {file.size, end} /\ size >= file.size
    <3>1. file.size \in Int
      BY <1>3
    <3> QED
      BY <1>7, <3>1, MaxOfTwo DEF size
  <2> HIDE DEF size
  <2>2. ASSUME NEW z \in Nat, NEW b \in Int, NEW a \in Int, NEW x \in {z, a - lost - cut}, x >= z,
               z + lost <= b, cut <= a - b
        PROVE  x \in Nat /\ x + (lost + cut) <= a
    BY <1>2, <2>2
  <2> QED
    BY <1>1, <1>2, <1>3, <1>7, <2>1, <2>2
<1> HIDE DEF size
<1>9. c + 1 - 1 = c
  OBVIOUS
<1> QED
  BY <1>5, <1>6, <1>8, <1>9 DEF Holds, after

\* A packer past its last block, whose file is of full size, has written every block.
LEMMA HoldsWhole ==
  ASSUME NEW range, range \in [lo : Nat, hi : Nat], NEW c \in Nat, c \notin Chunks(range),
         NEW lost \in Nat, NEW file, Holds(file, range, c, lost), file.size >= Size(file)
  PROVE  Whole(file)
<1>1. /\ file.lo = range.lo /\ file.hi = range.hi
      /\ file.size \in Nat /\ file.size + lost <= RowsBefore(range, c)
      /\ lost = 0 => file.got = 0..(c - 1)
      /\ c = 0 \/ c - 1 \in Chunks(range)
  BY DEF Holds
<1>2. Size(file) = Size(range) /\ Chunks(file) = Chunks(range) /\ Size(range) \in Int
  BY <1>1 DEF Chunks, Size
<1>3. RowsBefore(range, c) \in Int /\ RowsBefore(range, c) <= Size(range)
  BY RowsBeforeBlock
<1>4. lost = 0
  BY <1>1, <1>2, <1>3
<1>5. PICK last \in Int : Chunks(range) = 0..last
  BY BlocksOf
<1>6. 0..(c - 1) = 0..last
  <2>1. CASE c = 0
    BY <1>5, <2>1
  <2>2. CASE c - 1 \in 0..last
    <3>1. c - 1 = last
      BY <1>5, <2>2
    <3> QED
      BY <3>1
  <2> QED
    BY <1>1, <1>5, <2>1, <2>2
<1> QED
  BY <1>1, <1>2, <1>4, <1>5, <1>6 DEF Whole

LEMMA InitPacked ==
  ASSUME PInit
  PROVE  PackInv
<1> USE DEF PInit
<1>1. PackTypes
  <2>1. 0 \in Ranks
    BY PackedLaunchAssumption DEF Ranks
  <2>2. Nobody \in PackerType
    BY <2>1, LayersAre DEF Nobody
  <2>3. IsTable(shard)
    BY DEF IsTable
  <2>4. IsTable(partial) /\ IsTable(attached)
    BY DEF IsTable, NotLoaded
  <2> QED
    BY <2>2, <2>3, <2>4 DEF PackTypes, Nobody
<1>2. HoldInv
  BY DEF HoldInv, Alone, Nobody
<1>3. ShardWhole
  BY DEF ShardWhole, Whole, OldShard, Chunks, Size
<1>4. AttachInv
  BY DEF AttachInv, NotLoaded
<1> QED
  BY <1>1, <1>2, <1>3, <1>4 DEF PackInv

\* Packers that put their file down or hand it to another keep what they hold.
LEMMA HoldMoved ==
  ASSUME PackInv, PackTypes', UNCHANGED overlapped,
         NEW from \in [Packers -> Packers],
         \A q \in Packers : packer'[q].file = "none" \/ packer'[q] = packer[from[q]],
         \A q, x \in Packers : (q # x /\ packer'[q].file # "none" /\ packer'[x].file # "none")
                                => from[q] # from[x],
         \A q \in Packers : packer'[q].file = "partial" =>
            partial'[packer'[q].rank][packer'[q].layer] = partial[packer'[q].rank][packer'[q].layer]
  PROVE  HoldInv'
<1> SUFFICES ASSUME NEW p \in Packers, Alone(p)'
             PROVE  /\ packer'[p].file = "partial"
                    /\ Holds(partial'[packer'[p].rank][packer'[p].layer], RangeOf(p)',
                             packer'[p].block, packer'[p].lost)
                    /\ \A q \in Packers \ {p} : SameShard(p, q)' => packer'[q].file = "none"
  BY DEF HoldInv
<1> DEFINE o == from[p]
<1>1. o \in Packers /\ packer'[p] = packer[o] /\ Alone(o) /\ RangeOf(p)' = RangeOf(o)
  BY DEF Alone, RangeOf
<1>2. /\ packer[o].file = "partial"
      /\ Holds(partial[packer[o].rank][packer[o].layer], RangeOf(o),
               packer[o].block, packer[o].lost)
      /\ \A q \in Packers \ {o} : SameShard(o, q) => packer[q].file = "none"
  BY <1>1 DEF PackInv, HoldInv
<1>3. ASSUME NEW q \in Packers \ {p}, SameShard(p, q)', packer'[q].file # "none" PROVE FALSE
  <2>1. from[q] \in Packers \ {o} /\ packer'[q] = packer[from[q]]
    BY <1>1, <1>3 DEF Alone
  <2>2. SameShard(o, from[q])
    BY <1>1, <1>3, <2>1 DEF SameShard
  <2> QED
    BY <1>2, <1>3, <2>1, <2>2
<1> QED
  BY <1>1, <1>2, <1>3

\* The packer of an invocation or one left behind ends.
LEMMA EndsTyped ==
  ASSUME PackTypes, NEW p \in Packers, Ends(p)
  PROVE  /\ packer' = [packer EXCEPT ![p] = Nobody]
         /\ packer' \in [Packers -> PackerType]
         /\ \A q \in Packers : packer'[q].file # "none" => packer'[q].layer \in Layers
<1>1. 0 \in Ranks
  BY PackedLaunchAssumption DEF Ranks
<1>2. Nobody \in PackerType
  BY <1>1, LayersAre DEF Nobody
<1> QED
  BY <1>2 DEF PackTypes, Ends, Nobody

LEMMA SkipsPacked ==
  ASSUME PackInv, NEW p \in Packers, PackerSkips(p)
  PROVE  PackInv'
<1>1. PackTypes /\ packer[p].file = "none"
  BY DEF PackInv, PackerSkips
<1>2. UNCHANGED <<shard, partial, overlapped, attached>>
  BY DEF PackerSkips, files
<1>3. /\ packer' \in [Packers -> PackerType]
      /\ \A q \in Packers : packer'[q].file # "none" => packer'[q].layer \in Layers
      /\ \A q \in Packers : packer'[q].file = "none" \/ packer'[q] = packer[q]
  <2>1. CASE packer[p].layer < Len(LayerIds)
    <3>1. packer' = [packer EXCEPT ![p].layer = @ + 1, ![p].file = "none", ![p].block = 0,
                                     ![p].lost = 0]
      BY <2>1 DEF PackerSkips, NextLayer
    <3>2. packer[p].layer + 1 \in 0..Len(LayerIds)
      BY <1>1, <2>1, LayersAre DEF PackTypes
    <3> QED
      BY <1>1, <3>1, <3>2, ZenonT(20) DEF PackTypes
  <2>2. CASE ~(packer[p].layer < Len(LayerIds))
    <3>1. Ends(p)
      BY <2>2 DEF PackerSkips, NextLayer
    <3> QED
      BY <1>1, <3>1, EndsTyped DEF PackTypes, Nobody
  <2> QED
    BY <2>1, <2>2
<1>4. PackTypes'
  BY <1>1, <1>2, <1>3 DEF PackTypes, IsTable
<1>5. HoldInv'
  <2> DEFINE from == [q \in Packers |-> q]
  <2>1. from \in [Packers -> Packers] /\ \A q \in Packers : from[q] = q
    OBVIOUS
  <2> HIDE DEF from
  <2> QED
    BY <1>2, <1>3, <1>4, <2>1, HoldMoved
<1> QED
  BY <1>2, <1>4, <1>5 DEF PackInv, ShardWhole, AttachInv

LEMMA FailsPacked ==
  ASSUME PackInv, NEW p \in Packers, PackerFails(p)
  PROVE  PackInv'
<1>1. PackTypes /\ Ends(p) /\ UNCHANGED <<shard, overlapped, attached>>
  BY DEF PackInv, PackerFails
<1>2. packer' = [packer EXCEPT ![p] = Nobody]
  BY <1>1 DEF Ends
<1>3. \A q \in Packers : packer'[q].file = "none" \/ packer'[q] = packer[q]
  BY <1>1, <1>2 DEF PackTypes, Nobody
<1>4. partial' = Forgotten(packer')
  BY <1>2 DEF PackerFails
<1>5. PackTypes'
  <2>1. IsTable(partial')
    BY <1>4 DEF Forgotten, IsTable
  <2> QED
    BY <1>1, <2>1, EndsTyped DEF PackTypes, IsTable
<1>6. HoldInv'
  <2> DEFINE from == [q \in Packers |-> q]
  <2>1. from \in [Packers -> Packers] /\ \A q \in Packers : from[q] = q
    OBVIOUS
  <2> HIDE DEF from
  <2>2. \A q \in Packers : packer'[q].file = "partial" =>
           partial'[packer'[q].rank][packer'[q].layer] = partial[packer'[q].rank][packer'[q].layer]
    BY <1>4, <1>5 DEF Forgotten, PackTypes
  <2> QED
    BY <1>1, <1>3, <1>5, <2>1, <2>2, HoldMoved
<1> QED
  BY <1>1, <1>5, <1>6 DEF PackInv, ShardWhole, AttachInv

LEMMA OpensPacked ==
  ASSUME PackInv, NEW p \in Packers, PackerOpens(p)
  PROVE  PackInv'
<1> DEFINE r == packer[p].rank
           k == packer[p].layer
           others == {q \in Packers \ {p} : SameShard(p, q) /\ packer[q].file = "partial"}
<1>1. PackTypes /\ HoldInv /\ r \in Ranks /\ k \in Layers /\ packer[p].file = "none"
  BY LayersAre DEF PackInv, PackTypes, PackerOpens
<1>2. /\ partial' = [partial EXCEPT ![r][k] = Header(RangeOf(p))]
      /\ packer' = [packer EXCEPT ![p].file = "partial", ![p].block = 0, ![p].lost = 0]
      /\ overlapped' = IF others = {} THEN overlapped ELSE overlapped \cup {<<r, k>>}
      /\ UNCHANGED <<shard, attached>>
  BY DEF PackerOpens
<1> HIDE DEF r, k, others
<1>0. /\ packer' \in [Packers -> PackerType]
      /\ packer'[p] = [packer[p] EXCEPT !.file = "partial", !.block = 0, !.lost = 0]
      /\ \A q \in Packers \ {p} : packer'[q] = packer[q]
  <2>1. packer \in [Packers -> PackerType]
    BY <1>1 DEF PackTypes
  <2>2. packer' = [packer EXCEPT ![p] = [packer[p] EXCEPT !.file = "partial", !.block = 0, !.lost = 0]]
    BY <1>2, <2>1
  <2>3. [packer[p] EXCEPT !.file = "partial", !.block = 0, !.lost = 0] \in PackerType
    BY <2>1
  <2> HIDE DEF PackerType
  <2> QED
    BY <2>1, <2>2, <2>3
<1>3. PackTypes'
  <2>1. IsTable(partial') /\ IsTable(shard') /\ IsTable(attached')
    BY <1>1, <1>2, TableExcept DEF PackTypes
  <2>2. ASSUME NEW q \in Packers, packer'[q].file # "none"
        PROVE  packer'[q].layer \in Layers
    <3>1. CASE q = p
      BY <1>0, <1>1, <3>1 DEF PackTypes, k
    <3>2. CASE q # p
      BY <1>0, <1>1, <2>2, <3>2 DEF PackTypes
    <3> QED
      BY <3>1, <3>2
  <2> QED
    BY <1>0, <2>1, <2>2 DEF PackTypes
<1>7. overlapped \subseteq overlapped'
  BY <1>2
<1>4. ASSUME <<r, k>> \notin overlapped', NEW q \in Packers \ {p}, SameShard(p, q)
      PROVE  packer[q].file = "none"
  BY <1>1, <1>2, <1>4 DEF HoldInv, Alone, SameShard, others, r, k
<1>5. ASSUME NEW q \in Packers, Alone(q)'
      PROVE  /\ packer'[q].file = "partial"
             /\ Holds(partial'[packer'[q].rank][packer'[q].layer], RangeOf(q)',
                      packer'[q].block, packer'[q].lost)
             /\ \A x \in Packers \ {q} : SameShard(q, x)' => packer'[x].file = "none"
  <2>1. CASE q = p
    <3>1. /\ packer'[p].file = "partial" /\ packer'[p].block = 0 /\ packer'[p].lost = 0
          /\ packer'[p].rank = r /\ packer'[p].layer = k /\ RangeOf(p)' = RangeOf(p)
      BY <1>1, <1>2 DEF PackTypes, RangeOf, r, k
    <3>2. Holds(partial'[r][k], RangeOf(p), 0, 0)
      <4>1. partial'[r][k] = Header(RangeOf(p))
        BY <1>1, <1>2 DEF PackTypes, IsTable
      <4>2. RangeOf(p) \in [lo : Nat, hi : Nat] /\ RangeOf(p).lo < RangeOf(p).hi
        BY <1>1, RangesAssumption DEF PackerOpens, RangeOf, r, k
      <4> QED
        BY <4>1, <4>2, HoldsHeader
    <3>3. \A x \in Packers \ {p} : SameShard(p, x)' => packer'[x].file = "none"
      <4>1. <<r, k>> \notin overlapped'
        BY <1>5, <2>1, <3>1 DEF Alone
      <4>2. \A x \in Packers \ {p} : SameShard(p, x)' => SameShard(p, x)
        BY <1>0, <3>1 DEF SameShard, r, k
      <4> QED
        BY <1>0, <1>4, <4>1, <4>2
    <3> QED
      BY <2>1, <3>1, <3>2, <3>3
  <2>2. CASE q # p
    <3>1. packer'[q] = packer[q] /\ RangeOf(q)' = RangeOf(q) /\ Alone(q)
      BY <1>0, <1>5, <1>7, <2>2 DEF Alone, RangeOf
    <3>2. ~SameShard(p, q)
      BY <1>2, <1>4, <1>5, <2>2, <3>1 DEF Alone, SameShard, r, k
    <3>3. partial'[packer[q].rank][packer[q].layer] = partial[packer[q].rank][packer[q].layer]
      BY <1>1, <1>2, <3>1, <3>2 DEF PackTypes, IsTable, SameShard, Alone, r, k
    <3>4. \A x \in Packers \ {q} : SameShard(q, x)' => SameShard(q, x) /\ x # p
      <4>1. packer'[p].rank = packer[p].rank /\ packer'[p].layer = packer[p].layer
        BY <1>0, <1>1 DEF PackTypes
      <4>2. ~SameShard(q, p)'
        BY <3>1, <3>2, <4>1 DEF SameShard
      <4> QED
        BY <1>0, <3>1, <4>2 DEF SameShard
    <3>5. /\ packer[q].file = "partial"
          /\ Holds(partial[packer[q].rank][packer[q].layer], RangeOf(q),
                   packer[q].block, packer[q].lost)
          /\ \A x \in Packers \ {q} : SameShard(q, x) => packer[x].file = "none"
      BY <1>1, <3>1 DEF HoldInv
    <3>6. \A x \in Packers \ {q} : SameShard(q, x)' => packer'[x].file = "none"
      BY <1>0, <3>4, <3>5
    <3> QED
      BY <3>1, <3>3, <3>5, <3>6
  <2> QED
    BY <2>1, <2>2
<1>6. HoldInv'
  BY <1>5 DEF HoldInv
<1> QED
  BY <1>2, <1>3, <1>6, <1>7 DEF PackInv, ShardWhole, AttachInv

\* What HoldInv says of one packer.
LEMMA AloneHolds ==
  ASSUME HoldInv, NEW p \in Packers, Alone(p)
  PROVE  /\ packer[p].file = "partial"
         /\ Holds(partial[packer[p].rank][packer[p].layer], RangeOf(p),
                  packer[p].block, packer[p].lost)
         /\ \A q \in Packers \ {p} : SameShard(p, q) => packer[q].file = "none"
BY DEF HoldInv

\* A packer keeps what it holds when another one moves and neither its shard's
\* .partial nor a packer of its shard takes part.
LEMMA HoldKept ==
  ASSUME HoldInv, PackTypes, NEW q \in Packers, Alone(q)', Alone(q),
         packer'[q] = packer[q],
         partial'[packer[q].rank][packer[q].layer] = partial[packer[q].rank][packer[q].layer],
         \A x \in Packers \ {q} : SameShard(q, x)' => SameShard(q, x)
         /\ (packer[x].file = "none" => packer'[x].file = "none")
  PROVE  /\ packer'[q].file = "partial"
         /\ Holds(partial'[packer'[q].rank][packer'[q].layer], RangeOf(q)',
                  packer'[q].block, packer'[q].lost)
         /\ \A x \in Packers \ {q} : SameShard(q, x)' => packer'[x].file = "none"
<1>1. RangeOf(q)' = RangeOf(q)
  BY DEF RangeOf
<1> QED
  BY <1>1, AloneHolds

LEMMA WritesPacked ==
  ASSUME PackInv, NEW p \in Packers, PackerWrites(p)
  PROVE  PackInv'
<1> DEFINE r == packer[p].rank
           k == packer[p].layer
           c == packer[p].block
           lost == packer[p].lost
<1>1. /\ PackTypes /\ HoldInv /\ r \in Ranks /\ k \in Layers /\ c \in Nat /\ lost \in Nat
      /\ packer[p].file # "none" /\ c \in Chunks(RangeOf(p)) /\ RangeOf(p) \in [lo : Nat, hi : Nat]
  BY RangeTyped DEF PackInv, PackTypes, PackerWrites
<1>a. PICK cut \in Cuts(RangeOf(p), c) :
        /\ partial' = IF packer[p].file = "partial"
                      THEN [partial EXCEPT ![r][k] = WriteBlock(@, RangeOf(p), c, lost, cut)] ELSE partial
        /\ shard' = IF packer[p].file = "shard"
                    THEN [shard EXCEPT ![r][k] = WriteBlock(@, RangeOf(p), c, lost, cut)] ELSE shard
        /\ packer' = [packer EXCEPT ![p].block = c + 1, ![p].lost = lost + cut]
  BY DEF PackerWrites
<1>b. cut \in Nat /\ lost + cut \in Nat
  BY <1>1 DEF Cuts
<1> DEFINE wrote(file) == WriteBlock(file, RangeOf(p), c, lost, cut)
<1>2. /\ partial' = IF packer[p].file = "partial"
                    THEN [partial EXCEPT ![r][k] = wrote(@)] ELSE partial
      /\ shard' = IF packer[p].file = "shard"
                  THEN [shard EXCEPT ![r][k] = wrote(@)] ELSE shard
      /\ packer' = [packer EXCEPT ![p].block = c + 1, ![p].lost = lost + cut]
      /\ UNCHANGED <<attached, overlapped>>
  <2>1. UNCHANGED <<attached, overlapped>>
    BY DEF PackerWrites
  <2> HIDE DEF c, lost, r, k
  <2> QED
    BY <1>a, <2>1
<1> HIDE DEF r, k, c, lost, wrote
<1>3. /\ packer' \in [Packers -> PackerType]
      /\ packer'[p] = [packer[p] EXCEPT !.block = c + 1, !.lost = lost + cut]
      /\ \A q \in Packers \ {p} : packer'[q] = packer[q]
      /\ \A q \in Packers : packer'[q].rank = packer[q].rank /\ packer'[q].layer = packer[q].layer
                            /\ packer'[q].file = packer[q].file
  <2>1. packer \in [Packers -> PackerType]
    BY <1>1 DEF PackTypes
  <2>2. packer' = [packer EXCEPT ![p] = [packer[p] EXCEPT !.block = c + 1, !.lost = lost + cut]]
    BY <1>2, <2>1
  <2>3. [packer[p] EXCEPT !.block = c + 1, !.lost = lost + cut] \in PackerType
    <3>1. packer[p] \in PackerType /\ c + 1 \in Nat /\ lost + cut \in Nat
      BY <1>1, <1>b, <2>1
    <3>2. ASSUME NEW f \in PackerType, NEW b \in Nat, NEW l \in Nat
          PROVE  [f EXCEPT !.block = b, !.lost = l] \in PackerType
      OBVIOUS
    <3> HIDE DEF PackerType
    <3> QED
      BY <3>1, <3>2
  <2>4. /\ packer' \in [Packers -> PackerType]
        /\ packer'[p] = [packer[p] EXCEPT !.block = c + 1, !.lost = lost + cut]
        /\ \A q \in Packers \ {p} : packer'[q] = packer[q]
    <3> HIDE DEF PackerType
    <3> QED
      BY <2>1, <2>2, <2>3
  <2>5. /\ packer'[p].rank = packer[p].rank /\ packer'[p].layer = packer[p].layer
        /\ packer'[p].file = packer[p].file
    BY <2>1, <2>4
  <2> QED
    BY <2>4, <2>5
<1>4. /\ IsTable(partial') /\ IsTable(shard')
      /\ \A q \in Ranks, l \in Layers : <<q, l>> # <<r, k>> =>
           partial'[q][l] = partial[q][l] /\ shard'[q][l] = shard[q][l]
      /\ packer[p].file = "partial" =>
           partial'[r][k] = wrote(partial[r][k]) /\ shard' = shard
  <2>1. IsTable(partial) /\ IsTable(shard)
    BY <1>1 DEF PackTypes
  <2>2. CASE packer[p].file = "partial"
    <3>1. partial' = [partial EXCEPT ![r][k] = wrote(partial[r][k])]
          /\ shard' = shard
      BY <1>1, <1>2, <2>1, <2>2 DEF IsTable
    <3>2. /\ IsTable(partial') /\ partial'[r][k] = wrote(partial[r][k])
          /\ \A q \in Ranks, l \in Layers : <<q, l>> # <<r, k>> => partial'[q][l] = partial[q][l]
      <4> DEFINE x == wrote(partial[r][k])
      <4>1. partial' = [partial EXCEPT ![r][k] = x]
        BY <3>1
      <4> HIDE DEF x
      <4>2. IsTable(partial')
        BY <1>1, <2>1, <4>1, TableExcept
      <4>3. partial'[r][k] = x
        BY <1>1, <2>1, <4>1 DEF IsTable
      <4>4. \A q \in Ranks, l \in Layers : <<q, l>> # <<r, k>> => partial'[q][l] = partial[q][l]
        BY <1>1, <2>1, <4>1 DEF IsTable
      <4> QED
        BY <4>2, <4>3, <4>4 DEF x
    <3> QED
      BY <2>1, <3>1, <3>2
  <2>3. CASE packer[p].file = "shard"
    <3>1. shard' = [shard EXCEPT ![r][k] = wrote(shard[r][k])]
          /\ partial' = partial
      BY <1>1, <1>2, <2>1, <2>3 DEF IsTable
    <3>2. /\ IsTable(shard')
          /\ \A q \in Ranks, l \in Layers : <<q, l>> # <<r, k>> => shard'[q][l] = shard[q][l]
      <4> DEFINE x == wrote(shard[r][k])
      <4>1. shard' = [shard EXCEPT ![r][k] = x]
        BY <3>1
      <4> HIDE DEF x
      <4>2. IsTable(shard')
        BY <1>1, <2>1, <4>1, TableExcept
      <4>3. \A q \in Ranks, l \in Layers : <<q, l>> # <<r, k>> => shard'[q][l] = shard[q][l]
        BY <1>1, <2>1, <4>1 DEF IsTable
      <4> QED
        BY <4>2, <4>3
    <3> QED
      BY <2>1, <2>3, <3>1, <3>2
  <2>4. CASE packer[p].file \notin {"partial", "shard"}
    BY <1>2, <2>1, <2>4
  <2> QED
    BY <2>2, <2>3, <2>4
<1>5. PackTypes'
  <2>1. IsTable(attached')
    BY <1>1, <1>2 DEF PackTypes
  <2>2. \A q \in Packers : packer'[q].file # "none" => packer'[q].layer \in Layers
    BY <1>1, <1>3 DEF PackTypes
  <2> QED
    BY <1>3, <1>4, <2>1, <2>2 DEF PackTypes
<1>6. ASSUME NEW q \in Packers, Alone(q)'
      PROVE  /\ packer'[q].file = "partial"
             /\ Holds(partial'[packer'[q].rank][packer'[q].layer], RangeOf(q)',
                      packer'[q].block, packer'[q].lost)
             /\ \A x \in Packers \ {q} : SameShard(q, x)' => packer'[x].file = "none"
  <2>1. Alone(q) /\ RangeOf(q)' = RangeOf(q)
    BY <1>2, <1>3, <1>6, SMTT(20) DEF Alone, RangeOf
  <2>2. \A x \in Packers : SameShard(q, x)' <=> SameShard(q, x)
    BY <1>3 DEF SameShard
  <2>3. CASE q = p
    <3>1. /\ packer[p].file = "partial" /\ Holds(partial[r][k], RangeOf(p), c, lost)
          /\ \A x \in Packers \ {p} : SameShard(p, x) => packer[x].file = "none"
      BY <1>1, <2>1, <2>3, AloneHolds DEF r, k, c, lost
    <3>2. Holds(partial'[r][k], RangeOf(p), c + 1, lost + cut)
      BY <1>1, <1>4, <3>1, HoldsWritten DEF wrote
    <3>3. /\ packer'[p].block = c + 1 /\ packer'[p].lost = lost + cut
          /\ packer'[p].rank = r /\ packer'[p].layer = k
      BY <1>1, <1>3 DEF PackTypes, r, k
    <3> QED
      BY <1>1, <1>3, <2>1, <2>2, <2>3, <3>1, <3>2, <3>3
  <2>4. CASE q # p
    <3>1. ~SameShard(p, q)
      <4>1. ASSUME SameShard(p, q) PROVE FALSE
        BY <1>1, <2>1, <2>4, <4>1, AloneHolds DEF SameShard
      <4> QED
        BY <4>1
    <3>2. packer[q].rank \in Ranks /\ packer[q].layer \in Layers
      BY <1>1, <2>1, RangeTyped DEF Alone
    <3>3. partial'[packer[q].rank][packer[q].layer] = partial[packer[q].rank][packer[q].layer]
      BY <1>4, <3>1, <3>2 DEF SameShard, r, k
    <3> QED
      BY <1>1, <1>3, <1>6, <2>1, <2>2, <2>4, <3>3, HoldKept
  <2> QED
    BY <2>3, <2>4
<1>7. HoldInv'
  BY <1>6 DEF HoldInv
<1>8. ShardWhole'
  <2>1. CASE packer[p].file = "partial"
    BY <1>2, <1>4, <2>1 DEF PackInv, ShardWhole
  <2>2. CASE packer[p].file # "partial"
    <3>1. <<r, k>> \in overlapped
      BY <1>1, <2>2 DEF HoldInv, Alone, r, k
    <3> QED
      BY <1>2, <1>4, <3>1 DEF PackInv, ShardWhole
  <2> QED
    BY <2>1, <2>2
<1> QED
  BY <1>2, <1>5, <1>7, <1>8 DEF PackInv, AttachInv

LEMMA RenamesPacked ==
  ASSUME PackInv, NEW p \in Packers, PackerRenames(p)
  PROVE  PackInv'
<1> DEFINE r == packer[p].rank
           k == packer[p].layer
           moved == [q \in Packers |->
                       IF ~SameShard(p, q) THEN packer[q]
                       ELSE CASE packer[q].file = "partial" -> [packer[q] EXCEPT !.file = "shard"]
                              [] packer[q].file = "shard" -> [packer[q] EXCEPT !.file = "gone"]
                              [] OTHER -> packer[q]]
           next == IF k = Len(LayerIds) THEN Nobody
                   ELSE [Nobody EXCEPT !.rank = r, !.layer = k + 1]
           Typed == PackerType
<1>1. /\ PackTypes /\ HoldInv /\ r \in Ranks /\ k \in Layers
      /\ RangeOf(p) \in [lo : Nat, hi : Nat]
      /\ packer[p].file # "none" /\ packer[p].block \in Nat
      /\ packer[p].block \notin Chunks(RangeOf(p))
  BY RangeTyped DEF PackInv, PackerRenames, Finished
<1>2. /\ shard' = [shard EXCEPT ![r][k] = partial[r][k]]
      /\ partial' = [partial EXCEPT ![r][k] = NoFile]
      /\ packer' = [moved EXCEPT ![p] = next]
      /\ UNCHANGED <<attached, overlapped>>
  BY DEF PackerRenames
<1>3. next \in Typed /\ next.file = "none"
  <2>1. 0 \in Ranks
    BY PackedLaunchAssumption DEF Ranks
  <2>2. k # Len(LayerIds) => k + 1 \in 0..Len(LayerIds)
    BY <1>1, LayersAre
  <2>3. CASE k = Len(LayerIds)
    BY <1>1, <2>1, <2>3, LayersAre DEF Nobody
  <2>4. CASE k # Len(LayerIds)
    <3>1. next = [Nobody EXCEPT !.rank = r, !.layer = k + 1]
      BY <2>4
    <3> HIDE DEF next, r, k
    <3> QED
      BY <1>1, <2>2, <2>4, <3>1 DEF Nobody
  <2> QED
    BY <2>3, <2>4
<1>4. /\ packer' \in [Packers -> Typed] /\ packer'[p] = next
      /\ \A q \in Packers \ {p} : packer'[q] = moved[q]
  <2>1. moved \in [Packers -> Typed]
    BY <1>1 DEF PackTypes
  <2> HIDE DEF moved, next
  <2> QED
    BY <1>2, <1>3, <2>1
<1>5. \A q \in Packers \ {p} :
        /\ packer'[q].rank = packer[q].rank /\ packer'[q].layer = packer[q].layer
        /\ packer[q].file = "none" <=> packer'[q].file = "none"
        /\ ~SameShard(p, q) => packer'[q] = packer[q]
  BY <1>1, <1>4 DEF PackTypes
<1> HIDE DEF moved, next
<1>6. /\ IsTable(partial') /\ IsTable(shard') /\ shard'[r][k] = partial[r][k]
      /\ \A q \in Ranks, l \in Layers : <<q, l>> # <<r, k>> =>
           partial'[q][l] = partial[q][l] /\ shard'[q][l] = shard[q][l]
  <2>1. IsTable(partial) /\ IsTable(shard)
    BY <1>1 DEF PackTypes
  <2> HIDE DEF r, k
  <2>2. IsTable(partial') /\ IsTable(shard')
    BY <1>1, <1>2, <2>1, TableExcept
  <2>3. /\ shard'[r][k] = partial[r][k]
        /\ \A q \in Ranks, l \in Layers : <<q, l>> # <<r, k>> => shard'[q][l] = shard[q][l]
    BY <1>1, <1>2, <2>1 DEF IsTable
  <2>4. \A q \in Ranks, l \in Layers : <<q, l>> # <<r, k>> => partial'[q][l] = partial[q][l]
    BY <1>1, <1>2, <2>1 DEF IsTable
  <2> QED
    BY <2>2, <2>3, <2>4
<1>7. PackTypes'
  <2>1. IsTable(attached')
    BY <1>1, <1>2 DEF PackTypes
  <2>2. \A q \in Packers : packer'[q].file # "none" => packer'[q].layer \in Layers
    BY <1>1, <1>3, <1>4, <1>5 DEF PackTypes
  <2> QED
    BY <1>4, <1>6, <2>1, <2>2 DEF PackTypes
<1>8. ASSUME NEW q \in Packers, Alone(q)'
      PROVE  /\ packer'[q].file = "partial"
             /\ Holds(partial'[packer'[q].rank][packer'[q].layer], RangeOf(q)',
                      packer'[q].block, packer'[q].lost)
             /\ \A x \in Packers \ {q} : SameShard(q, x)' => packer'[x].file = "none"
  <2>1. q # p /\ Alone(q)
    BY <1>2, <1>3, <1>4, <1>5, <1>8 DEF Alone
  <2>2. ~SameShard(p, q)
    <3>1. ASSUME SameShard(p, q) PROVE FALSE
      <4>1. SameShard(q, p)
        BY <3>1 DEF SameShard
      <4> QED
        BY <1>1, <2>1, <4>1, AloneHolds
    <3> QED
      BY <3>1
  <2>3. packer'[q] = packer[q]
    BY <1>5, <2>1, <2>2
  <2>4. packer[q].rank \in Ranks /\ packer[q].layer \in Layers
    BY <1>1, <2>1, RangeTyped DEF Alone
  <2>5. partial'[packer[q].rank][packer[q].layer] = partial[packer[q].rank][packer[q].layer]
    BY <1>6, <2>2, <2>4 DEF SameShard
  <2>6. ASSUME NEW x \in Packers \ {q}, SameShard(q, x)' PROVE packer'[x].file = "none"
    <3>1. CASE x = p
      BY <1>3, <1>4, <3>1
    <3>2. CASE x # p
      <4>1. SameShard(q, x)
        BY <1>5, <2>3, <2>6, <3>2 DEF SameShard
      <4>2. packer[x].file = "none"
        BY <1>1, <2>1, <2>6, <4>1, AloneHolds
      <4> QED
        BY <1>5, <2>6, <3>2, <4>2
    <3> QED
      BY <3>1, <3>2
  <2>7. RangeOf(q)' = RangeOf(q)
    BY <2>3 DEF RangeOf
  <2>8. /\ packer[q].file = "partial"
        /\ Holds(partial[packer[q].rank][packer[q].layer], RangeOf(q),
                 packer[q].block, packer[q].lost)
    BY <1>1, <2>1, AloneHolds
  <2> QED
    BY <2>3, <2>5, <2>6, <2>7, <2>8
<1>9. HoldInv'
  BY <1>8 DEF HoldInv
<1>10. <<r, k>> \notin overlapped /\ partial[r][k].size >= Size(partial[r][k]) => Whole(partial[r][k])
  <2> SUFFICES ASSUME <<r, k>> \notin overlapped, partial[r][k].size >= Size(partial[r][k])
               PROVE  Whole(partial[r][k])
    OBVIOUS
  <2>1. Holds(partial[r][k], RangeOf(p), packer[p].block, packer[p].lost)
    <3>1. Alone(p)
      BY <1>1 DEF Alone
    <3> QED
      BY <1>1, <3>1, AloneHolds
  <2>2. packer[p].lost \in Nat
    BY <1>1 DEF PackTypes
  <2> HIDE DEF r, k
  <2> QED
    BY <1>1, <2>1, <2>2, HoldsWhole
<1>11. ShardWhole'
  <2>1. ASSUME NEW q \in Ranks, NEW l \in Layers, shard'[q][l] # NoFile, <<q, l>> \notin overlapped',
               shard'[q][l].size >= Size(shard'[q][l])
        PROVE  Whole(shard'[q][l])
    <3>1. CASE <<q, l>> = <<r, k>>
      <4>1. q = r /\ l = k
        BY <3>1
      <4>2. shard'[q][l] = partial[r][k] /\ <<r, k>> \notin overlapped
        BY <1>2, <1>6, <2>1, <4>1
      <4>3. partial[r][k].size >= Size(partial[r][k])
        BY <2>1, <4>2, Zenon
      <4> QED
        BY <1>10, <4>2, <4>3, Zenon
    <3>2. CASE <<q, l>> # <<r, k>>
      <4>1. shard'[q][l] = shard[q][l] /\ <<q, l>> \notin overlapped
        BY <1>2, <1>6, <2>1, <3>2
      <4>2. shard[q][l].size >= Size(shard[q][l]) /\ shard[q][l] # NoFile
        BY <2>1, <4>1, Zenon
      <4> QED
        BY <4>1, <4>2, Zenon DEF PackInv, ShardWhole
    <3> QED
      BY <3>1, <3>2
  <2> QED
    BY <2>1 DEF ShardWhole
<1> QED
  BY <1>2, <1>7, <1>9, <1>11 DEF PackInv, AttachInv

\* A packer starts with no file.
LEMMA StartsPacked ==
  ASSUME PackInv, NEW i \in Invocations, PackRank(i)
  PROVE  PackInv'
<1> DEFINE r == RankOf(packing[i])
           started == [Nobody EXCEPT !.rank = r, !.layer = 1]
<1>1. /\ PackTypes /\ i \in Packers
      /\ packer' = [packer EXCEPT ![i] = started]
      /\ UNCHANGED <<shard, partial, overlapped, attached>>
  BY DEF PackInv, PackRank, files, Packers
<1>2. started \in PackerType /\ started.file = "none"
  <2>1. r \in Ranks
    BY PackedLaunchAssumption DEF Ranks, RankOf
  <2>2. 1 \in 0..Len(LayerIds)
    BY LayersAre
  <2> HIDE DEF r
  <2> QED
    BY <2>1, <2>2 DEF Nobody
<1> HIDE DEF started
<1>3. \A q \in Packers : packer'[q].file = "none" \/ packer'[q] = packer[q]
  BY <1>1, <1>2 DEF PackTypes
<1>4. PackTypes'
  <2>1. IsTable(shard') /\ IsTable(partial') /\ IsTable(attached')
    BY <1>1 DEF PackTypes
  <2> QED
    BY <1>1, <1>2, <2>1 DEF PackTypes
<1>5. HoldInv'
  <2> DEFINE from == [q \in Packers |-> q]
  <2>1. from \in [Packers -> Packers] /\ \A q \in Packers : from[q] = q
    OBVIOUS
  <2> HIDE DEF from
  <2> QED
    BY <1>1, <1>3, <1>4, <2>1, HoldMoved
<1> QED
  BY <1>1, <1>4, <1>5 DEF PackInv, ShardWhole, AttachInv

\* Ctrl-C: the packer on the head is gone, the one on the worker has a new number.
LEMMA InterruptPacked ==
  ASSUME PackInv, NEW i \in Invocations, PInterrupt(i)
  PROVE  PackInv'
<1> DEFINE n == interrupts'
           left == packer[i].layer > 0 /\ packer[i].rank = 1
           kept == IF left THEN packer[i] ELSE Nobody
           from == [q \in Packers |-> IF q = n /\ left THEN i ELSE q]
           Typed == PackerType
<1>1. /\ PackTypes /\ i \in Packers
      /\ packer' = [packer EXCEPT ![i] = Nobody, ![n] = kept]
      /\ partial' = Forgotten(packer')
      /\ UNCHANGED <<shard, overlapped, attached>>
  BY DEF PackInv, PInterrupt, Packers
<1> HIDE DEF n
<1>2. Nobody \in Typed /\ Nobody.file = "none"
  <2>1. 0 \in Ranks
    BY PackedLaunchAssumption DEF Ranks
  <2> QED
    BY <2>1, LayersAre DEF Nobody
<1>3. kept \in Typed
  BY <1>1, <1>2 DEF PackTypes
<1> HIDE DEF left, kept
<1>4. /\ packer' \in [Packers -> Typed]
      /\ \A q \in Packers : packer'[q] = IF q = n THEN kept ELSE IF q = i THEN Nobody ELSE packer[q]
  BY <1>1, <1>2, <1>3 DEF PackTypes
<1>5. kept = IF left THEN packer[i] ELSE Nobody
  BY DEF kept
<1>6. PackTypes'
  <2>1. IsTable(shard') /\ IsTable(attached')
    BY <1>1 DEF PackTypes
  <2>2. IsTable(partial')
    BY <1>1 DEF Forgotten, IsTable
  <2>3. \A q \in Packers : packer'[q].file # "none" => packer'[q].layer \in Layers
    BY <1>1, <1>2, <1>4, <1>5 DEF PackTypes
  <2> QED
    BY <1>4, <2>1, <2>2, <2>3 DEF PackTypes
<1>7. HoldInv'
  <2>1. from \in [Packers -> Packers]
        /\ \A q \in Packers : from[q] = IF q = n /\ left THEN i ELSE q
    BY <1>1
  <2> HIDE DEF from
  <2>2. \A q \in Packers : packer'[q].file = "none" \/ packer'[q] = packer[from[q]]
    BY <1>2, <1>4, <1>5, <2>1
  <2>3. \A q, x \in Packers : (q # x /\ packer'[q].file # "none" /\ packer'[x].file # "none")
                              => from[q] # from[x]
    BY <1>2, <1>4, <1>5, <2>1, SMTT(20)
  <2>4. \A q \in Packers : packer'[q].file = "partial" =>
           partial'[packer'[q].rank][packer'[q].layer] = partial[packer'[q].rank][packer'[q].layer]
    BY <1>1, <1>6 DEF Forgotten, PackTypes
  <2> QED
    BY <1>1, <1>6, <2>1, <2>2, <2>3, <2>4, HoldMoved
<1> QED
  BY <1>1, <1>6, <1>7 DEF PackInv, ShardWhole, AttachInv

\* No packer and no file moves, and what lookups hold they keep or drop.
LEMMA KeptPacked ==
  ASSUME PackInv, UNCHANGED <<packer, files>>, attached' \in {attached, NotLoaded}
  PROVE  PackInv'
<1>1. PackTypes'
  <2>1. IsTable(attached')
    <3>1. IsTable(NotLoaded)
      BY DEF IsTable, NotLoaded
    <3> QED
      BY <3>1 DEF PackInv, PackTypes
  <2> QED
    BY <2>1 DEF PackInv, PackTypes, files
<1>2. HoldInv'
  BY DEF PackInv, HoldInv, Alone, RangeOf, SameShard, files
<1>3. ShardWhole'
  BY DEF PackInv, ShardWhole, files
<1>4. AttachInv'
  <2>1. \A r \in Ranks, k \in Layers : NotLoaded[r][k].how # "packed"
    BY DEF NotLoaded
  <2>2. CASE attached' = attached
    BY <2>2 DEF PackInv, AttachInv, files
  <2>3. CASE attached' = NotLoaded
    BY <2>1, <2>3 DEF AttachInv
  <2> QED
    BY <2>2, <2>3
<1> QED
  BY <1>1, <1>2, <1>3, <1>4 DEF PackInv

\* A rank attaches a file of its own range under its final name: a whole one.
LEMMA LoadPacked ==
  ASSUME PackInv, Load
  PROVE  PackInv'
<1>1. /\ UNCHANGED <<packer, shard, partial, overlapped>>
      /\ attached' = [r \in Ranks |-> [k \in Layers |-> [how |-> Found(r, k), file |-> shard[r][k]]]]
  BY DEF Load, files
<1>2. PackTypes'
  <2>1. IsTable(attached')
    BY <1>1 DEF IsTable
  <2> QED
    BY <1>1, <2>1 DEF PackInv, PackTypes
<1>3. HoldInv'
  BY <1>1 DEF PackInv, HoldInv, Alone, RangeOf, SameShard
<1>4. ShardWhole'
  BY <1>1 DEF PackInv, ShardWhole
<1>5. ASSUME NEW r \in Ranks, NEW k \in Layers, attached'[r][k].how = "packed",
             <<r, k>> \notin overlapped'
      PROVE  LET file == attached'[r][k].file
             IN /\ Whole(file)
                /\ file.lo = EngineRanges[r][k].lo /\ file.hi = EngineRanges[r][k].hi
  <2>1. attached'[r][k].file = shard[r][k] /\ Found(r, k) = "packed"
    BY <1>1, <1>5
  <2>2. Attach(shard[r][k], EngineRanges[r][k]) = "packed"
    BY <2>1 DEF Found
  <2>3. /\ shard[r][k] # NoFile
        /\ shard[r][k].lo = EngineRanges[r][k].lo /\ shard[r][k].hi = EngineRanges[r][k].hi
        /\ shard[r][k].size >= Size(shard[r][k])
    BY <2>2 DEF Attach, Size
  <2> QED
    BY <1>1, <1>5, <2>1, <2>3 DEF PackInv, ShardWhole
<1> QED
  BY <1>2, <1>3, <1>4, <1>5 DEF PackInv, AttachInv

LEMMA PackerPacked ==
  ASSUME PackInv, NEW p \in Packers, Packer(p) \/ PackerFails(p)
  PROVE  PackInv'
BY SkipsPacked, OpensPacked, WritesPacked, RenamesPacked, FailsPacked DEF Packer

LEMMA NextPacked ==
  ASSUME PackInv, [PNext]_pvars
  PROVE  PackInv'
<1>1. ASSUME NEW i \in Invocations, PStep(i) PROVE PackInv'
  <2>1. CASE Otherwise(i) \/ Prepared(i) \/ Mount(i) \/ Synced(i) \/ NotPacked(i)
    <3>1. UNCHANGED <<packer, files>> /\ attached' \in {attached, NotLoaded}
      BY <2>1 DEF Otherwise, Prepared, Mount, Synced, NotPacked
    <3> QED
      BY <3>1, KeptPacked
  <2>2. CASE PackRank(i)
    BY <2>2, StartsPacked
  <2>3. CASE Packer(i) \/ PackerFails(i)
    BY <2>3, PackerPacked DEF Packers
  <2> QED
    BY <1>1, <2>1, <2>2, <2>3 DEF PStep
<1>2. ASSUME NEW i \in Invocations, PInterrupt(i) PROVE PackInv'
  BY <1>2, InterruptPacked
<1>3. ASSUME NEW p \in Left, Packer(p) \/ PackerFails(p) PROVE PackInv'
  BY <1>3, PackerPacked DEF Packers
<1>4. CASE Load
  BY <1>4, LoadPacked
<1>5. CASE Around
  <2>1. UNCHANGED <<packer, files>> /\ attached' \in {attached, NotLoaded}
    BY <1>5 DEF Around
  <2> QED
    BY <2>1, KeptPacked
<1>6. CASE UNCHANGED pvars
  <2>1. UNCHANGED <<packer, files>> /\ attached' \in {attached, NotLoaded}
    BY <1>6 DEF pvars, packVars, files
  <2> QED
    BY <2>1, KeptPacked
<1> QED
  BY <1>1, <1>2, <1>3, <1>4, <1>5, <1>6 DEF PNext

(* For any number of ranks' layers, blocks, invocations, interrupts and writes *)
(* cut short by a full disk: a file under the name of a shard and of the size  *)
(* its header asks for holds every row at its place, unless two packers had it *)
(* open at a time (pack_layer's write and rename; start.sh:1127, "skips a      *)
(* shard that already exists at the right size").                              *)
THEOREM ShardsWhole == PSpec => []ShardWhole
<1>1. PInit => PackInv
  BY InitPacked
<1>2. PackInv /\ [PNext]_pvars => PackInv'
  BY NextPacked
<1>3. PackInv => ShardWhole
  BY DEF PackInv
<1> QED
  BY <1>1, <1>2, <1>3, PTL DEF PSpec

\* The record of a row lies in a block of its range.
LEMMA BlockOfRow ==
  ASSUME NEW range, range \in [lo : Nat, hi : Nat], NEW x \in range.lo..(range.hi - 1)
  PROVE  (x - range.lo) \div ChunkRows \in Chunks(range)
<1> DEFINE a == x - range.lo
           b == Size(range) - 1
           n == ChunkRows
<1>1. n \in Nat \ {0} /\ a \in Nat /\ b \in Nat /\ a <= b
  BY EngramShardsAssumption DEF Size
<1> HIDE DEF a, b, n
<1>2. /\ a \div n \in Nat /\ a = n * (a \div n) + (a % n) /\ (a % n) \in 0..(n - 1)
      /\ b \div n \in Nat /\ b = n * (b \div n) + (b % n) /\ (b % n) \in 0..(n - 1)
  BY <1>1, Z3
<1>3. ASSUME b \div n < a \div n PROVE FALSE
  <2> DEFINE d == (a \div n) - (b \div n) - 1
  <2>1. d \in Nat
    BY <1>2, <1>3
  <2>2. n * (a \div n) = n * (b \div n) + n + n * d
    BY <1>1, <1>2, <2>1
  <2>3. n * d >= 0
    BY <1>1, <2>1
  <2> QED
    BY <1>1, <1>2, <2>2, <2>3
<1>4. a \div n <= b \div n
  BY <1>2, <1>3
<1> QED
  BY <1>2, <1>4 DEF Chunks, a, b, n

(* Every row a healthy server reads from a packed shard is the row of its id,  *)
(* for every layout: the ranges agree with the header and the shard is whole.  *)
THEOREM RowsAlwaysRight == PSpec => []RowsRight
<1>1. PInit => PackInv
  BY InitPacked
<1>2. PackInv /\ [PNext]_pvars => PackInv'
  BY NextPacked
<1>3. PackInv => RowsRight
  <2> SUFFICES ASSUME PackInv, NEW r \in Ranks, NEW k \in Layers,
                      attached[r][k].how = "packed", <<r, k>> \notin overlapped,
                      NEW x \in EngineRanges[r][k].lo..(EngineRanges[r][k].hi - 1)
               PROVE  ReadsRow(attached[r][k].file, EngineRanges[r][k], x)
    BY DEF RowsRight
  <2> DEFINE file == attached[r][k].file
             range == EngineRanges[r][k]
  <2>1. Whole(file) /\ file.lo = range.lo /\ file.hi = range.hi
    BY DEF PackInv, AttachInv
  <2>2. range \in [lo : Nat, hi : Nat]
    BY RangesAssumption
  <2> HIDE DEF file, range
  <2>3. Chunks(file) = Chunks(range)
    BY <2>1 DEF Chunks, Size
  <2>4. x \in range.lo..(range.hi - 1)
    BY DEF range
  <2>5. (x - range.lo) \div ChunkRows \in file.got
    BY <2>1, <2>2, <2>3, <2>4, BlockOfRow DEF Whole
  <2>6. file.lo + (x - range.lo) = x
    BY <2>1, <2>2, <2>4
  <2> QED
    BY <2>5, <2>6 DEF ReadsRow, file, range
<1> QED
  BY <1>1, <1>2, <1>3, PTL DEF PSpec

-----------------------------------------------------------------------------
(* Where the files come from *)

LEMMA InitOrigin == PInit => OriginInv
<1> SUFFICES ASSUME PInit PROVE OriginInv
  OBVIOUS
<1>1. \A r \in Ranks, k \in Layers : shard[r][k] \in {NoFile, OldShard(k, r)}
  BY DEF PInit
<1>2. \A r \in Ranks, k \in Layers : partial[r][k] = NoFile /\ attached[r][k].how = "none"
  BY DEF PInit, NotLoaded
<1>3. \A p \in Packers : packer[p].file = "none"
  BY DEF PInit, Nobody
<1> QED
  BY <1>1, <1>2, <1>3 DEF OriginInv, PackerAgrees

\* Packers that put their file down, or hand it to another, and files nobody has open.
LEMMA OriginMoved ==
  ASSUME PackInv, OriginInv, PackTypes', UNCHANGED shard,
         \A q \in Packers : packer'[q].file = "none" \/ \E x \in Packers : packer'[q] = packer[x],
         partial' = partial \/ partial' = Forgotten(packer'),
         attached' = attached \/ attached' = NotLoaded
  PROVE  OriginInv'
<1>1. ASSUME NEW r \in Ranks, NEW k \in Layers
      PROVE  /\ shard'[r][k] \in {NoFile, OldShard(k, r)} \/ Headed(shard'[r][k], r, k)
             /\ partial'[r][k] = NoFile \/ Headed(partial'[r][k], r, k)
  <2>1. partial'[r][k] \in {NoFile, partial[r][k]}
    BY DEF Forgotten
  <2> QED
    BY <2>1 DEF OriginInv
<1>2. ASSUME NEW p \in Packers
      PROVE  LET r == packer'[p].rank
                 k == packer'[p].layer
             IN /\ packer'[p].file = "partial" => Headed(partial'[r][k], r, k)
                /\ packer'[p].file = "shard" => Headed(shard'[r][k], r, k)
  <2>1. CASE packer'[p].file = "none"
    BY <2>1
  <2>2. CASE packer'[p].file # "none"
    <3>1. PICK x \in Packers : packer'[p] = packer[x]
      BY <2>2
    <3>2. packer'[p].rank \in Ranks /\ packer'[p].layer \in Layers
      BY <2>2 DEF PackTypes
    <3>3. packer'[p].file = "partial" =>
            partial'[packer'[p].rank][packer'[p].layer] = partial[packer'[p].rank][packer'[p].layer]
      BY <3>2 DEF Forgotten
    <3> QED
      BY <3>1, <3>3 DEF OriginInv
  <2> QED
    BY <2>1, <2>2
<1>3. PackerAgrees'
  <2>1. \A r \in Ranks, k \in Layers : NotLoaded[r][k].how # "refused"
    BY DEF NotLoaded
  <2>2. CASE attached' = attached
    BY <2>2 DEF OriginInv, PackerAgrees
  <2>3. CASE attached' = NotLoaded
    BY <2>1, <2>3 DEF PackerAgrees
  <2> QED
    BY <2>2, <2>3
<1> QED
  BY <1>1, <1>2, <1>3 DEF OriginInv, Headed

\* An open .partial, or one block more, keeps the header of its range.
LEMMA OriginWritten ==
  ASSUME PackInv, OriginInv, NEW p \in Packers, PackerOpens(p) \/ PackerWrites(p)
  PROVE  OriginInv'
<1> DEFINE r == packer[p].rank
           k == packer[p].layer
<1>1. PackTypes /\ r \in Ranks /\ k \in Layers /\ UNCHANGED attached
  BY RangeTyped, LayersAre DEF PackInv, PackTypes, PackerOpens, PackerWrites
<1>2. RangeOf(p) = PackerRanges[r][k]
  BY DEF RangeOf
<1>3. PICK f \in {"none", "partial", "shard", "gone"} :
        \/ f = "partial" /\ packer[p].file = "none"
        \/ f = packer[p].file /\ f # "none"
  BY <1>1 DEF PackTypes
<1>a. \/ packer' = [packer EXCEPT ![p].file = "partial", ![p].block = 0, ![p].lost = 0]
      \/ \E b, l : packer' = [packer EXCEPT ![p].block = b, ![p].lost = l]
  BY <1>1 DEF PackerOpens, PackerWrites
<1>4. /\ \A q \in Packers \ {p} : packer'[q] = packer[q]
      /\ packer'[p].rank = r /\ packer'[p].layer = k
      /\ packer'[p].file = packer[p].file \/ packer'[p].file = "partial"
  <2>1. packer \in [Packers -> PackerType]
    BY <1>1 DEF PackTypes
  <2>2. CASE packer' = [packer EXCEPT ![p].file = "partial", ![p].block = 0, ![p].lost = 0]
    BY <2>1, <2>2
  <2>3. ASSUME NEW b, NEW l, packer' = [packer EXCEPT ![p].block = b, ![p].lost = l]
        PROVE  /\ \A q \in Packers \ {p} : packer'[q] = packer[q]
               /\ packer'[p].rank = r /\ packer'[p].layer = k
               /\ packer'[p].file = packer[p].file \/ packer'[p].file = "partial"
    BY <2>1, <2>3
  <2> QED
    BY <1>a, <2>2, <2>3
<1>5. \/ shard' = shard /\ \E file : partial' = [partial EXCEPT ![r][k] = file] /\ Headed(file, r, k)
      \/ /\ partial' = partial /\ packer[p].file = "shard" /\ packer'[p].file = "shard"
         /\ \E file : shard' = [shard EXCEPT ![r][k] = file] /\ Headed(file, r, k)
      \/ UNCHANGED <<shard, partial>> /\ packer'[p].file = packer[p].file
  <2>1. CASE PackerOpens(p)
    <3>1. shard' = shard /\ partial' = [partial EXCEPT ![r][k] = Header(RangeOf(p))]
      BY <2>1 DEF PackerOpens
    <3>2. Headed(Header(RangeOf(p)), r, k)
      BY <1>2 DEF Headed, Header
    <3> QED
      BY <3>1, <3>2
  <2>2. CASE PackerWrites(p)
    <3>a. PICK cut \in Cuts(RangeOf(p), packer[p].block) :
            LET wrote(file) == WriteBlock(file, RangeOf(p), packer[p].block, packer[p].lost, cut)
            IN /\ partial' = IF packer[p].file = "partial" THEN [partial EXCEPT ![r][k] = wrote(@)] ELSE partial
               /\ shard' = IF packer[p].file = "shard" THEN [shard EXCEPT ![r][k] = wrote(@)] ELSE shard
               /\ packer' = [packer EXCEPT ![p].block = packer[p].block + 1, ![p].lost = packer[p].lost + cut]
      BY <2>2 DEF PackerWrites
    <3> DEFINE wrote(file) == WriteBlock(file, RangeOf(p), packer[p].block, packer[p].lost, cut)
    <3>1. /\ partial' = IF packer[p].file = "partial" THEN [partial EXCEPT ![r][k] = wrote(@)] ELSE partial
          /\ shard' = IF packer[p].file = "shard" THEN [shard EXCEPT ![r][k] = wrote(@)] ELSE shard
          /\ packer'[p].file = packer[p].file
      BY <1>1, <3>a DEF PackTypes
    <3>2. \A file : Headed(file, r, k) => Headed(wrote(file), r, k)
      BY DEF Headed, WriteBlock
    <3>3. CASE packer[p].file = "partial"
      <4>1. Headed(partial[r][k], r, k)
        BY <3>3 DEF OriginInv
      <4>2. Headed(wrote(partial[r][k]), r, k)
        BY <3>2, <4>1
      <4> HIDE DEF wrote
      <4>3. partial' = [partial EXCEPT ![r][k] = wrote(partial[r][k])] /\ shard' = shard
        BY <1>1, <3>1, <3>3 DEF PackTypes, IsTable
      <4> QED
        BY <4>2, <4>3
    <3>4. CASE packer[p].file = "shard"
      <4>1. Headed(shard[r][k], r, k)
        BY <3>4 DEF OriginInv
      <4>2. Headed(wrote(shard[r][k]), r, k)
        BY <3>2, <4>1
      <4> HIDE DEF wrote
      <4>3. shard' = [shard EXCEPT ![r][k] = wrote(shard[r][k])] /\ partial' = partial
        BY <1>1, <3>1, <3>4 DEF PackTypes, IsTable
      <4> QED
        BY <3>1, <3>4, <4>2, <4>3
    <3>5. CASE packer[p].file \notin {"partial", "shard"}
      BY <3>1, <3>5
    <3> QED
      BY <3>3, <3>4, <3>5
  <2> QED
    BY <2>1, <2>2
<1>6. PackTypes'
  BY OpensPacked, WritesPacked DEF PackInv
<1>7. IsTable(shard) /\ IsTable(partial)
  BY <1>1 DEF PackTypes
<1> HIDE DEF r, k
<1>8. ASSUME NEW t, IsTable(t), NEW file, NEW u, u = [t EXCEPT ![r][k] = file], Headed(file, r, k)
      PROVE  /\ Headed(u[r][k], r, k)
             /\ \A q \in Ranks, l \in Layers : u[q][l] = t[q][l] \/ Headed(u[q][l], q, l)
  <2>1. u[r][k] = file
    BY <1>1, <1>8 DEF IsTable
  <2>2. \A q \in Ranks, l \in Layers : <<q, l>> # <<r, k>> => u[q][l] = t[q][l]
    BY <1>1, <1>8 DEF IsTable
  <2> QED
    BY <1>8, <2>1, <2>2
<1>9. /\ \A q \in Ranks, l \in Layers :
           /\ shard'[q][l] = shard[q][l] \/ Headed(shard'[q][l], q, l)
           /\ partial'[q][l] = partial[q][l] \/ Headed(partial'[q][l], q, l)
      /\ packer[p].file # "partial" /\ packer'[p].file = "partial" => Headed(partial'[r][k], r, k)
  <2>1. CASE shard' = shard /\ \E file : partial' = [partial EXCEPT ![r][k] = file] /\ Headed(file, r, k)
    <3>1. PICK file : partial' = [partial EXCEPT ![r][k] = file] /\ Headed(file, r, k)
      BY <2>1
    <3>2. /\ Headed(partial'[r][k], r, k)
          /\ \A q \in Ranks, l \in Layers : partial'[q][l] = partial[q][l] \/ Headed(partial'[q][l], q, l)
      BY <1>7, <1>8, <3>1
    <3> QED
      BY <2>1, <3>2
  <2>2. CASE /\ partial' = partial /\ packer[p].file = "shard" /\ packer'[p].file = "shard"
             /\ \E file : shard' = [shard EXCEPT ![r][k] = file] /\ Headed(file, r, k)
    <3>1. PICK file : shard' = [shard EXCEPT ![r][k] = file] /\ Headed(file, r, k)
      BY <2>2
    <3>2. \A q \in Ranks, l \in Layers : shard'[q][l] = shard[q][l] \/ Headed(shard'[q][l], q, l)
      BY <1>7, <1>8, <3>1
    <3> QED
      BY <2>2, <3>2
  <2>3. CASE UNCHANGED <<shard, partial>> /\ packer'[p].file = packer[p].file
    BY <2>3
  <2> QED
    BY <1>5, <2>1, <2>2, <2>3
<1>10. ASSUME NEW q \in Ranks, NEW l \in Layers
       PROVE  /\ shard'[q][l] = shard[q][l] \/ Headed(shard'[q][l], q, l)
              /\ partial'[q][l] = partial[q][l] \/ Headed(partial'[q][l], q, l)
  BY <1>9
<1> USE DEF r, k
<1>11. Headed(partial'[r][k], r, k) \/ partial'[r][k] = partial[r][k]
  BY <1>1, <1>10
<1>12. packer'[p].file = "partial" => Headed(partial'[r][k], r, k)
  <2>1. CASE packer[p].file = "partial"
    BY <1>11, <2>1 DEF OriginInv
  <2>2. CASE packer[p].file # "partial" /\ packer'[p].file = "partial"
    BY <1>9, <2>2
  <2> QED
    BY <2>1, <2>2
<1>13. packer'[p].file = "shard" => Headed(shard'[r][k], r, k)
  <2>1. CASE packer[p].file = "shard"
    BY <1>1, <1>10, <2>1 DEF OriginInv
  <2>2. CASE packer[p].file # "shard"
    BY <1>4, <2>2
  <2> QED
    BY <2>1, <2>2
<1>14. ASSUME NEW q \in Packers
       PROVE  /\ packer'[q].file = "partial" =>
                   Headed(partial'[packer'[q].rank][packer'[q].layer], packer'[q].rank, packer'[q].layer)
              /\ packer'[q].file = "shard" =>
                   Headed(shard'[packer'[q].rank][packer'[q].layer], packer'[q].rank, packer'[q].layer)
  <2>1. CASE q = p
    BY <1>4, <1>12, <1>13, <2>1
  <2>2. CASE q # p
    <3>1. packer'[q] = packer[q]
      BY <1>4, <2>2
    <3>2. packer[q].file # "none" => packer[q].rank \in Ranks /\ packer[q].layer \in Layers
      BY <1>1 DEF PackTypes
    <3> QED
      BY <1>10, <3>1, <3>2 DEF OriginInv
  <2> QED
    BY <2>1, <2>2
<1>15. ASSUME NEW q \in Ranks, NEW l \in Layers
       PROVE  /\ shard'[q][l] \in {NoFile, OldShard(l, q)} \/ Headed(shard'[q][l], q, l)
              /\ partial'[q][l] = NoFile \/ Headed(partial'[q][l], q, l)
  BY <1>10 DEF OriginInv
<1>16. PackerAgrees'
  BY <1>1 DEF OriginInv, PackerAgrees
<1> QED
  BY <1>14, <1>15, <1>16 DEF OriginInv, Headed

\* The .partial under a shard's name, and who had it open.
LEMMA OriginRenamed ==
  ASSUME PackInv, OriginInv, NEW p \in Packers, PackerRenames(p)
  PROVE  OriginInv'
<1> DEFINE r == packer[p].rank
           k == packer[p].layer
<1>1. /\ PackTypes /\ r \in Ranks /\ k \in Layers /\ UNCHANGED attached
      /\ partial[r][k] # NoFile
      /\ shard' = [shard EXCEPT ![r][k] = partial[r][k]]
      /\ partial' = [partial EXCEPT ![r][k] = NoFile]
  BY RangeTyped DEF PackInv, PackTypes, PackerRenames
<1>2. PackTypes'
  BY RenamesPacked DEF PackInv
<1>3. Headed(partial[r][k], r, k)
  BY <1>1 DEF OriginInv
<1> HIDE DEF r, k
<1>4. IsTable(shard) /\ IsTable(partial)
  BY <1>1 DEF PackTypes
<1>5. /\ shard'[r][k] = partial[r][k]
      /\ \A q \in Ranks, l \in Layers : <<q, l>> # <<r, k>> => shard'[q][l] = shard[q][l]
  <2>1. shard'[r][k] = partial[r][k]
    BY <1>1, <1>4 DEF IsTable
  <2>2. \A q \in Ranks, l \in Layers : <<q, l>> # <<r, k>> => shard'[q][l] = shard[q][l]
    BY <1>1, <1>4 DEF IsTable
  <2> QED
    BY <2>1, <2>2
<1>6. /\ partial'[r][k] = NoFile
      /\ \A q \in Ranks, l \in Layers : <<q, l>> # <<r, k>> => partial'[q][l] = partial[q][l]
  <2>1. partial'[r][k] = NoFile
    BY <1>1, <1>4 DEF IsTable
  <2>2. \A q \in Ranks, l \in Layers : <<q, l>> # <<r, k>> => partial'[q][l] = partial[q][l]
    BY <1>1, <1>4 DEF IsTable
  <2> QED
    BY <2>1, <2>2
<1>7. /\ shard'[r][k] = partial[r][k] /\ partial'[r][k] = NoFile
      /\ \A q \in Ranks, l \in Layers : <<q, l>> # <<r, k>> =>
           shard'[q][l] = shard[q][l] /\ partial'[q][l] = partial[q][l]
  BY <1>5, <1>6
<1> USE DEF r, k
<1>8. /\ packer'[p].file = "none"
      /\ \A q \in Packers \ {p} :
           /\ packer'[q].rank = packer[q].rank /\ packer'[q].layer = packer[q].layer
           /\ ~SameShard(p, q) => packer'[q].file = packer[q].file
           /\ SameShard(p, q) => packer'[q].file # "partial"
  <2> DEFINE moved == [q \in Packers |->
                         IF ~SameShard(p, q) THEN packer[q]
                         ELSE CASE packer[q].file = "partial" -> [packer[q] EXCEPT !.file = "shard"]
                                [] packer[q].file = "shard" -> [packer[q] EXCEPT !.file = "gone"]
                                [] OTHER -> packer[q]]
             next == IF k = Len(LayerIds) THEN Nobody
                     ELSE [Nobody EXCEPT !.rank = r, !.layer = k + 1]
  <2>1. packer' = [moved EXCEPT ![p] = next]
    BY DEF PackerRenames
  <2>2. next.file = "none"
    BY DEF Nobody
  <2>3. \A q \in Packers :
           /\ moved[q].rank = packer[q].rank /\ moved[q].layer = packer[q].layer
           /\ ~SameShard(p, q) => moved[q].file = packer[q].file
           /\ SameShard(p, q) => moved[q].file # "partial"
    BY <1>1 DEF PackTypes
  <2>4. DOMAIN moved = Packers
    OBVIOUS
  <2> HIDE DEF moved, next
  <2> QED
    BY <2>1, <2>2, <2>3, <2>4
<1>9. ASSUME NEW q \in Packers
      PROVE  /\ packer'[q].file = "partial" =>
                  Headed(partial'[packer'[q].rank][packer'[q].layer], packer'[q].rank, packer'[q].layer)
             /\ packer'[q].file = "shard" =>
                  Headed(shard'[packer'[q].rank][packer'[q].layer], packer'[q].rank, packer'[q].layer)
  <2>1. CASE q = p
    BY <1>8, <2>1
  <2>2. CASE q # p /\ SameShard(p, q)
    BY <1>3, <1>7, <1>8, <2>2 DEF SameShard
  <2>3. CASE q # p /\ ~SameShard(p, q)
    <3>1. /\ packer'[q].rank = packer[q].rank /\ packer'[q].layer = packer[q].layer
          /\ packer'[q].file = packer[q].file
          /\ <<packer[q].rank, packer[q].layer>> # <<r, k>>
      BY <1>8, <2>3 DEF SameShard
    <3>2. packer[q].file # "none" => packer[q].rank \in Ranks /\ packer[q].layer \in Layers
      BY <1>1 DEF PackTypes
    <3> QED
      BY <1>7, <3>1, <3>2 DEF OriginInv
  <2> QED
    BY <2>1, <2>2, <2>3
<1>10. ASSUME NEW q \in Ranks, NEW l \in Layers
       PROVE  /\ shard'[q][l] \in {NoFile, OldShard(l, q)} \/ Headed(shard'[q][l], q, l)
              /\ partial'[q][l] = NoFile \/ Headed(partial'[q][l], q, l)
  BY <1>3, <1>7 DEF OriginInv
<1> QED
  BY <1>1, <1>9, <1>10 DEF OriginInv, Headed, PackerAgrees

\* A file the packer made is of the range the lookup asks for: it is not passed over.
LEMMA OriginLoaded ==
  ASSUME PackerRanges = EngineRanges, PackInv, OriginInv, Load
  PROVE  OriginInv'
<1>1. /\ UNCHANGED <<packer, shard, partial>>
      /\ attached' = [r \in Ranks |-> [k \in Layers |-> [how |-> Found(r, k), file |-> shard[r][k]]]]
  BY DEF Load, files
<1>2. ASSUME NEW r \in Ranks, NEW k \in Layers, Found(r, k) = "refused"
      PROVE  shard[r][k] = OldShard(k, r)
  <2>1. Attach(shard[r][k], EngineRanges[r][k]) = "refused"
    BY <1>2 DEF Found
  <2>2. shard[r][k] # NoFile /\ <<shard[r][k].lo, shard[r][k].hi>> # <<EngineRanges[r][k].lo, EngineRanges[r][k].hi>>
    BY <2>1 DEF Attach
  <2>3. ~Headed(shard[r][k], r, k)
    BY <2>2 DEF Headed
  <2> QED
    BY <2>2, <2>3 DEF OriginInv
<1>3. PackerAgrees'
  BY <1>1, <1>2 DEF PackerAgrees
<1> QED
  BY <1>1, <1>3 DEF OriginInv, Headed

LEMMA PackerOrigin ==
  ASSUME PackInv, OriginInv, NEW p \in Packers, Packer(p) \/ PackerFails(p)
  PROVE  OriginInv'
<1>1. PackTypes'
  BY PackerPacked DEF PackInv
<1>2. CASE PackerOpens(p) \/ PackerWrites(p)
  BY <1>2, OriginWritten
<1>3. CASE PackerRenames(p)
  BY <1>3, OriginRenamed
<1>4. CASE PackerSkips(p)
  <2>1. UNCHANGED <<shard, partial, attached>>
    BY <1>4 DEF PackerSkips, files
  <2>2. \A q \in Packers : packer'[q].file = "none" \/ packer'[q] = packer[q]
    BY <1>4 DEF PackerSkips, NextLayer, Ends, Nobody, PackInv, PackTypes
  <2> QED
    BY <1>1, <2>1, <2>2, OriginMoved
<1>5. CASE PackerFails(p)
  <2>1. packer' = [packer EXCEPT ![p] = Nobody] /\ UNCHANGED <<shard, attached>>
    BY <1>5 DEF PackerFails, Ends
  <2>2. partial' = Forgotten(packer')
    BY <1>5, <2>1 DEF PackerFails
  <2>3. \A q \in Packers : packer'[q].file = "none" \/ packer'[q] = packer[q]
    BY <2>1 DEF Nobody, PackInv, PackTypes
  <2> QED
    BY <1>1, <2>1, <2>2, <2>3, OriginMoved
<1> QED
  BY <1>2, <1>3, <1>4, <1>5 DEF Packer

LEMMA NextOrigin ==
  ASSUME PackerRanges = EngineRanges, PackInv, OriginInv, [PNext]_pvars
  PROVE  OriginInv'
<1>1. PackTypes'
  BY NextPacked DEF PackInv
<1>2. ASSUME UNCHANGED <<packer, files>>, attached' \in {attached, NotLoaded} PROVE OriginInv'
  <2>1. UNCHANGED <<shard, partial>> /\ \A q \in Packers : packer'[q] = packer[q]
    BY <1>2 DEF files
  <2> QED
    BY <1>1, <1>2, <2>1, OriginMoved
<1>3. ASSUME NEW i \in Invocations, PStep(i) PROVE OriginInv'
  <2>1. CASE Otherwise(i) \/ Prepared(i) \/ Mount(i) \/ Synced(i) \/ NotPacked(i)
    <3>1. UNCHANGED <<packer, files>> /\ attached' \in {attached, NotLoaded}
      BY <2>1 DEF Otherwise, Prepared, Mount, Synced, NotPacked
    <3> QED
      BY <1>2, <3>1
  <2>2. CASE PackRank(i)
    <3>1. /\ packer' = [packer EXCEPT ![i] = [Nobody EXCEPT !.rank = RankOf(packing[i]), !.layer = 1]]
          /\ UNCHANGED <<shard, partial, attached>>
      BY <2>2 DEF PackRank, files
    <3>2. \A q \in Packers : packer'[q].file = "none" \/ packer'[q] = packer[q]
      BY <3>1 DEF Nobody, PackInv, PackTypes
    <3> QED
      BY <1>1, <3>1, <3>2, OriginMoved
  <2>3. CASE Packer(i) \/ PackerFails(i)
    BY <2>3, PackerOrigin DEF Packers
  <2> QED
    BY <1>3, <2>1, <2>2, <2>3 DEF PStep
<1>4. ASSUME NEW i \in Invocations, PInterrupt(i) PROVE OriginInv'
  <2> DEFINE n == interrupts'
             kept == IF packer[i].layer > 0 /\ packer[i].rank = 1 THEN packer[i] ELSE Nobody
  <2>1. /\ packer' = [packer EXCEPT ![i] = Nobody, ![n] = kept] /\ i \in Packers
        /\ UNCHANGED <<shard, attached>>
    BY <1>4 DEF PInterrupt, Packers
  <2>2. partial' = Forgotten(packer')
    BY <1>4 DEF PInterrupt
  <2>3. kept = packer[i] \/ kept = Nobody
    OBVIOUS
  <2> HIDE DEF n, kept
  <2>4. \A q \in Packers : packer'[q] \in {Nobody, packer[q], packer[i]}
    BY <2>1, <2>3 DEF PackInv, PackTypes
  <2>5. \A q \in Packers : packer'[q].file = "none" \/ \E x \in Packers : packer'[q] = packer[x]
    <3>1. Nobody.file = "none" /\ i \in Packers
      BY <2>1 DEF Nobody
    <3> QED
      BY <2>4, <3>1
  <2> QED
    BY <1>1, <2>1, <2>2, <2>5, OriginMoved
<1>5. ASSUME NEW p \in Left, Packer(p) \/ PackerFails(p) PROVE OriginInv'
  BY <1>5, PackerOrigin DEF Packers
<1>6. CASE Load
  BY <1>6, OriginLoaded
<1>7. CASE Around
  <2>1. UNCHANGED <<packer, files>> /\ attached' \in {attached, NotLoaded}
    BY <1>7 DEF Around
  <2> QED
    BY <1>2, <2>1
<1>8. CASE UNCHANGED pvars
  <2>1. UNCHANGED <<packer, files>> /\ attached' \in {attached, NotLoaded}
    BY <1>8 DEF pvars, packVars, files
  <2> QED
    BY <1>2, <2>1
<1> QED
  BY <1>3, <1>4, <1>5, <1>6, <1>7, <1>8 DEF PNext

(* Where packer and lookup compute the same ranges, which TLC evaluates for an  *)
(* instance, no interleaving of packers, Ctrl-C, kills and boots makes a rank   *)
(* pass over a shard this packer wrote: every open file keeps the header of its *)
(* range until it has its final name (pack_layer, row_store_attach_packed).     *)
THEOREM NoneIsPassedOver == PackerRanges = EngineRanges => (PSpec => []PackerAgrees)
<1> SUFFICES ASSUME PackerRanges = EngineRanges PROVE PSpec => []PackerAgrees
  OBVIOUS
<1>1. PInit => PackInv /\ OriginInv
  BY InitPacked, InitOrigin
<1>2. PackInv /\ OriginInv /\ [PNext]_pvars => PackInv' /\ OriginInv'
  BY NextPacked, NextOrigin
<1>3. OriginInv => PackerAgrees
  BY DEF OriginInv
<1> QED
  BY <1>1, <1>2, <1>3, PTL DEF PSpec

-----------------------------------------------------------------------------
(* The start of a node: the patch scripts over the installed package *)

\* Two scripts have two names.
LEMMA NamesDiffer ==
  ASSUME NEW p \in Patches, NEW q \in Patches, p.name = q.name
  PROVE  p = q
<1>1. /\ Suppress.name = "suppress" /\ DecodeFloor.name = "decode_floor"
      /\ Grammar.name = "xgrammar" /\ Spinwait.name = "spinwait"
      /\ Responses.name = "responses" /\ Effort.name = "effort"
      /\ ControlGuard.name = "control_tokens" /\ OutputSplit.name = "output_split"
      /\ Overrides.name = "overrides" /\ PackedNames.name = "packed_names"
      /\ LmHead.name = "lm_head" /\ EngramSecondary.name = "engram_secondary"
      /\ EngramFile.name = "engram_file" /\ H2dStage.name = "h2d_stage"
      /\ Sm120.name = "sm120" /\ MemoryLog.name = "memory_log"
      /\ SwaFinal.name = "swa" /\ Yoco.name = "yoco"
  BY DEF Suppress, DecodeFloor, Grammar, Spinwait, Responses, Effort, ControlGuard,
         OutputSplit, Overrides, PackedNames, LmHead, EngramSecondary, EngramFile,
         H2dStage, Sm120, MemoryLog, SwaFinal, Yoco, Patch
<1> QED
  BY <1>1 DEF Patches

\* All scripts but two make one edit in each of their files.
LEMMA OneEach ==
  ASSUME NEW p \in Patches \ {LmHead, Sm120}
  PROVE  /\ DOMAIN p.parts \subseteq Nat
         /\ \A i \in DOMAIN p.parts : p.parts[i].edits = {"all"}
         /\ \A i, j \in DOMAIN p.parts : p.parts[i].file = p.parts[j].file => i = j
<1> DEFINE Single(names) == \A i, j \in DOMAIN names : names[i] = names[j] => i = j
           Fits(parts) == /\ DOMAIN parts \subseteq Nat
                          /\ \A i \in DOMAIN parts : parts[i].edits = {"all"}
                          /\ \A i, j \in DOMAIN parts : parts[i].file = parts[j].file => i = j
<1>1. ASSUME NEW names, Single(names), DOMAIN names \subseteq Nat PROVE Fits(Each(names))
  BY <1>1 DEF Each, Piece
<1>2. ASSUME NEW a PROVE Fits(Each(<<a>>))
  BY <1>1
<1>3. ASSUME NEW a, NEW b, a # b PROVE Fits(Each(<<a, b>>))
  BY <1>1, <1>3
<1>4. CASE p = EngramSecondary
  <2>1. Single(<<"model", "vl_model", "default_loader">>)
    OBVIOUS
  <2> QED
    BY <1>1, <1>4, <2>1 DEF EngramSecondary, Patch
<1>5. CASE p = H2dStage
  <2>1. Single(<<"weight_utils", "linear", "vocab_parallel_embedding", "model", "dspark">>)
    OBVIOUS
  <2> QED
    BY <1>1, <1>5, <2>1 DEF H2dStage, Patch
<1>6. CASE p = Yoco
  <2>1. Single(<<"model", "attention", "model_state", "kv_cache_manager",
                 "single_type_kv_cache_manager", "input_processor", "model_runner">>)
    OBVIOUS
  <2> QED
    BY <1>1, <1>6, <2>1 DEF Yoco, Patch
<1>7. CASE p \in {SwaFinal, Grammar}
  BY <1>3, <1>7 DEF SwaFinal, Grammar, Patch
<1>8. CASE p \in {Suppress, DecodeFloor, Spinwait, Responses, Effort, ControlGuard, OutputSplit,
                  Overrides, PackedNames, EngramFile, MemoryLog}
  <2> HIDE DEF Fits
  <2>1. \A a : Fits(Each(<<a>>))
    BY <1>2
  <2>2. Fits(p.parts)
    BY <1>8, <2>1 DEF Suppress, DecodeFloor, Spinwait, Responses, Effort, ControlGuard,
       OutputSplit, Overrides, PackedNames, EngramFile, MemoryLog, Patch
  <2> QED
    BY <2>2 DEF Fits
<1> QED
  BY <1>4, <1>5, <1>6, <1>7, <1>8 DEF Patches

\* sm120 makes fourteen edits, each of a kind in a file of its own.
LEMMA OneKindEach ==
  ASSUME NEW i \in DOMAIN Sm120.parts
  PROVE  /\ DOMAIN Sm120.parts = 1..14
         /\ \A l, m \in Sm120.parts[i].edits : l = m
         /\ Sm120.parts[i].edits # {}
         /\ \A j \in DOMAIN Sm120.parts : \A l :
              (/\ Sm120.parts[i].file = Sm120.parts[j].file
               /\ l \in Sm120.parts[i].edits \cap Sm120.parts[j].edits) => i = j
<1> DEFINE kind == <<"blocks", "width", "lock", "meta", "gather", "shape", "buffers", "buffers",
                     "buffers", "chunk", "logits", "logits", "blocks", "blocks">>
           file == <<"attention", "attention", "attention", "sparse_swa", "attention", "warmup",
                     "model", "mtp", "engram", "indexer", "sparse_attn_indexer", "kpool",
                     "indexer", "flashinfer_sparse">>
<1>1. /\ DOMAIN Sm120.parts = 1..14
      /\ \A n \in 1..14 : Sm120.parts[n] = [file |-> file[n], edits |-> {kind[n]}]
  BY DEF Sm120, Patch, Piece
<1>2. \A m, n \in 1..14 : kind[m] = kind[n] /\ file[m] = file[n] => m = n
  OBVIOUS
<1> HIDE DEF kind, file
<1>3. \A n \in 1..14 : Sm120.parts[n].edits = {kind[n]} /\ Sm120.parts[n].file = file[n]
  BY <1>1
<1>4. ASSUME NEW j \in DOMAIN Sm120.parts, NEW l \in Sm120.parts[i].edits \cap Sm120.parts[j].edits,
             Sm120.parts[i].file = Sm120.parts[j].file
      PROVE  i = j
  <2>1. i \in 1..14 /\ j \in 1..14 /\ file[i] = file[j] /\ kind[i] = l /\ kind[j] = l
    BY <1>1, <1>3, <1>4
  <2> QED
    BY <1>2, <2>1
<1> QED
  BY <1>1, <1>3, <1>4

\* Two parts of a script have no edit in common.
LEMMA PartsDiffer ==
  ASSUME NEW p \in Patches, NEW i \in DOMAIN p.parts, NEW j \in DOMAIN p.parts,
         PartEdits(p, p.parts[i]) \cap PartEdits(p, p.parts[j]) # {}
  PROVE  i = j
<1>1. PICK l \in p.parts[i].edits \cap p.parts[j].edits : p.parts[i].file = p.parts[j].file
  BY DEF PartEdits
<1>2. CASE p = LmHead
  BY <1>1, <1>2 DEF LmHead, Patch, Piece
<1>3. CASE p = Sm120
  BY <1>1, <1>3, OneKindEach
<1> QED
  BY <1>1, <1>2, <1>3, OneEach

\* How the scripts that recognise their edits in one way are alike.
LEMMA Kinds ==
  ASSUME NEW p \in Patches
  PROVE  /\ p.present \in {"mark", "text", "verified", "scan"} /\ p.whole \in BOOLEAN
         /\ p.present = "mark" => p \notin {LmHead, Sm120}
         /\ p.present = "text" => p # LmHead
         /\ p.present = "verified" => p \in {Grammar, Spinwait} /\ p.whole
         /\ p.present = "scan" => p \in {LmHead, Overrides, PackedNames} /\ ~p.whole
         /\ Loose(p) => p.present \in {"mark", "scan"} /\ p # LmHead
         /\ p.name = "packed_names" => Loose(p)
<1>1. /\ \A q \in {Suppress, DecodeFloor, ControlGuard, OutputSplit, SwaFinal, Yoco} :
           q.present = "mark" /\ q.whole = TRUE
      /\ \A q \in {EngramSecondary, EngramFile, H2dStage, MemoryLog} :
           q.present = "mark" /\ q.whole = FALSE
      /\ \A q \in {Grammar, Spinwait} : q.present = "verified" /\ q.whole = TRUE
      /\ \A q \in {Responses, Effort} : q.present = "text" /\ q.whole = TRUE
      /\ Sm120.present = "text" /\ Sm120.whole = FALSE
      /\ \A q \in {Overrides, PackedNames, LmHead} : q.present = "scan" /\ q.whole = FALSE
  BY DEF Suppress, DecodeFloor, Grammar, Spinwait, Responses, Effort, ControlGuard,
         OutputSplit, Overrides, PackedNames, LmHead, EngramSecondary, EngramFile,
         H2dStage, Sm120, MemoryLog, SwaFinal, Yoco, Patch
<1>2. /\ Suppress.name = "suppress" /\ PackedNames.name = "packed_names"
      /\ Overrides.name = "overrides" /\ LmHead.name = "lm_head"
  BY DEF Suppress, PackedNames, Overrides, LmHead, Patch
<1>3. {Suppress, PackedNames, Overrides} \subseteq Patches
  BY DEF Patches
<1>4. Loose(p) => p \in {Suppress, PackedNames, Overrides}
  BY <1>2, <1>3, NamesDiffer DEF Loose
<1>5. Loose(p) => p.present \in {"mark", "scan"} /\ p # LmHead
  BY <1>1, <1>2, <1>4
<1>6. /\ p.present \in {"mark", "text", "verified", "scan"} /\ p.whole \in BOOLEAN
      /\ p.present = "mark" => p \notin {LmHead, Sm120}
      /\ p.present = "text" => p # LmHead
      /\ p.present = "verified" => p \in {Grammar, Spinwait} /\ p.whole
      /\ p.present = "scan" => p \in {LmHead, Overrides, PackedNames} /\ ~p.whole
  <2>1. \/ p \in {Suppress, DecodeFloor, ControlGuard, OutputSplit, SwaFinal, Yoco}
        \/ p \in {EngramSecondary, EngramFile, H2dStage, MemoryLog}
        \/ p \in {Grammar, Spinwait}
        \/ p \in {Responses, Effort}
        \/ p = Sm120
        \/ p \in {Overrides, PackedNames, LmHead}
    BY Zenon DEF Patches
  <2>2. CASE p \in {Suppress, DecodeFloor, ControlGuard, OutputSplit, SwaFinal, Yoco}
    <3>1. p.present = "mark" /\ p.whole = TRUE
      BY <1>1, <2>2, Zenon
    <3> QED
      BY <1>1, <3>1
  <2>3. CASE p \in {EngramSecondary, EngramFile, H2dStage, MemoryLog}
    <3>1. p.present = "mark" /\ p.whole = FALSE
      BY <1>1, <2>3, Zenon
    <3> QED
      BY <1>1, <3>1
  <2>4. CASE p \in {Grammar, Spinwait}
    <3>1. p.present = "verified" /\ p.whole = TRUE
      BY <1>1, <2>4, Zenon
    <3> QED
      BY <2>4, <3>1
  <2>5. CASE p \in {Responses, Effort}
    <3>1. p.present = "text" /\ p.whole = TRUE
      BY <1>1, <2>5, Zenon
    <3> QED
      BY <1>1, <3>1
  <2>6. CASE p = Sm120
    <3>1. p.present = "text" /\ p.whole = FALSE
      BY <1>1, <2>6, Zenon
    <3> QED
      BY <1>1, <3>1
  <2>7. CASE p \in {Overrides, PackedNames, LmHead}
    <3>1. p.present = "scan" /\ p.whole = FALSE
      BY <1>1, <2>7, Zenon
    <3> QED
      BY <2>7, <3>1
  <2> QED
    BY <2>1, <2>2, <2>3, <2>4, <2>5, <2>6, <2>7
<1> QED
  BY <1>5, <1>6 DEF Loose

\* An edit is made by one script, in one of its parts.
LEMMA EditsOwned ==
  ASSUME NEW p \in Patches, NEW i \in DOMAIN p.parts, NEW e \in PartEdits(p, p.parts[i])
  PROVE  /\ e \in AllEdits /\ e # EncoderCheck
         /\ e[1] = p.name /\ e[2] = p.parts[i].file /\ e[2] \in Files
         /\ \A q \in Patches : \A j \in DOMAIN q.parts :
              e \in PartEdits(q, q.parts[j]) => q = p /\ j = i
<1>1. PICK l \in p.parts[i].edits : e = <<p.name, p.parts[i].file, l>>
  BY DEF PartEdits
<1>2. e \in AllEdits /\ e[2] \in Files
  <2>1. e \in Edits(p)
    BY DEF Edits
  <2>2. e \in AllEdits
    BY <2>1 DEF AllEdits
  <2> QED
    BY <2>2 DEF Files
<1>3. \A q \in Patches : \A j \in DOMAIN q.parts : e \in PartEdits(q, q.parts[j]) => q.name = p.name
  BY <1>1 DEF PartEdits
<1>4. e # EncoderCheck
  <2>1. ControlGuard \in Patches /\ ControlGuard.name = "control_tokens"
        /\ ControlGuard \notin {LmHead, Sm120}
    BY DEF Patches, ControlGuard, LmHead, Sm120, Patch
  <2>2. p.name = "control_tokens" => p = ControlGuard
    BY <2>1, NamesDiffer
  <2>3. p = ControlGuard => l = "all"
    BY <1>1, <2>1, OneEach
  <2> QED
    BY <1>1, <2>2, <2>3 DEF EncoderCheck
<1> QED
  BY <1>1, <1>2, <1>3, <1>4, NamesDiffer, PartsDiffer

\* The one edit that is edited again is one of lm_head, and YOCO edits it.
LEMMA Rewrites ==
  ASSUME NEW r \in Rewritten
  PROVE  /\ r[1] \in AllEdits \ Keeps /\ r[2] \in AllEdits
         /\ \A p \in Patches : \A i \in DOMAIN p.parts :
              /\ r[1] \in PartEdits(p, p.parts[i]) => p = LmHead
              /\ r[2] \in PartEdits(p, p.parts[i]) => p = Yoco
         /\ LmHead # Yoco
<1>1. r[1] = <<"lm_head", "attention", "score">> /\ r[2] = <<"yoco", "attention", "all">>
  BY DEF Rewritten
<1>2. LmHead \in Patches /\ Yoco \in Patches
  BY DEF Patches
<1>3. 1 \in DOMAIN LmHead.parts /\ r[1] \in PartEdits(LmHead, LmHead.parts[1])
  BY <1>1 DEF LmHead, Patch, Piece, PartEdits
<1>4. 2 \in DOMAIN Yoco.parts /\ r[2] \in PartEdits(Yoco, Yoco.parts[2])
  BY <1>1 DEF Yoco, Patch, Each, Piece, PartEdits
<1>5. r[1] \notin Keeps
  BY <1>1 DEF Keeps
<1>6. r[1] \in AllEdits /\ r[2] \in AllEdits
  BY <1>2, <1>3, <1>4, EditsOwned
<1>7. ASSUME NEW p \in Patches, NEW i \in DOMAIN p.parts, r[1] \in PartEdits(p, p.parts[i])
      PROVE  p = LmHead
  BY <1>2, <1>3, <1>7, EditsOwned
<1>8. ASSUME NEW p \in Patches, NEW i \in DOMAIN p.parts, r[2] \in PartEdits(p, p.parts[i])
      PROVE  p = Yoco
  BY <1>2, <1>4, <1>8, EditsOwned
<1>9. LmHead # Yoco
  BY DEF LmHead, Yoco, Patch
<1> QED
  BY <1>5, <1>6, <1>7, <1>8, <1>9

\* The two scripts that verify their edits replace the anchor.
LEMMA VerifiedLosesAnchor ==
  ASSUME NEW p \in {Grammar, Spinwait}, NEW i \in DOMAIN p.parts
  PROVE  PartEdits(p, p.parts[i]) \cap Keeps = {}
<1>1. p.name \in {"xgrammar", "spinwait"}
  BY DEF Grammar, Spinwait, Patch
<1>2. \A e \in PartEdits(p, p.parts[i]) : e[1] = p.name
  BY DEF PartEdits
<1>3. \A e \in Keeps : e[1] \notin {"xgrammar", "spinwait"}
  BY DEF Keeps
<1> QED
  BY <1>1, <1>2, <1>3

\* The lists of the Dockerfile and of the start script hold only scripts of
\* Patches.
LEMMA ListsOfScripts ==
  /\ DOMAIN BuildList = 1..14 /\ Len(BuildList) = 14
  /\ DOMAIN BootList = 1..17 /\ Len(BootList) = 17
  /\ \A i \in 1..14 : BuildList[i] \in Patches
  /\ \A i \in 1..17 : BootList[i] \in Patches
  /\ \A i, j \in 1..17 : BootList[i] = BootList[j] => i = j
<1>1. /\ DOMAIN BuildList = 1..14 /\ Len(BuildList) = 14
      /\ DOMAIN BootList = 1..17 /\ Len(BootList) = 17
  BY DEF BuildList, BootList
<1>2. \A i \in 1..14 : BuildList[i] \in Patches
  BY DEF BuildList, Patches
<1>3. \A i \in 1..17 : BootList[i] \in Patches
  BY DEF BootList, Patches
<1>4. \A i, j \in 1..17 : BootList[i] = BootList[j] => i = j
  <2> DEFINE names == <<"suppress", "decode_floor", "xgrammar", "spinwait", "responses",
                        "effort", "control_tokens", "output_split", "packed_names", "lm_head",
                        "engram_secondary", "engram_file", "h2d_stage", "sm120", "memory_log",
                        "swa", "yoco">>
  <2>1. \A i \in 1..17 : BootList[i].name = names[i]
    BY DEF BootList, Suppress, DecodeFloor, Grammar, Spinwait, Responses, Effort, ControlGuard,
         OutputSplit, PackedNames, LmHead, EngramSecondary, EngramFile,
         H2dStage, Sm120, MemoryLog, SwaFinal, Yoco, Patch
  <2>2. \A i, j \in 1..17 : names[i] = names[j] => i = j
    OBVIOUS
  <2> HIDE DEF names
  <2> QED
    BY <2>1, <2>2
<1> QED
  BY <1>1, <1>2, <1>3, <1>4

\* A scan looks for edits that are not visible and have an anchor: with TextInv those
\* that are not made. Any other edit is visible when it is made.
LEMMA VisibleEdits ==
  ASSUME NEW t, TextInv(t), NEW p \in Patches, NEW i \in DOMAIN p.parts,
         NEW e \in PartEdits(p, p.parts[i])
  PROVE  /\ ~Visible(t, e) /\ t.anchor[e] > 0 <=> t.put[e] = 0 /\ t.anchor[e] > 0
         /\ p # LmHead => (Visible(t, e) <=> t.put[e] > 0)
         /\ t.put[e] \in 0..1 /\ t.anchor[e] \in 0..2
<1>1. e \in AllEdits
  BY EditsOwned
<1>2. t.put[e] \in 0..1 /\ t.anchor[e] \in 0..2
  BY <1>1 DEF TextInv
<1>3. \A r \in Rewritten : r[1] = e => p = LmHead /\ (t.put[e] = 0 \/ t.anchor[e] = 0)
  BY Rewrites DEF TextInv
<1> QED
  BY <1>2, <1>3 DEF Visible

\* Two texts that agree on a part, and on the edits of other scripts it is made over,
\* are the same to its script.
LEMMA SamePart ==
  ASSUME NEW t, TextInv(t), NEW u, TextInv(u), NEW p \in Patches, NEW i \in DOMAIN p.parts,
         u.absent = t.absent, Marked(u, p, p.parts[i]) <=> Marked(t, p, p.parts[i]),
         \A e \in PartEdits(p, p.parts[i]) : u.put[e] = t.put[e] /\ u.anchor[e] = t.anchor[e],
         \A r \in Rewritten : r[2] \in PartEdits(p, p.parts[i]) => u.put[r[1]] = t.put[r[1]]
  PROVE  /\ Done(u, p, p.parts[i]) <=> Done(t, p, p.parts[i])
         /\ Ready(u, p, p.parts[i]) <=> Ready(t, p, p.parts[i])
         /\ FoundIn(u, p, p.parts[i]) = FoundIn(t, p, p.parts[i])
<1> DEFINE q == p.parts[i]
           E == PartEdits(p, q)
<1>1. \A e \in E : /\ ~Visible(t, e) /\ t.anchor[e] > 0 <=> ~Visible(u, e) /\ u.anchor[e] > 0
                   /\ p # LmHead => (Visible(t, e) <=> Visible(u, e))
                   /\ t.anchor[e] \in 0..2
  BY VisibleEdits
<1>2. FoundIn(u, p, q) = FoundIn(t, p, q) /\ FoundIn(t, p, q) \subseteq E
  BY <1>1 DEF FoundIn
<1>3. Ready(u, p, q) <=> Ready(t, p, q)
  <2>1. \A e \in E : Anchored(u, p, e) <=> Anchored(t, p, e)
    BY DEF Anchored
  <2>2. (\A e \in FoundIn(u, p, q) : Anchored(u, p, e))
          <=> (\A e \in FoundIn(t, p, q) : Anchored(t, p, e))
    BY <1>2, <2>1
  <2>3. (\A e \in E : u.put[e] = 0) <=> (\A e \in E : t.put[e] = 0)
    OBVIOUS
  <2> QED
    BY <2>2, <2>3 DEF Ready
<1>4. Done(u, p, q) <=> Done(t, p, q)
  <2>1. CASE p.present = "mark"
    BY <2>1 DEF Done
  <2>2. CASE p.present = "text"
    <3>1. (\A e \in E : Visible(u, e)) <=> (\A e \in E : Visible(t, e))
      BY <1>1, <2>2, Kinds
    <3> QED
      BY <2>2, <3>1 DEF Done
  <2>3. CASE p.present = "verified"
    <3>1. (\A e \in E : u.put[e] = 1 /\ u.anchor[e] = 0) <=> (\A e \in E : t.put[e] = 1 /\ t.anchor[e] = 0)
      OBVIOUS
    <3> QED
      BY <2>3, <3>1 DEF Done
  <2>4. CASE p.present = "scan"
    <3>1. \A e \in E : u.anchor[e] = t.anchor[e] /\ t.anchor[e] \in 0..2
                       /\ (Visible(t, e) \/ t.anchor[e] = 0 <=> Visible(u, e) \/ u.anchor[e] = 0)
      BY <1>1
    <3>2. (\A e \in E : Visible(u, e) \/ u.anchor[e] = 0) <=> (\A e \in E : Visible(t, e) \/ t.anchor[e] = 0)
      BY <3>1
    <3> QED
      BY <2>4, <3>2 DEF Done
  <2> QED
    BY <2>1, <2>2, <2>3, <2>4, Kinds
<1> QED
  BY <1>2, <1>3, <1>4

\* What a run writes is not there yet, and its anchors are.
LEMMA WritesAreNew ==
  ASSUME NEW t, TextInv(t), NEW p \in Patches, NEW i \in Todo(t, p)
  PROVE  /\ i \in DOMAIN p.parts
         /\ WriteOf(t, p, i).edits \subseteq PartEdits(p, p.parts[i])
         /\ p.present # "scan" => WriteOf(t, p, i).edits = PartEdits(p, p.parts[i])
         /\ \A e \in WriteOf(t, p, i).edits :
              /\ e \in AllEdits /\ t.put[e] = 0 /\ t.anchor[e] \in 1..2
              /\ ~Loose(p) => t.anchor[e] = 1
<1> DEFINE q == p.parts[i]
           E == PartEdits(p, q)
           W == WriteOf(t, p, i).edits
<1>1. i \in DOMAIN p.parts /\ ~Done(t, p, q) /\ Ready(t, p, q)
  BY DEF Todo
<1>2. W = FoundIn(t, p, q)
  BY DEF WriteOf
<1>3. W \subseteq E /\ (p.present # "scan" => W = E)
  BY <1>2 DEF FoundIn
<1>4. ASSUME NEW e \in W
      PROVE  e \in AllEdits /\ t.anchor[e] \in 1..2 /\ (~Loose(p) => t.anchor[e] = 1)
  <2>1. e \in AllEdits /\ t.anchor[e] \in 0..2
    BY <1>1, <1>3, EditsOwned, VisibleEdits
  <2> QED
    BY <1>1, <1>2, <2>1 DEF Ready, Anchored
<1>5. ASSUME NEW e \in W PROVE t.put[e] = 0
  <2>0. e \in E /\ t.put[e] \in 0..1 /\ t.anchor[e] \in 1..2
    BY <1>1, <1>3, <1>4, VisibleEdits
  <2>1. CASE p.present = "mark"
    <3>1. ~Marked(t, p, q)
      BY <1>1, <2>1 DEF Done, Ready
    <3> QED
      BY <1>1, <2>0, <2>1, <3>1 DEF TextInv
  <2>2. CASE p.present = "text"
    <3>1. \A f \in E : f = e
      BY <1>1, <2>0, <2>2, Kinds, OneEach, OneKindEach DEF PartEdits
    <3>2. ~Visible(t, e)
      BY <1>1, <2>2, <3>1 DEF Done, Ready
    <3> QED
      BY <1>1, <2>0, <2>2, <3>2, Kinds, VisibleEdits
  <2>3. CASE p.present = "verified"
    BY <1>1, <2>0, <2>3 DEF Ready
  <2>4. CASE p.present = "scan"
    <3>1. ~Visible(t, e) /\ t.anchor[e] > 0
      BY <1>2, <2>4 DEF FoundIn
    <3> QED
      BY <1>1, <2>0, <3>1, VisibleEdits
  <2> QED
    BY <2>1, <2>2, <2>3, <2>4, Kinds
<1> QED
  BY <1>1, <1>3, <1>4, <1>5

\* A write makes the edits of its part and takes their anchors, nothing else.
LEMMA PutText ==
  ASSUME NEW t, TextInv(t), NEW p \in Patches, NEW i \in Todo(t, p),
         NEW u, u = Put(t, WriteOf(t, p, i))
  PROVE  /\ u \in [anchor : [AllEdits -> 0..2], put : [AllEdits -> 0..1],
                   mark : SUBSET ({s.name : s \in Patches} \X Files),
                   absent : SUBSET Files, torn : SUBSET Files]
         /\ u.absent = t.absent /\ u.torn = t.torn
         /\ t.mark \subseteq u.mark /\ u.mark \subseteq t.mark \cup {<<p.name, p.parts[i].file>>}
         /\ p.present \notin {"mark", "verified"} => u.mark = t.mark
         /\ p.present = "mark" => Marked(u, p, p.parts[i])
         /\ \A e \in WriteOf(t, p, i).edits :
              /\ u.put[e] = 1
              /\ u.anchor[e] = 0 \/ e \in Keeps \/ Loose(p)
              /\ t.anchor[e] = 1 => u.anchor[e] = 0 \/ e \in Keeps
         /\ \A e \in AllEdits \ WriteOf(t, p, i).edits :
              u.put[e] = t.put[e] /\ u.anchor[e] = t.anchor[e]
<1> DEFINE w == WriteOf(t, p, i)
           W == w.edits
<1>1. /\ i \in DOMAIN p.parts /\ W \subseteq PartEdits(p, p.parts[i])
      /\ \A e \in W : /\ e \in AllEdits /\ t.put[e] = 0 /\ t.anchor[e] \in 1..2
                      /\ ~Loose(p) => t.anchor[e] = 1
  BY WritesAreNew
<1>2. /\ t.put \in [AllEdits -> 0..1] /\ t.anchor \in [AllEdits -> 0..2]
      /\ t.mark \in SUBSET ({s.name : s \in Patches} \X Files)
      /\ t.absent \in SUBSET Files /\ t.torn \in SUBSET Files
      /\ t = [anchor |-> t.anchor, put |-> t.put, mark |-> t.mark, absent |-> t.absent,
              torn |-> t.torn]
  BY DEF TextInv
<1>3. w.patch = p.name /\ w.file = p.parts[i].file /\ (w.marks <=> p.present \in {"mark", "verified"})
  BY DEF WriteOf
<1>4. /\ u.put = [e \in AllEdits |-> IF e \in W THEN Cap(t.put[e] + 1) ELSE t.put[e]]
      /\ u.anchor = [e \in AllEdits |->
                       IF e \notin W \ Keeps THEN t.anchor[e]
                       ELSE IF w.patch = "packed_names" THEN 0 ELSE t.anchor[e] - 1]
      /\ u.mark = IF w.marks THEN t.mark \cup {<<w.patch, w.file>>} ELSE t.mark
      /\ u.absent = t.absent /\ u.torn = t.torn
      /\ u = [anchor |-> u.anchor, put |-> u.put, mark |-> u.mark, absent |-> u.absent,
              torn |-> u.torn]
  <2> HIDE DEF w
  <2>1. u = [t EXCEPT
        !.put = [e \in AllEdits |-> IF e \in w.edits THEN Cap(t.put[e] + 1) ELSE t.put[e]],
        !.anchor = [e \in AllEdits |->
                      IF e \notin w.edits \ Keeps THEN t.anchor[e]
                      ELSE IF w.patch = "packed_names" THEN 0 ELSE t.anchor[e] - 1],
        !.mark = IF w.marks THEN @ \cup {<<w.patch, w.file>>} ELSE @]
    BY DEF Put, w
  <2> QED
    BY <1>2, <2>1
<1> HIDE DEF w
<1>5. \A e \in AllEdits :
        /\ e \in W => u.put[e] = 1
        /\ e \notin W => u.put[e] = t.put[e]
        /\ u.put[e] \in 0..1
  BY <1>1, <1>2, <1>4 DEF Cap
<1>6. \A e \in AllEdits :
        /\ e \in W => u.anchor[e] = 0 \/ e \in Keeps \/ Loose(p)
        /\ e \in W /\ t.anchor[e] = 1 => u.anchor[e] = 0 \/ e \in Keeps
        /\ e \notin W => u.anchor[e] = t.anchor[e]
        /\ u.anchor[e] \in 0..2
  BY <1>1, <1>2, <1>4
<1>7. u.put \in [AllEdits -> 0..1] /\ u.anchor \in [AllEdits -> 0..2]
  BY <1>4, <1>5, <1>6
<1>8. p.parts[i].file \in Files
  <2>1. PICK e \in PartEdits(p, p.parts[i]) : TRUE
    <3>1. FoundIn(t, p, p.parts[i]) # {} /\ FoundIn(t, p, p.parts[i]) \subseteq PartEdits(p, p.parts[i])
      BY DEF Todo, FoundIn
    <3> QED
      BY <3>1
  <2> QED
    BY <1>1, <2>1, EditsOwned
<1>9. u.mark \in SUBSET ({s.name : s \in Patches} \X Files)
  BY <1>2, <1>3, <1>4, <1>8
<1>10. /\ t.mark \subseteq u.mark /\ u.mark \subseteq t.mark \cup {<<p.name, p.parts[i].file>>}
       /\ p.present \notin {"mark", "verified"} => u.mark = t.mark
       /\ p.present = "mark" => Marked(u, p, p.parts[i])
  BY <1>3, <1>4 DEF Marked
<1> QED
  BY <1>1, <1>2, <1>4, <1>5, <1>6, <1>7, <1>9, <1>10 DEF w

\* A write of what a script finds undone keeps TextInv.
LEMMA PutKeepsText ==
  ASSUME NEW t, TextInv(t), NEW p \in Patches, NEW i \in Todo(t, p),
         NEW u, u = Put(t, WriteOf(t, p, i))
  PROVE  TextInv(u)
<1> DEFINE W == WriteOf(t, p, i).edits
<1>1. i \in DOMAIN p.parts /\ W \subseteq PartEdits(p, p.parts[i])
  BY WritesAreNew
<1>2. /\ t.mark \subseteq u.mark
      /\ p.present = "mark" => Marked(u, p, p.parts[i])
      /\ \A e \in AllEdits \ W : u.put[e] = t.put[e] /\ u.anchor[e] = t.anchor[e]
      /\ \A e \in W : u.anchor[e] = 0 \/ e \in Keeps \/ Loose(p)
  BY PutText
<1>3. ASSUME NEW q \in Patches, q.present = "mark", NEW j \in DOMAIN q.parts,
             NEW e \in PartEdits(q, q.parts[j])
      PROVE  u.put[e] = 0 \/ u.anchor[e] = 0 \/ Marked(u, q, q.parts[j])
  <2>1. CASE e \in W
    <3>1. q = p /\ j = i
      BY <1>1, <1>3, <2>1, EditsOwned
    <3> QED
      BY <1>2, <1>3, <3>1, PutText
  <2>2. CASE e \notin W
    <3>1. e \in AllEdits
      BY <1>3, EditsOwned
    <3>2. t.put[e] = 0 \/ t.anchor[e] = 0 \/ Marked(t, q, q.parts[j])
      BY <1>3 DEF TextInv
    <3>3. Marked(t, q, q.parts[j]) => Marked(u, q, q.parts[j])
      BY <1>2 DEF Marked
    <3> QED
      BY <1>2, <2>2, <3>1, <3>2, <3>3
  <2> QED
    BY <2>1, <2>2
<1>4. ASSUME NEW r \in Rewritten PROVE u.put[r[1]] = 0 \/ u.anchor[r[1]] = 0
  <2>1. r[1] \in AllEdits \ Keeps /\ (r[1] \in W => p = LmHead)
    BY <1>1, Rewrites
  <2>2. p = LmHead => ~Loose(p)
    BY Kinds
  <2>3. t.put[r[1]] = 0 \/ t.anchor[r[1]] = 0
    BY DEF TextInv
  <2> QED
    BY <1>2, <2>1, <2>2, <2>3
<1>5. u \in [anchor : [AllEdits -> 0..2], put : [AllEdits -> 0..1],
             mark : SUBSET ({s.name : s \in Patches} \X Files),
             absent : SUBSET Files, torn : SUBSET Files]
  BY PutText
<1> QED
  BY <1>3, <1>4, <1>5 DEF TextInv

\* What check_encoder_source looks for counts as an edit in AllEdits.
LEMMA EncoderIsAnEdit == EncoderCheck \in AllEdits
BY DEF AllEdits

\* A write of one script changes nothing for another one, but for YOCO when lm_head
\* writes.
LEMMA OthersKept ==
  ASSUME NEW t, TextInv(t), NEW p \in Patches, NEW i \in Todo(t, p),
         NEW u, u = Put(t, WriteOf(t, p, i)), NEW q \in Patches \ {p},
         p # LmHead \/ q # Yoco
  PROVE  /\ Todo(u, q) = Todo(t, q) /\ Missing(u, q) = Missing(t, q)
         /\ Refused(u, q) <=> Refused(t, q)
<1>1. TextInv(u) /\ u.absent = t.absent /\ u.torn = t.torn
  BY PutKeepsText, PutText
<1>2. i \in DOMAIN p.parts /\ WriteOf(t, p, i).edits \subseteq PartEdits(p, p.parts[i])
  BY WritesAreNew
<1>3. ASSUME NEW j \in DOMAIN q.parts
      PROVE  /\ Done(u, q, q.parts[j]) <=> Done(t, q, q.parts[j])
             /\ Ready(u, q, q.parts[j]) <=> Ready(t, q, q.parts[j])
             /\ FoundIn(u, q, q.parts[j]) = FoundIn(t, q, q.parts[j])
  <2>1. \A e \in PartEdits(q, q.parts[j]) : e \in AllEdits \ WriteOf(t, p, i).edits
    BY <1>2, EditsOwned
  <2>2. \A e \in PartEdits(q, q.parts[j]) : u.put[e] = t.put[e] /\ u.anchor[e] = t.anchor[e]
    BY <2>1, PutText
  <2>3. t.mark \subseteq u.mark /\ u.mark \subseteq t.mark \cup {<<p.name, p.parts[i].file>>}
    BY PutText
  <2>4. q.name # p.name
    BY NamesDiffer
  <2>5. Marked(u, q, q.parts[j]) <=> Marked(t, q, q.parts[j])
    BY <2>3, <2>4 DEF Marked
  <2>6. ASSUME NEW r \in Rewritten, r[2] \in PartEdits(q, q.parts[j])
        PROVE  u.put[r[1]] = t.put[r[1]]
    <3>1. r[1] \in AllEdits \ WriteOf(t, p, i).edits
      BY <1>2, <2>6, Rewrites
    <3> QED
      BY <3>1, PutText
  <2> QED
    BY <1>1, <2>2, <2>5, <2>6, SamePart
<1>4. Refused(u, q) <=> Refused(t, q)
  <2>1. EncoderCheck \in AllEdits \ WriteOf(t, p, i).edits
    <3>1. \A e \in PartEdits(p, p.parts[i]) : e # EncoderCheck
      BY <1>2, EditsOwned
    <3> QED
      BY <1>2, <3>1, EncoderIsAnEdit
  <2>2. u.anchor[EncoderCheck] = t.anchor[EncoderCheck]
    BY <2>1, PutText
  <2> QED
    BY <1>1, <2>2 DEF Refused
<1>5. Missing(u, q) = Missing(t, q)
  BY <1>1, <1>3 DEF Missing
<1> QED
  BY <1>3, <1>4, <1>5 DEF Todo

\* A write of lm_head takes nothing away from YOCO: what YOCO could do or find done it
\* still can.
LEMMA YocoKept ==
  ASSUME NEW t, TextInv(t), NEW i \in Todo(t, LmHead), NEW u, u = Put(t, WriteOf(t, LmHead, i)),
         Missing(t, Yoco) = {}
  PROVE  Missing(u, Yoco) = {}
<1>1. TextInv(u) /\ u.absent = t.absent /\ LmHead \in Patches /\ Yoco \in Patches
      /\ LmHead # Yoco /\ Yoco.present = "mark"
  <2>1. LmHead \in Patches /\ Yoco \in Patches
    BY DEF Patches
  <2>2. LmHead # Yoco /\ Yoco.present = "mark"
    BY DEF LmHead, Yoco, Patch
  <2> QED
    BY <2>1, <2>2, PutKeepsText, PutText
<1>2. i \in DOMAIN LmHead.parts
      /\ \A e \in WriteOf(t, LmHead, i).edits :
            e \in PartEdits(LmHead, LmHead.parts[i]) /\ t.put[e] = 0
  BY <1>1, WritesAreNew
<1>3. /\ \A e \in AllEdits \ WriteOf(t, LmHead, i).edits :
            u.put[e] = t.put[e] /\ u.anchor[e] = t.anchor[e]
      /\ t.mark \subseteq u.mark
  BY <1>1, PutText
<1>4. ASSUME NEW j \in DOMAIN Yoco.parts
      PROVE  Done(u, Yoco, Yoco.parts[j]) \/ Ready(u, Yoco, Yoco.parts[j])
  <2>1. Done(t, Yoco, Yoco.parts[j]) \/ Ready(t, Yoco, Yoco.parts[j])
    BY <1>1 DEF Missing
  <2>2. CASE Done(t, Yoco, Yoco.parts[j])
    <3>1. Yoco.parts[j].file \notin u.absent /\ Marked(t, Yoco, Yoco.parts[j])
      BY <1>1, <2>2 DEF Done
    <3>2. Marked(u, Yoco, Yoco.parts[j])
      BY <1>3, <3>1 DEF Marked
    <3> QED
      BY <1>1, <3>1, <3>2 DEF Done
  <2>3. CASE Ready(t, Yoco, Yoco.parts[j])
    <3>1. /\ Yoco.parts[j].file \notin t.absent
          /\ \A e \in PartEdits(Yoco, Yoco.parts[j]) : Anchored(t, Yoco, e)
      BY <1>1, <2>3 DEF Ready, FoundIn
    <3>2. ASSUME NEW e \in PartEdits(Yoco, Yoco.parts[j]) PROVE Anchored(u, Yoco, e)
      <4>1. e \in AllEdits \ WriteOf(t, LmHead, i).edits
        BY <1>1, <1>2, EditsOwned
      <4>2. u.anchor[e] = t.anchor[e]
        BY <1>3, <4>1
      <4>3. ASSUME NEW r \in Rewritten, r[2] = e PROVE u.put[r[1]] = 1
        <5>1. t.put[r[1]] = 1
          BY <3>1, <4>3 DEF Anchored
        <5>2. r[1] \in AllEdits \ WriteOf(t, LmHead, i).edits
          BY <1>2, <5>1, Rewrites
        <5> QED
          BY <1>3, <5>1, <5>2
      <4> QED
        BY <3>1, <4>2, <4>3 DEF Anchored
    <3> QED
      BY <1>1, <3>1, <3>2 DEF Ready, FoundIn
  <2> QED
    BY <2>1, <2>2, <2>3
<1> QED
  BY <1>4 DEF Missing

\* After a write the script would find this part done, and the others as before.
LEMMA RestOfPlan ==
  ASSUME NEW t, TextInv(t), NEW p \in Patches, NEW i \in Todo(t, p),
         NEW u, u = Put(t, WriteOf(t, p, i))
  PROVE  /\ Todo(u, p) = Todo(t, p) \ {i}
         /\ \A j \in Todo(u, p) : WriteOf(u, p, j) = WriteOf(t, p, j)
         /\ Done(u, p, p.parts[i]) /\ Missing(u, p) = Missing(t, p)
         /\ Refused(u, p) <=> Refused(t, p)
<1> DEFINE W == WriteOf(t, p, i).edits
           E == PartEdits(p, p.parts[i])
<1>1. TextInv(u) /\ u.absent = t.absent /\ u.torn = t.torn
  BY PutKeepsText, PutText
<1>2. /\ i \in DOMAIN p.parts /\ W \subseteq E /\ (p.present # "scan" => W = E)
      /\ ~Done(t, p, p.parts[i]) /\ Ready(t, p, p.parts[i])
      /\ ~Refused(t, p) /\ (p.whole => Missing(t, p) = {})
  BY WritesAreNew DEF Todo
<1>3. ASSUME NEW j \in DOMAIN p.parts, j # i
      PROVE  /\ Done(u, p, p.parts[j]) <=> Done(t, p, p.parts[j])
             /\ Ready(u, p, p.parts[j]) <=> Ready(t, p, p.parts[j])
             /\ FoundIn(u, p, p.parts[j]) = FoundIn(t, p, p.parts[j])
  <2>1. \A e \in PartEdits(p, p.parts[j]) : e \in AllEdits \ W
    BY <1>2, <1>3, EditsOwned
  <2>2. \A e \in PartEdits(p, p.parts[j]) : u.put[e] = t.put[e] /\ u.anchor[e] = t.anchor[e]
    BY <2>1, PutText
  <2>3. Marked(u, p, p.parts[j]) <=> Marked(t, p, p.parts[j])
    <3>1. CASE p.present \in {"mark", "verified"}
      <4>1. p \notin {LmHead, Sm120}
        <5>1. Grammar \notin {LmHead, Sm120} /\ Spinwait \notin {LmHead, Sm120}
          BY DEF Grammar, Spinwait, LmHead, Sm120, Patch
        <5> QED
          BY <3>1, <5>1, Kinds
      <4>2. p.parts[j].file # p.parts[i].file
        BY <1>2, <1>3, <4>1, OneEach
      <4>3. t.mark \subseteq u.mark /\ u.mark \subseteq t.mark \cup {<<p.name, p.parts[i].file>>}
        BY PutText
      <4> QED
        BY <4>2, <4>3 DEF Marked
    <3>2. CASE p.present \notin {"mark", "verified"}
      <4>1. u.mark = t.mark
        BY <3>2, PutText
      <4> QED
        BY <4>1 DEF Marked
    <3> QED
      BY <3>1, <3>2
  <2>4. ASSUME NEW r \in Rewritten, r[2] \in PartEdits(p, p.parts[j])
        PROVE  u.put[r[1]] = t.put[r[1]]
    <3>1. r[1] \in AllEdits \ W
      BY <1>2, <2>4, Rewrites
    <3> QED
      BY <3>1, PutText
  <2> QED
    BY <1>1, <2>2, <2>3, <2>4, SamePart
<1>4. Done(u, p, p.parts[i])
  <2>1. p.parts[i].file \notin u.absent
    BY <1>1, <1>2 DEF Ready
  <2>2. /\ \A e \in W : u.put[e] = 1 /\ (u.anchor[e] = 0 \/ e \in Keeps \/ Loose(p))
        /\ \A e \in AllEdits \ W : u.put[e] = t.put[e] /\ u.anchor[e] = t.anchor[e]
    BY PutText
  <2>3. CASE p.present = "mark"
    BY <2>1, <2>3, PutText DEF Done
  <2>4. CASE p.present = "text"
    <3>1. \A e \in E : Visible(u, e)
      BY <1>1, <1>2, <2>2, <2>4, Kinds, VisibleEdits
    <3> QED
      BY <2>1, <2>4, <3>1 DEF Done
  <2>5. CASE p.present = "verified"
    <3>1. p \in {Grammar, Spinwait} /\ ~Loose(p)
      BY <2>5, Kinds
    <3>2. \A e \in E : u.put[e] = 1 /\ u.anchor[e] = 0
      BY <1>2, <2>2, <2>5, <3>1, VerifiedLosesAnchor
    <3> QED
      BY <2>1, <2>5, <3>2 DEF Done
  <2>6. CASE p.present = "scan"
    <3>1. ASSUME NEW e \in E PROVE Visible(u, e) \/ u.anchor[e] = 0
      <4>1. u.put[e] \in 0..1 /\ u.anchor[e] \in 0..2 /\ e \in AllEdits
        BY <1>1, <1>2, EditsOwned, VisibleEdits
      <4>2. ~(u.put[e] = 0 /\ u.anchor[e] > 0)
        <5>1. CASE e \in W
          BY <2>2, <5>1
        <5>2. CASE e \notin W
          <6>1. Visible(t, e) \/ ~(t.anchor[e] > 0)
            BY <2>6, <5>2 DEF WriteOf, FoundIn
          <6>2. ~(t.put[e] = 0 /\ t.anchor[e] > 0)
            BY <1>2, <6>1, VisibleEdits
          <6> QED
            BY <2>2, <4>1, <5>2, <6>2
        <5> QED
          BY <5>1, <5>2
      <4>3. ~(~Visible(u, e) /\ u.anchor[e] > 0)
        BY <1>1, <1>2, <4>2, VisibleEdits
      <4> QED
        BY <4>1, <4>3
    <3> QED
      BY <2>1, <2>6, <3>1 DEF Done
  <2> QED
    BY <2>3, <2>4, <2>5, <2>6, Kinds
<1>5. Refused(u, p) <=> Refused(t, p)
  <2>1. EncoderCheck \in AllEdits \ W
    <3>1. \A e \in PartEdits(p, p.parts[i]) : e # EncoderCheck
      BY <1>2, EditsOwned
    <3> QED
      BY <1>2, <3>1, EncoderIsAnEdit
  <2>2. u.anchor[EncoderCheck] = t.anchor[EncoderCheck]
    BY <2>1, PutText
  <2> QED
    BY <1>1, <2>2 DEF Refused
<1>6. Missing(u, p) = Missing(t, p)
  BY <1>1, <1>2, <1>3, <1>4 DEF Missing
<1>7. Todo(u, p) = Todo(t, p) \ {i}
  BY <1>2, <1>3, <1>4, <1>5, <1>6 DEF Todo
<1>8. ASSUME NEW j \in Todo(u, p) PROVE WriteOf(u, p, j) = WriteOf(t, p, j)
  <2>1. j \in DOMAIN p.parts /\ j # i
    BY <1>7 DEF Todo
  <2> QED
    BY <1>3, <2>1 DEF WriteOf
<1> QED
  BY <1>4, <1>5, <1>6, <1>7, <1>8

\* Whatever the drift, the base image satisfies TextInv.
LEMMA BaseText ==
  ASSUME NEW d, d \subseteq Drifts
  PROVE  TextInv(Base(d))
<1> DEFINE at(kind) == {x[1] : x \in {y \in d : y[2] = kind}}
           absent == {e[2] : e \in at("nofile")}
           t == Base(d)
<1>1. /\ t.anchor = [e \in AllEdits |->
                      IF e[2] \in absent \/ e \in at("gone") \cup at("upstream") THEN 0
                      ELSE IF e \in at("twice") THEN 2 ELSE 1]
      /\ t.put = [e \in AllEdits |-> IF e \in at("upstream") THEN 1 ELSE 0]
      /\ t.mark = {} /\ t.absent = absent /\ t.torn = {}
      /\ t = [anchor |-> t.anchor, put |-> t.put, mark |-> {}, absent |-> absent, torn |-> {}]
  BY DEF Base
<1>2. absent \subseteq Files
  BY NodeBootAssumption DEF Files
<1> HIDE DEF t, absent, at
<1>3. \A e \in AllEdits : t.anchor[e] \in 0..2 /\ t.put[e] \in 0..1 /\ (t.put[e] = 0 \/ t.anchor[e] = 0)
  BY <1>1
<1>4. t.anchor \in [AllEdits -> 0..2] /\ t.put \in [AllEdits -> 0..1]
  BY <1>1, <1>3
<1>5. \A p \in Patches : \A i \in DOMAIN p.parts : \A e \in PartEdits(p, p.parts[i]) :
        t.put[e] = 0 \/ t.anchor[e] = 0
  BY <1>3, EditsOwned
<1>6. \A r \in Rewritten : t.put[r[1]] = 0 \/ t.anchor[r[1]] = 0
  BY <1>3, Rewrites
<1> QED
  BY <1>1, <1>2, <1>4, <1>5, <1>6 DEF TextInv, t

\* So does the package when a killed write left a file of a plan empty.
LEMMA TornText ==
  ASSUME NEW t, TextInv(t), NEW file \in Files, NEW u, u = Tear(t, file)
  PROVE  TextInv(u)
<1>1. /\ t.put \in [AllEdits -> 0..1] /\ t.anchor \in [AllEdits -> 0..2]
      /\ t.mark \in SUBSET ({s.name : s \in Patches} \X Files)
      /\ t.absent \in SUBSET Files /\ t.torn \in SUBSET Files
      /\ t = [anchor |-> t.anchor, put |-> t.put, mark |-> t.mark, absent |-> t.absent,
              torn |-> t.torn]
  BY DEF TextInv
<1>2. /\ u.put = [e \in AllEdits |-> IF e[2] = file THEN 0 ELSE t.put[e]]
      /\ u.anchor = [e \in AllEdits |-> IF e[2] = file THEN 0 ELSE t.anchor[e]]
      /\ u.mark = {m \in t.mark : m[2] # file} /\ u.absent = t.absent
      /\ u.torn = t.torn \cup {file}
      /\ u = [anchor |-> u.anchor, put |-> u.put, mark |-> u.mark, absent |-> u.absent,
              torn |-> u.torn]
  <2>1. u = [t EXCEPT !.put = [e \in AllEdits |-> IF e[2] = file THEN 0 ELSE t.put[e]],
                      !.anchor = [e \in AllEdits |-> IF e[2] = file THEN 0 ELSE t.anchor[e]],
                      !.mark = {m \in @ : m[2] # file},
                      !.torn = @ \cup {file}]
    BY DEF Tear
  <2> QED
    BY <1>1, <2>1
<1>3. \A e \in AllEdits : u.anchor[e] \in 0..2 /\ u.put[e] \in 0..1
  BY <1>1, <1>2
<1>4. u.anchor \in [AllEdits -> 0..2] /\ u.put \in [AllEdits -> 0..1]
  BY <1>2, <1>3
<1>5. ASSUME NEW p \in Patches, p.present = "mark", NEW i \in DOMAIN p.parts,
             NEW e \in PartEdits(p, p.parts[i])
      PROVE  u.put[e] = 0 \/ u.anchor[e] = 0 \/ Marked(u, p, p.parts[i])
  <2>1. e \in AllEdits /\ e[2] = p.parts[i].file
    BY <1>5, EditsOwned
  <2>2. t.put[e] = 0 \/ t.anchor[e] = 0 \/ Marked(t, p, p.parts[i])
    BY <1>1, <1>5 DEF TextInv
  <2>3. e[2] # file /\ Marked(t, p, p.parts[i]) => Marked(u, p, p.parts[i])
    BY <1>2, <2>1 DEF Marked
  <2> QED
    BY <1>2, <2>1, <2>2, <2>3
<1>6. \A r \in Rewritten : u.put[r[1]] = 0 \/ u.anchor[r[1]] = 0
  <2>1. \A r \in Rewritten : r[1] \in AllEdits /\ (t.put[r[1]] = 0 \/ t.anchor[r[1]] = 0)
    BY <1>1, Rewrites DEF TextInv
  <2> QED
    BY <1>2, <2>1
<1>7. u.mark \in SUBSET ({s.name : s \in Patches} \X Files) /\ u.torn \in SUBSET Files
  BY <1>1, <1>2
<1> QED
  BY <1>1, <1>2, <1>4, <1>5, <1>6, <1>7 DEF TextInv

-----------------------------------------------------------------------------

\* docker build starts in NodeInv.
LEMMA NodeStarts == NodeInit => NodeInv
<1> SUFFICES ASSUME NodeInit PROVE NodeInv
  OBVIOUS
<1>1. /\ phase = "build" /\ script = 1 /\ plan = NoWrites /\ text = Base(drift) /\ served = None
      /\ mode = BuildMode /\ faults = 0 /\ drift \subseteq Drifts
  BY DEF NodeInit
<1>2. TextInv(text)
  BY <1>1, BaseText
<1>3. Idle
  BY <1>1 DEF Idle, NoWrites
<1>4. script \in 1..(Len(List) + 1)
  BY <1>1, ListsOfScripts DEF List
<1>5. faults \in 0..MaxFaults
  BY <1>1, NodeBootAssumption
<1> QED
  BY <1>1, <1>2, <1>3, <1>4, <1>5 DEF NodeInv, PlanInv, BootInv, ServedInv

\* The script that runs, and where it stands.
LEMMA ScriptsListed ==
  /\ Len(List) \in {14, 17} /\ DOMAIN List = 1..Len(List)
  /\ \A i \in DOMAIN List : List[i] \in Patches
  /\ phase # "build" => List = BootList
BY ListsOfScripts DEF List

\* A script that starts plans what it finds undone, or nothing.
LEMMA RunKeeps ==
  ASSUME NodeInv, Run
  PROVE  NodeInv'
<1> DEFINE p == List[script]
           fatal == ~Skipped(p) /\ Errs(p) /\ ~Tolerated(p)
           none == fatal \/ Skipped(p) \/ CheckOnly(p) \/ Stock(p)
<1>1. /\ phase \in {"build", "boot"} /\ Idle /\ script <= Len(List) /\ script' = script + 1
      /\ phase' = IF ~fatal THEN phase ELSE IF phase = "build" THEN "nobuild" ELSE "failed"
      /\ plan' = IF none THEN NoWrites ELSE Writes(text, p)
      /\ UNCHANGED <<text, image, mode, drift, omitted, served, faults>>
  BY DEF Run
<1>2. script \in Nat \ {0} /\ script \in DOMAIN List /\ p \in Patches /\ Len(List) \in Nat
  BY <1>1, ScriptsListed DEF NodeInv
<1> HIDE DEF none, fatal, p
<1>3. \/ phase' = phase /\ List' = List
      \/ fatal /\ phase' \in {"nobuild", "failed"} /\ plan' = NoWrites
  BY <1>1 DEF List, none
<1>4. Idle' \/ (phase' = phase /\ List' = List /\ plan' = Writes(text, p))
  BY <1>1, <1>3 DEF Idle, NoWrites, none
<1>5. PlanInv'
  <2>1. ASSUME ~Idle' PROVE /\ phase' \in {"build", "boot"} /\ script' - 1 = script
                            /\ plan' = Writes(text', List[script]) /\ List' = List
    BY <1>1, <1>2, <1>4, <2>1 DEF p
  <2>2. Idle' \/ ~Idle'
    OBVIOUS
  <2>3. CASE Idle'
    BY <2>3 DEF PlanInv
  <2>4. CASE ~Idle'
    <3>1. /\ phase' \in {"build", "boot"} /\ script' - 1 = script
          /\ plan' = Writes(text', List[script]) /\ List' = List
      BY <2>1, <2>4
    <3>2. Writes(text, List[script])' = Writes(text', List'[script'])
      OBVIOUS
    <3> QED
      BY <1>2, <3>1 DEF PlanInv
  <2> QED
    BY <2>3, <2>4
<1>6. \A q \in Patches : phase # "build" /\ phase' # "build" /\ Settled(q) => Settled(q)'
  BY <1>1 DEF Settled, Skipped, Stock
<1>7. BootInv'
  <2>1. SUFFICES ASSUME phase' = "boot", NEW i \in 1..(script' - 1)
                 PROVE  Settled(BootList[i])' \/ (i = script' - 1 /\ ~Idle')
    BY DEF BootInv
  <2>2. phase = "boot" /\ List = BootList /\ ~fatal
    BY <1>1, <1>3, <2>1 DEF List
  <2>3. i \in 1..script /\ BootList[i] \in Patches
    BY <1>1, <1>2, <2>1, <2>2, ListsOfScripts
  <2>4. CASE i < script
    <3>1. Settled(BootList[i])
      BY <1>1, <1>2, <2>2, <2>3, <2>4 DEF NodeInv, BootInv
    <3> QED
      BY <1>6, <2>1, <2>2, <2>3, <3>1
  <2>5. CASE i = script
    <3>1. BootList[i] = p /\ ~CheckOnly(p)
      BY <2>2, <2>5 DEF p, CheckOnly
    <3>2. CASE Skipped(p) \/ Stock(p)
      BY <1>6, <2>1, <2>2, <2>3, <3>1, <3>2 DEF Settled
    <3>3. CASE ~(Skipped(p) \/ Stock(p))
      <4>1. plan' = Writes(text, p) /\ DOMAIN plan' = Todo(text, p)
        BY <1>1, <2>2, <3>1, <3>3 DEF none, Writes
      <4>2. Idle' => Settled(p)
        BY <4>1 DEF Idle, Settled
      <4> QED
        BY <1>1, <1>2, <1>6, <2>1, <2>2, <2>3, <2>5, <3>1, <4>2
    <3> QED
      BY <3>2, <3>3
  <2> QED
    BY <1>2, <2>3, <2>4, <2>5
<1>8. ServedInv'
  <2>1. SUFFICES ASSUME served' # None
                 PROVE  /\ phase' \notin {"build", "nobuild"} /\ text' = served' /\ Idle'
                        /\ \A i \in DOMAIN BootList : Settled(BootList[i])'
    BY DEF ServedInv
  <2>2. /\ phase = "boot" /\ text = served /\ List = BootList
        /\ \A i \in DOMAIN BootList : Settled(BootList[i])
    BY <1>1, <2>1 DEF NodeInv, ServedInv, List
  <2>3. phase' \in {"boot", "failed"}
    BY <1>1, <2>2
  <2>4. Idle'
    <3>1. Settled(p)
      BY <1>2, <2>2 DEF p
    <3>2. Skipped(p) \/ Stock(p) \/ DOMAIN Writes(text, p) = {}
      BY <3>1 DEF Settled, Writes
    <3> QED
      BY <1>1, <3>2 DEF Idle, NoWrites, none
  <2>5. \A i \in DOMAIN BootList : Settled(BootList[i])'
    BY <1>6, <2>2, <2>3, ListsOfScripts
  <2> QED
    BY <1>1, <2>2, <2>3, <2>4, <2>5
<1>9. /\ phase' \in {"build", "nobuild", "boot", "serving", "failed"}
      /\ phase' \notin {"build", "nobuild"} => phase \notin {"build", "nobuild"}
  BY <1>1
<1>10. script' \in 1..(Len(List') + 1)
  <2>1. CASE List' = List
    BY <1>1, <1>2, <2>1
  <2>2. CASE phase' \in {"nobuild", "failed"}
    <3>1. PICK n : n = Len(List)
      OBVIOUS
    <3>2. n \in {14, 17} /\ script \in Nat \ {0} /\ script <= n /\ script' = script + 1
      BY <1>1, <1>2, <3>1, ScriptsListed
    <3>3. script' \in 1..18
      BY <3>2
    <3>4. List' = BootList /\ Len(BootList) = 17
      BY <2>2, ListsOfScripts DEF List
    <3> QED
      BY <3>3, <3>4
  <2> QED
    BY <1>3, <2>1, <2>2
<1>11. TextInv(text)' /\ (phase' \notin {"build", "nobuild"} => TextInv(image)')
  BY <1>1, <1>9 DEF NodeInv
<1>12. mode' \in Settings \cup {BuildMode} /\ faults' \in 0..MaxFaults
  BY <1>1 DEF NodeInv
<1> QED
  BY <1>5, <1>7, <1>8, <1>9, <1>10, <1>11, <1>12 DEF NodeInv

\* A write leaves as the rest of the plan what a new run would plan.
LEMMA WriteKeeps ==
  ASSUME NodeInv, Write
  PROVE  NodeInv'
<1>1. PICK i \in DOMAIN plan : /\ IsNext(i) /\ text' = Put(text, plan[i])
                               /\ plan' = [j \in DOMAIN plan \ {i} |-> plan[j]]
  BY DEF Write
<1>2. UNCHANGED <<phase, script, image, mode, drift, omitted, served, faults>> /\ List' = List
  BY DEF Write, List
<1> DEFINE p == List[script - 1]
<1>3. /\ ~Idle /\ phase \in {"build", "boot"} /\ script - 1 \in DOMAIN List
      /\ plan = Writes(text, p) /\ p \in Patches /\ TextInv(text)
  <2>1. ~Idle
    BY DEF Idle
  <2> QED
    BY <2>1, ScriptsListed DEF NodeInv, PlanInv
<1> HIDE DEF p
<1>4. i \in Todo(text, p) /\ plan[i] = WriteOf(text, p, i) /\ DOMAIN plan = Todo(text, p)
      /\ \A j \in DOMAIN plan : plan[j] = WriteOf(text, p, j)
  BY <1>3 DEF Writes
<1>5. text' = Put(text, WriteOf(text, p, i))
  BY <1>1, <1>4
<1>6. /\ TextInv(text') /\ Todo(text', p) = Todo(text, p) \ {i}
      /\ \A j \in Todo(text', p) : WriteOf(text', p, j) = WriteOf(text, p, j)
      /\ \A q \in Patches \ {p, Yoco} : Todo(text', q) = Todo(text, q)
  <2> DEFINE u == text'
  <2>1. u = Put(text, WriteOf(text, p, i))
    BY <1>5
  <2> HIDE DEF u
  <2>2. /\ TextInv(u) /\ Todo(u, p) = Todo(text, p) \ {i}
        /\ \A j \in Todo(u, p) : WriteOf(u, p, j) = WriteOf(text, p, j)
    BY <1>3, <1>4, <2>1, PutKeepsText, RestOfPlan
  <2>3. \A q \in Patches \ {p, Yoco} : Todo(u, q) = Todo(text, q)
    BY <1>3, <1>4, <2>1, OthersKept
  <2> QED
    BY <2>2, <2>3 DEF u
<1>7. plan' = Writes(text', p) /\ DOMAIN plan' = Todo(text', p)
  <2>1. plan' = [j \in Todo(text', p) |-> WriteOf(text', p, j)]
    BY <1>1, <1>4, <1>6
  <2> QED
    BY <2>1 DEF Writes
<1>8. PlanInv'
  <2>1. List'[script' - 1] = p
    BY <1>2 DEF p
  <2> QED
    BY <1>2, <1>3, <1>7, <2>1 DEF PlanInv
<1>9. BootInv'
  <2>1. SUFFICES ASSUME phase' = "boot", NEW k \in 1..(script' - 1)
                 PROVE  Settled(BootList[k])' \/ (k = script' - 1 /\ ~Idle')
    BY DEF BootInv
  <2>2. /\ phase = "boot" /\ List = BootList /\ script - 1 \in 1..17 /\ k \in 1..(script - 1)
        /\ BootList[k] \in Patches /\ Todo(text, BootList[k])' = Todo(text', BootList[k])
    BY <1>2, <1>3, <2>1, ListsOfScripts DEF List
  <2>3. CASE k = script - 1
    <3>1. BootList[k] = p
      BY <2>2, <2>3 DEF p
    <3>2. Idle' => Todo(text', p) = {}
      BY <1>7 DEF Idle
    <3> QED
      BY <1>2, <2>2, <2>3, <3>1, <3>2 DEF Settled
  <2>4. CASE k # script - 1
    <3>1. BootList[k] # p /\ BootList[k] # Yoco
      <4>1. BootList[17] = Yoco /\ k \in 1..16 /\ 17 \in 1..17
        BY <2>2, <2>4 DEF BootList
      <4> QED
        BY <2>2, <2>4, <4>1, ListsOfScripts DEF p
    <3>2. Settled(BootList[k])
      BY <2>1, <2>2, <2>4 DEF NodeInv, BootInv
    <3>3. Todo(text', BootList[k]) = Todo(text, BootList[k])
      BY <1>6, <2>2, <3>1
    <3>4. /\ Skipped(BootList[k]) => Skipped(BootList[k])'
          /\ Stock(BootList[k]) => Stock(BootList[k])'
      BY <1>2 DEF Skipped, Stock
    <3> QED
      BY <2>2, <3>2, <3>3, <3>4 DEF Settled
  <2> QED
    BY <2>3, <2>4
<1>10. served' = None
  BY <1>2, <1>3 DEF NodeInv, ServedInv
<1>11. /\ phase' \in {"build", "nobuild", "boot", "serving", "failed"}
       /\ script' \in 1..(Len(List') + 1) /\ mode' \in Settings \cup {BuildMode}
       /\ faults' \in 0..MaxFaults
       /\ phase' \notin {"build", "nobuild"} => TextInv(image')
  BY <1>2 DEF NodeInv
<1> QED
  BY <1>6, <1>8, <1>9, <1>10, <1>11 DEF NodeInv, ServedInv

\* The container: what is created with the image's files, restarted, or serves.
LEMMA ContainerKeeps ==
  ASSUME NodeInv, Built \/ Serve \/ Restart \/ Recreate
  PROVE  NodeInv'
<1>1. CASE Built
  <2>1. /\ phase = "build" /\ Idle /\ phase' = "boot" /\ script' = 1 /\ image' = text
        /\ mode' \in Settings /\ UNCHANGED <<plan, text, served, faults>>
    BY <1>1 DEF Built
  <2>2. Idle' /\ served' = None
    BY <2>1 DEF Idle, NodeInv, ServedInv
  <2>3. TextInv(text') /\ TextInv(image')
    BY <2>1 DEF NodeInv
  <2>4. script' \in 1..(Len(List') + 1)
    BY <2>1, ListsOfScripts DEF List
  <2>5. PlanInv' /\ BootInv' /\ ServedInv'
    BY <2>1, <2>2 DEF PlanInv, BootInv, ServedInv
  <2> QED
    BY <2>1, <2>3, <2>4, <2>5 DEF NodeInv
<1>2. CASE Serve
  <2>1. /\ phase = "boot" /\ Idle /\ script > Len(List)
        /\ \/ phase' = "serving" /\ served' = (IF served = None THEN text ELSE served)
           \/ phase' = "failed" /\ served' = served
        /\ UNCHANGED <<script, plan, text, image, mode, drift, omitted, faults>>
    BY <1>2 DEF Serve
  <2>2. /\ Idle' /\ phase' \in {"serving", "failed"} /\ script \in 1..18 /\ script > 17
        /\ List' = BootList
    <3>1. List = BootList /\ List' = BootList /\ Len(BootList) = 17
      BY <2>1, ListsOfScripts DEF List
    <3>2. script \in 1..(Len(List) + 1)
      BY DEF NodeInv
    <3> QED
      BY <2>1, <3>1, <3>2 DEF Idle
  <2>3. \A i \in 1..17 : Settled(BootList[i])
    BY <2>1, <2>2 DEF NodeInv, BootInv
  <2>4. \A i \in 1..17 : Settled(BootList[i])'
    BY <2>1, <2>2, <2>3 DEF Settled, Skipped, Stock
  <2>5. served' # None => text' = served'
    BY <2>1 DEF NodeInv, ServedInv
  <2>6. PlanInv' /\ BootInv' /\ ServedInv'
    BY <2>2, <2>4, <2>5, ListsOfScripts DEF PlanInv, BootInv, ServedInv
  <2>7. TextInv(text') /\ TextInv(image')
    BY <2>1 DEF NodeInv
  <2>8. script' \in 1..(Len(List') + 1) /\ mode' \in Settings \cup {BuildMode} /\ faults' \in 0..MaxFaults
    BY <2>1, <2>2, ListsOfScripts DEF NodeInv
  <2> QED
    BY <2>2, <2>6, <2>7, <2>8 DEF NodeInv
<1>3. CASE Restart
  <2>1. /\ phase \in {"boot", "serving", "failed"} /\ faults < MaxFaults
        /\ phase' = "boot" /\ script' = 1 /\ plan' = NoWrites /\ faults' = faults + 1
        /\ UNCHANGED <<image, mode, drift, omitted, served>>
        /\ \/ text' = text
           \/ \E i \in DOMAIN plan : text' = Tear(text, plan[i].file)
    BY <1>3 DEF Restart
  <2>2. Idle' /\ List' = BootList
    BY <2>1 DEF Idle, NoWrites, List
  <2>3. TextInv(text')
    <3>1. CASE text' = text
      BY <3>1 DEF NodeInv
    <3>2. ASSUME NEW i \in DOMAIN plan, text' = Tear(text, plan[i].file) PROVE TextInv(text')
      <4> DEFINE p == List[script - 1]
      <4>1. plan = Writes(text, p) /\ p \in Patches /\ TextInv(text)
        BY ScriptsListed DEF NodeInv, PlanInv, Idle
      <4> HIDE DEF p
      <4>2. i \in Todo(text, p) /\ plan[i] = WriteOf(text, p, i) /\ i \in DOMAIN p.parts
        BY <3>2, <4>1 DEF Writes, Todo
      <4>3. plan[i].file = p.parts[i].file
        BY <4>2 DEF WriteOf
      <4>4. PICK e \in PartEdits(p, p.parts[i]) : TRUE
        <5>1. FoundIn(text, p, p.parts[i]) # {}
              /\ FoundIn(text, p, p.parts[i]) \subseteq PartEdits(p, p.parts[i])
          BY <4>2 DEF Todo, FoundIn
        <5> QED
          BY <5>1
      <4>5. plan[i].file \in Files
        BY <4>1, <4>2, <4>3, <4>4, EditsOwned
      <4> QED
        BY <3>2, <4>1, <4>5, TornText
    <3> QED
      BY <2>1, <3>1, <3>2
  <2>4. ServedInv'
    <3>1. SUFFICES ASSUME served' # None
                   PROVE  text' = served' /\ \A i \in DOMAIN BootList : Settled(BootList[i])'
      BY <2>1, <2>2 DEF ServedInv
    <3>2. /\ text = served /\ DOMAIN plan = {} /\ phase # "build"
          /\ \A i \in DOMAIN BootList : Settled(BootList[i])
      BY <2>1, <3>1 DEF NodeInv, ServedInv, Idle
    <3>3. text' = text
      BY <2>1, <3>2
    <3> QED
      BY <2>1, <3>2, <3>3 DEF Settled, Skipped, Stock
  <2>5. PlanInv' /\ BootInv'
    BY <2>1, <2>2 DEF PlanInv, BootInv
  <2>6. TextInv(image')
    BY <2>1 DEF NodeInv
  <2>7. /\ script' \in 1..(Len(List') + 1) /\ mode' \in Settings \cup {BuildMode}
        /\ faults' \in 0..MaxFaults
    <3>1. script' \in 1..(Len(List') + 1)
      BY <2>1, <2>2, ListsOfScripts
    <3>2. mode' \in Settings \cup {BuildMode}
      BY <2>1 DEF NodeInv
    <3>3. faults' \in 0..MaxFaults
      BY <2>1, NodeBootAssumption DEF NodeInv
    <3> QED
      BY <3>1, <3>2, <3>3
  <2> QED
    BY <2>1, <2>3, <2>4, <2>5, <2>6, <2>7 DEF NodeInv
<1>4. CASE Recreate
  <2>1. /\ phase \in {"boot", "serving", "failed"} /\ faults < MaxFaults
        /\ phase' = "boot" /\ script' = 1 /\ plan' = NoWrites /\ faults' = faults + 1
        /\ text' = image /\ served' = None /\ mode' \in Settings /\ UNCHANGED image
    BY <1>4 DEF Recreate
  <2>2. Idle' /\ List' = BootList
    BY <2>1 DEF Idle, NoWrites, List
  <2>3. TextInv(text') /\ TextInv(image')
    BY <2>1 DEF NodeInv
  <2>4. PlanInv' /\ BootInv' /\ ServedInv'
    BY <2>1, <2>2 DEF PlanInv, BootInv, ServedInv
  <2>5. script' \in 1..(Len(List') + 1) /\ faults' \in 0..MaxFaults
    <3>1. script' \in 1..(Len(List') + 1)
      BY <2>1, <2>2, ListsOfScripts
    <3>2. faults' \in 0..MaxFaults
      BY <2>1, NodeBootAssumption DEF NodeInv
    <3> QED
      BY <3>1, <3>2
  <2> QED
    BY <2>1, <2>3, <2>4, <2>5 DEF NodeInv
<1> QED
  BY <1>1, <1>2, <1>3, <1>4

\* Every step of a node keeps NodeInv.
LEMMA NodeSteps == NodeInv /\ [NodeNext]_nvars => NodeInv'
<1>1. ASSUME NodeInv, UNCHANGED nvars PROVE NodeInv'
  BY <1>1 DEF nvars, NodeInv, TextInv, PlanInv, BootInv, ServedInv, Idle, List, Settled, Skipped, Stock
<1> QED
  BY <1>1, RunKeeps, WriteKeeps, ContainerKeeps DEF NodeNext

(* For every drift of the base image, every older image and any number of      *)
(* restarts and new containers: what a running script has left to write is      *)
(* what a new run of it would plan, and a script that ran in this boot finds    *)
(* nothing to write any more (the patch scripts; start.sh's in-container loop). *)
THEOREM NodeInvariant == NodeSpec => []NodeInv
BY NodeStarts, NodeSteps, PTL DEF NodeSpec

(* No script ever makes a replacement a second time, in the build, in a boot or *)
(* in a boot after a kill, and a container that served and is restarted serves  *)
(* the same package (the presence checks of overlay/patch_*.py).                *)
THEOREM AppliedOnceOnly == NodeSpec => []Idempotent
<1>1. ASSUME NodeInv PROVE Idempotent
  <2>1. NodeTypes
    <3>1. script \in 1..(Len(BootList) + 1)
      <4>1. PICK n : n = Len(List)
        OBVIOUS
      <4>2. n \in {14, 17}
        BY <4>1, ScriptsListed
      <4>3. script \in 1..(n + 1)
        BY <1>1, <4>1 DEF NodeInv
      <4>4. script \in 1..18
        BY <4>2, <4>3
      <4> QED
        BY <4>4, ListsOfScripts
    <3>2. ~Idle => phase \in {"build", "boot"}
      BY <1>1 DEF NodeInv, PlanInv
    <3>3. ASSUME NEW i \in DOMAIN plan PROVE plan[i].edits \subseteq AllEdits
      <4> DEFINE p == List[script - 1]
      <4>1. plan = Writes(text, p) /\ p \in Patches /\ TextInv(text)
        BY <1>1, ScriptsListed DEF NodeInv, PlanInv, Idle
      <4> HIDE DEF p
      <4>2. i \in Todo(text, p) /\ plan[i] = WriteOf(text, p, i)
        BY <4>1 DEF Writes
      <4> QED
        BY <4>1, <4>2, WritesAreNew
    <3>4. /\ DOMAIN text.put = AllEdits /\ \A e \in AllEdits : text.put[e] \in 0..3
          /\ \A e \in AllEdits : text.anchor[e] \in 0..2
          /\ text.torn \cup text.absent \subseteq Files
      BY <1>1 DEF NodeInv, TextInv
    <3> QED
      BY <1>1, <3>1, <3>2, <3>3, <3>4 DEF NodeTypes, NodeInv
  <2>2. AppliedOnce
    BY <1>1 DEF NodeInv, TextInv, AppliedOnce
  <2>3. RestartStable
    BY <1>1 DEF NodeInv, ServedInv, RestartStable
  <2> QED
    BY <2>1, <2>2, <2>3 DEF Idempotent
<1> QED
  BY <1>1, NodeInvariant, PTL

-----------------------------------------------------------------------------

\* What is done is made, for a script that does not scan.
LEMMA DoneIsMade ==
  ASSUME NEW t, TextInv(t), FitText(t), NEW p \in Patches, p.present # "scan",
         NEW i \in DOMAIN p.parts, Done(t, p, p.parts[i]), NEW e \in PartEdits(p, p.parts[i])
  PROVE  t.put[e] = 1
<1>1. t.put[e] \in 0..1
  BY VisibleEdits
<1>2. CASE p.present = "mark"
  BY <1>2 DEF FitText, Done
<1>3. CASE p.present = "text"
  <2>1. Visible(t, e)
    BY <1>3 DEF Done
  <2> QED
    BY <1>1, <1>3, <2>1, Kinds, VisibleEdits
<1>4. CASE p.present = "verified"
  BY <1>4 DEF Done
<1> QED
  BY <1>2, <1>3, <1>4, Kinds

\* A script that misses nothing and has nothing left to write is in the package.
LEMMA SettledIsMade ==
  ASSUME NEW t, TextInv(t), FitText(t), NEW p \in Patches, p.present # "scan",
         Missing(t, p) = {}, Todo(t, p) = {}, ~Refused(t, p), NEW e \in Edits(p)
  PROVE  t.put[e] = 1
<1>1. PICK i \in DOMAIN p.parts : e \in PartEdits(p, p.parts[i])
  BY DEF Edits
<1>2. Done(t, p, p.parts[i])
  <2>1. Done(t, p, p.parts[i]) \/ Ready(t, p, p.parts[i])
    BY DEF Missing
  <2>2. FoundIn(t, p, p.parts[i]) # {}
    BY <1>1 DEF FoundIn
  <2> QED
    BY <2>1, <2>2 DEF Todo
<1> QED
  BY <1>1, <1>2, DoneIsMade

\* The scripts whose edits are one change in several files recognise them by a
\* mark or verify them, and write all or nothing.
LEMMA SeveralScripts ==
  ASSUME NEW p \in Several
  PROVE  /\ p \in Patches /\ p.whole /\ p.present \in {"mark", "verified"}
         /\ p \notin {LmHead, Sm120, ControlGuard, EngramSecondary, H2dStage}
         /\ \A t : ~Refused(t, p)
<1>1. p \in Patches
  BY DEF Several, Patches
<1>2. /\ p.whole /\ p.present \in {"mark", "verified"}
      /\ p \notin {LmHead, Sm120, ControlGuard, EngramSecondary, H2dStage}
  BY DEF Several, Grammar, SwaFinal, Yoco, LmHead, Sm120, ControlGuard, EngramSecondary, H2dStage, Patch
<1> QED
  BY <1>1, <1>2 DEF Refused

\* A write keeps FitText: it makes the edits of its part and marks them.
LEMMA FitPut ==
  ASSUME NEW t, TextInv(t), FitText(t), NEW p \in Patches, NEW i \in Todo(t, p),
         NEW u, u = Put(t, WriteOf(t, p, i))
  PROVE  FitText(u)
<1> DEFINE W == WriteOf(t, p, i).edits
<1>1. TextInv(u) /\ u.absent = t.absent /\ u.torn = t.torn
  BY PutKeepsText, PutText
<1>2. /\ i \in DOMAIN p.parts /\ W \subseteq PartEdits(p, p.parts[i])
      /\ p.present # "scan" => W = PartEdits(p, p.parts[i])
      /\ \A e \in W : e \in AllEdits /\ t.put[e] = 0
  BY WritesAreNew
<1>3. /\ t.mark \subseteq u.mark /\ u.mark \subseteq t.mark \cup {<<p.name, p.parts[i].file>>}
      /\ p.present \notin {"mark", "verified"} => u.mark = t.mark
      /\ p.present = "mark" => Marked(u, p, p.parts[i])
      /\ \A e \in W : u.put[e] = 1 /\ (t.anchor[e] = 1 => u.anchor[e] = 0 \/ e \in Keeps)
      /\ \A e \in AllEdits \ W : u.put[e] = t.put[e] /\ u.anchor[e] = t.anchor[e]
  BY PutText
<1>4. ASSUME NEW q \in Patches, q.present \in {"mark", "verified"}, NEW j \in DOMAIN q.parts,
             Marked(u, q, q.parts[j]), NEW e \in PartEdits(q, q.parts[j])
      PROVE  u.put[e] = 1
  <2>1. e \in AllEdits
    BY <1>4, EditsOwned
  <2>2. CASE Marked(t, q, q.parts[j])
    <3>1. t.put[e] = 1
      BY <1>4, <2>2 DEF FitText
    <3> QED
      BY <1>3, <2>1, <3>1
  <2>3. CASE ~Marked(t, q, q.parts[j])
    <3>1. q.name = p.name /\ q.parts[j].file = p.parts[i].file
      BY <1>3, <1>4, <2>3 DEF Marked
    <3>2. q = p
      BY <3>1, NamesDiffer
    <3>3. q \notin {LmHead, Sm120} /\ q.present # "scan"
      <4>1. Grammar \notin {LmHead, Sm120} /\ Spinwait \notin {LmHead, Sm120}
        BY DEF Grammar, Spinwait, LmHead, Sm120, Patch
      <4> QED
        BY <1>4, <4>1, Kinds
    <3>4. j = i
      BY <1>2, <1>4, <3>1, <3>2, <3>3, OneEach
    <3> QED
      BY <1>2, <1>3, <1>4, <3>2, <3>3, <3>4
  <2> QED
    BY <2>2, <2>3
<1>5. ASSUME t.torn = {}, NEW e \in AllEdits \ Drifted
      PROVE  /\ e[2] \notin u.absent
             /\ u.put[e] = 0 => u.anchor[e] = 1
             /\ u.put[e] = 1 => e # EncoderCheck /\ (u.anchor[e] = 0 \/ e \in Keeps)
  <2>1. /\ e[2] \notin t.absent
        /\ t.put[e] = 0 => t.anchor[e] = 1
        /\ t.put[e] = 1 => e # EncoderCheck /\ (t.anchor[e] = 0 \/ e \in Keeps)
    BY <1>5 DEF FitText
  <2>2. CASE e \in W
    <3>1. e # EncoderCheck
      BY <1>2, <2>2, EditsOwned
    <3> QED
      BY <1>1, <1>2, <1>3, <2>1, <2>2, <3>1
  <2>3. CASE e \notin W
    BY <1>1, <1>3, <2>1, <2>3
  <2> QED
    BY <2>2, <2>3
<1>6. ASSUME t.torn = {}, NEW q \in Patches, q.present = "mark", NEW j \in DOMAIN q.parts,
             NEW e \in PartEdits(q, q.parts[j]) \ Drifted, u.put[e] = 1
      PROVE  Marked(u, q, q.parts[j])
  <2>1. CASE e \in W
    <3>1. q = p /\ j = i
      BY <1>2, <1>6, <2>1, EditsOwned
    <3> QED
      BY <1>3, <1>6, <3>1
  <2>2. CASE e \notin W
    <3>1. t.put[e] = 1
      BY <1>3, <1>6, <2>2, EditsOwned
    <3>2. Marked(t, q, q.parts[j])
      BY <1>6, <3>1 DEF FitText
    <3> QED
      BY <1>3, <3>2 DEF Marked
  <2> QED
    BY <2>1, <2>2
<1>7. ASSUME t.torn = {}, NEW q \in Several
      PROVE  (\A e \in Edits(q) : u.put[e] = 0) \/ Missing(u, q) = {}
  <2>1. (\A e \in Edits(q) : t.put[e] = 0) \/ Missing(t, q) = {}
    BY <1>7 DEF FitText
  <2>2. CASE q = p
    <3>1. Missing(t, p) = {}
      BY <2>2, SeveralScripts DEF Todo
    <3> QED
      BY <2>2, <3>1, RestOfPlan
  <2>3. CASE q # p
    <3>1. q \in Patches /\ (Missing(t, q) = {} => Missing(u, q) = {})
      <4>1. CASE p = LmHead /\ q = Yoco
        BY <4>1, YocoKept DEF Patches
      <4>2. CASE p # LmHead \/ q # Yoco
        BY <2>3, <4>2, OthersKept, SeveralScripts
      <4> QED
        BY <4>1, <4>2
    <3>2. ASSUME NEW e \in Edits(q) PROVE u.put[e] = t.put[e]
      <4>1. PICK j \in DOMAIN q.parts : e \in PartEdits(q, q.parts[j])
        BY DEF Edits
      <4>2. e \in AllEdits \ W
        BY <1>2, <2>3, <3>1, <4>1, EditsOwned
      <4> QED
        BY <1>3, <4>2
    <3> QED
      BY <2>1, <3>1, <3>2
  <2> QED
    BY <2>2, <2>3
<1> QED
  BY <1>1, <1>4, <1>5, <1>6, <1>7 DEF FitText

\* A killed write keeps FitText: the file it cut off has no mark any more.
LEMMA FitTorn ==
  ASSUME NEW t, TextInv(t), FitText(t), NEW file \in Files, NEW u, u = Tear(t, file)
  PROVE  FitText(u) /\ u.torn # {} /\ \A e \in AllEdits : t.put[e] = 0 => u.put[e] = 0
<1>1. /\ u.mark = {m \in t.mark : m[2] # file} /\ u.torn = t.torn \cup {file}
      /\ u.put = [e \in AllEdits |-> IF e[2] = file THEN 0 ELSE t.put[e]]
  <2>1. t = [anchor |-> t.anchor, put |-> t.put, mark |-> t.mark, absent |-> t.absent,
             torn |-> t.torn]
    BY DEF TextInv
  <2>2. u = [t EXCEPT !.put = [e \in AllEdits |-> IF e[2] = file THEN 0 ELSE t.put[e]],
                      !.anchor = [e \in AllEdits |-> IF e[2] = file THEN 0 ELSE t.anchor[e]],
                      !.mark = {m \in @ : m[2] # file},
                      !.torn = @ \cup {file}]
    BY DEF Tear
  <2> QED
    BY <2>1, <2>2
<1>2. ASSUME NEW p \in Patches, p.present \in {"mark", "verified"}, NEW i \in DOMAIN p.parts,
             Marked(u, p, p.parts[i]), NEW e \in PartEdits(p, p.parts[i])
      PROVE  u.put[e] = 1
  <2>1. Marked(t, p, p.parts[i]) /\ p.parts[i].file # file
    BY <1>1, <1>2 DEF Marked
  <2>2. e \in AllEdits /\ e[2] = p.parts[i].file
    BY <1>2, EditsOwned
  <2>3. t.put[e] = 1
    BY <1>2, <2>1 DEF FitText
  <2> QED
    BY <1>1, <2>1, <2>2, <2>3
<1> QED
  BY <1>1, <1>2 DEF FitText

\* The base image satisfies FitText, unless it has a part of an optional
\* script.
LEMMA FitBase ==
  ASSUME ~HalfMerged, drift \in {{}} \cup {{d} : d \in Drifts}
  PROVE  /\ FitText(Base(drift)) /\ Base(drift).torn = {}
         /\ \A p \in {SwaFinal, Yoco} : NoneOf(Base(drift), p)
<1> DEFINE at(kind) == {x[1] : x \in {y \in drift : y[2] = kind}}
           absent == {e[2] : e \in at("nofile")}
           t == Base(drift)
<1>1. /\ t.anchor = [e \in AllEdits |->
                      IF e[2] \in absent \/ e \in at("gone") \cup at("upstream") THEN 0
                      ELSE IF e \in at("twice") THEN 2 ELSE 1]
      /\ t.put = [e \in AllEdits |-> IF e \in at("upstream") THEN 1 ELSE 0]
      /\ t.mark = {} /\ t.absent = absent /\ t.torn = {}
  BY DEF Base
<1>2. drift \subseteq Drifts /\ \A x, y \in drift : x = y
  OBVIOUS
<1>3. \A e \in AllEdits \ Drifted :
        /\ e[2] \notin absent
        /\ \A kind : e \notin at(kind)
  BY DEF Drifted
<1>4. TextInv(t)
  BY <1>2, BaseText
<1> HIDE DEF t
<1>5. \A e \in AllEdits \ Drifted : e[2] \notin t.absent /\ t.put[e] = 0 /\ t.anchor[e] = 1
  <2> HIDE DEF at, absent
  <2> QED
    BY <1>1, <1>3
<1>6. \A p \in Patches : \A i \in DOMAIN p.parts : ~Marked(t, p, p.parts[i])
  BY <1>1 DEF Marked
<1>7. \A e \in AllEdits : t.put[e] = 1 => \E d \in drift : d[1] = e /\ d[2] = "upstream"
  BY <1>1
<1>8. \A e \in AllEdits : t.put[e] \in 0..1
  BY <1>4 DEF TextInv
<1>9. ASSUME NEW p \in {SwaFinal, Yoco} PROVE NoneOf(t, p)
  <2>1. \A e \in Edits(p) : e \in AllEdits /\ ~\E d \in drift : d[1] = e /\ d[2] = "upstream"
    <3>1. p \in Patches
      BY DEF Patches
    <3>2. \A e \in Edits(p) : e \in AllEdits
      BY <3>1, EditsOwned DEF Edits
    <3> QED
      BY <1>2, <1>9, <3>2 DEF HalfMerged
  <2> QED
    BY <1>7, <1>8, <2>1 DEF NoneOf
<1>10. ASSUME NEW p \in Several
       PROVE  (\A e \in Edits(p) : t.put[e] = 0) \/ Missing(t, p) = {}
  <2>1. CASE p \in {SwaFinal, Yoco}
    BY <1>9, <2>1 DEF NoneOf
  <2>2. CASE p = Grammar /\ \E e \in Edits(p) : t.put[e] # 0
    <3>1. p \in Patches /\ p.present = "verified" /\ p \notin {LmHead, Sm120} /\ ~Loose(p)
      <4>1. Grammar.present = "verified" /\ Grammar \in Patches /\ Grammar \notin {LmHead, Sm120}
        BY DEF Grammar, Patches, LmHead, Sm120, Patch
      <4> QED
        BY <2>2, <4>1, Kinds
    <3>2. PICK g \in Edits(p) : t.put[g] # 0
      BY <2>2
    <3>3. PICK k \in DOMAIN p.parts : g \in PartEdits(p, p.parts[k])
      BY DEF Edits
    <3>4. g \in AllEdits /\ t.put[g] = 1
      BY <1>8, <3>1, <3>2, <3>3, EditsOwned
    <3>5. drift = {<<g, "upstream">>} \/ \A d \in drift : d[1] = g /\ d[2] = "upstream"
      BY <1>2, <1>7, <3>4
    <3>6. absent = {} /\ at("gone") = {} /\ at("twice") = {} /\ at("upstream") \subseteq {g}
      BY <3>5
    <3>7. t.anchor[g] = 0 /\ \A e \in AllEdits \ {g} : t.put[e] = 0 /\ t.anchor[e] = 1
      <4>1. g \in at("upstream")
        BY <1>7, <3>4
      <4> HIDE DEF absent, at
      <4> QED
        BY <1>1, <3>4, <3>6, <4>1
    <3>8. ASSUME NEW j \in DOMAIN p.parts PROVE Done(t, p, p.parts[j]) \/ Ready(t, p, p.parts[j])
      <4>1. p.parts[j].file \notin t.absent
        BY <1>1, <3>6
      <4>2. \A e \in PartEdits(p, p.parts[j]) : e \in AllEdits /\ e = <<p.name, p.parts[j].file, "all">>
        BY <3>1, EditsOwned, OneEach DEF PartEdits
      <4>3. CASE j = k
        <5>1. \A e \in PartEdits(p, p.parts[j]) : e = g
          BY <3>3, <4>2, <4>3
        <5> QED
          BY <3>1, <3>4, <3>7, <4>1, <5>1 DEF Done
      <4>4. CASE j # k
        <5>1. \A e \in PartEdits(p, p.parts[j]) : t.put[e] = 0 /\ t.anchor[e] = 1
          BY <3>1, <3>3, <3>7, <4>2, <4>4, EditsOwned
        <5>2. FoundIn(t, p, p.parts[j]) = PartEdits(p, p.parts[j])
          BY <3>1 DEF FoundIn
        <5>3. \A r \in Rewritten : r[2] \notin PartEdits(p, p.parts[j])
          <6>1. p # Yoco
            BY <3>1 DEF Yoco, Patch
          <6> QED
            BY <3>1, <6>1, Rewrites
        <5> QED
          BY <1>6, <3>1, <4>1, <5>1, <5>2, <5>3 DEF Ready, Anchored
      <4> QED
        BY <4>3, <4>4
    <3> QED
      BY <3>8 DEF Missing
  <2> QED
    BY <2>1, <2>2 DEF Several
<1>11. FitText(t)
  <2>1. \A e \in AllEdits \ Drifted :
              /\ e[2] \notin t.absent
              /\ t.put[e] = 0 => t.anchor[e] = 1
              /\ t.put[e] = 1 => e # EncoderCheck /\ (t.anchor[e] = 0 \/ e \in Keeps)
    BY <1>5
  <2>2. \A p \in Patches : p.present = "mark" =>
              \A i \in DOMAIN p.parts : \A e \in PartEdits(p, p.parts[i]) \ Drifted :
                  t.put[e] = 1 => Marked(t, p, p.parts[i])
    <3>1. \A p \in Patches : \A i \in DOMAIN p.parts : PartEdits(p, p.parts[i]) \subseteq AllEdits
      BY EditsOwned
    <3> QED
      BY <1>5, <3>1
  <2> QED
    BY <1>6, <1>10, <2>1, <2>2 DEF FitText
<1> QED
  BY <1>1, <1>9, <1>11 DEF t

\* A script writes none of another one's edits, and takes none back.
LEMMA PutOnlyOwn ==
  ASSUME NEW t, TextInv(t), NEW p \in Patches, NEW i \in Todo(t, p),
         NEW u, u = Put(t, WriteOf(t, p, i))
  PROVE  /\ \A q \in Patches \ {p} : \A e \in Edits(q) : u.put[e] = t.put[e]
         /\ \A e \in AllEdits : t.put[e] = 1 => u.put[e] = 1
<1>1. /\ i \in DOMAIN p.parts
      /\ WriteOf(t, p, i).edits \subseteq PartEdits(p, p.parts[i])
  BY WritesAreNew
<1>2. /\ \A e \in WriteOf(t, p, i).edits : u.put[e] = 1
      /\ \A e \in AllEdits \ WriteOf(t, p, i).edits : u.put[e] = t.put[e]
  BY PutText
<1>3. ASSUME NEW q \in Patches \ {p}, NEW e \in Edits(q) PROVE u.put[e] = t.put[e]
  <2>1. PICK j \in DOMAIN q.parts : e \in PartEdits(q, q.parts[j])
    BY DEF Edits
  <2>2. e \in AllEdits \ WriteOf(t, p, i).edits
    BY <1>1, <2>1, EditsOwned
  <2> QED
    BY <1>2, <2>2
<1> QED
  BY <1>2, <1>3

\* The two optional scripts, and the part of the staged copy the helper is in.
LEMMA OptionalScripts ==
  /\ SwaFinal \in Several /\ Yoco \in Several /\ SwaFinal # Yoco
  /\ H2dStage \in Patches /\ Helper \in Edits(H2dStage) /\ Helper \in AllEdits
  /\ H2dStage.present = "mark" /\ BuildList[10] = H2dStage
  /\ H2dStage \notin {ControlGuard, EngramSecondary, Spinwait, Yoco, SwaFinal,
                      Suppress, DecodeFloor, Grammar}
<1>1. /\ H2dStage.present = "mark" /\ BuildList[10] = H2dStage
      /\ H2dStage \notin {ControlGuard, EngramSecondary, Spinwait, Yoco, SwaFinal,
                          Suppress, DecodeFloor, Grammar}
      /\ SwaFinal # Yoco
  BY DEF BuildList, H2dStage, ControlGuard, EngramSecondary, Spinwait, Yoco, SwaFinal,
         Suppress, DecodeFloor, Grammar, Patch
<1>2. 1 \in DOMAIN H2dStage.parts /\ Helper \in PartEdits(H2dStage, H2dStage.parts[1])
  BY DEF H2dStage, Helper, Patch, Each, Piece, PartEdits
<1>3. H2dStage \in Patches
  BY DEF Patches
<1> QED
  BY <1>1, <1>2, <1>3, EditsOwned DEF Edits, Several

\* The edits of a script are edits.
LEMMA EditsTyped ==
  ASSUME NEW p \in Patches, NEW e \in Edits(p)
  PROVE  e \in AllEdits
BY EditsOwned DEF Edits

\* docker build starts in FitInv.
LEMMA FitStarts == ~HalfMerged /\ NodeInit => FitInv
<1> SUFFICES ASSUME ~HalfMerged, NodeInit PROVE FitInv
  OBVIOUS
<1>1. /\ phase = "build" /\ script = 1 /\ plan = NoWrites /\ text = Base(drift)
      /\ mode = BuildMode /\ drift \in {{}} \cup {{d} : d \in Drifts}
  BY DEF NodeInit
<1>2. NodeInv
  BY NodeStarts
<1>3. FitText(text) /\ text.torn = {} /\ \A p \in {SwaFinal, Yoco} : NoneOf(text, p)
  BY <1>1, FitBase
<1>4. Idle
  BY <1>1 DEF Idle, NoWrites
<1> QED
  BY <1>1, <1>2, <1>3, <1>4 DEF FitInv, MustInv

\* A script that starts keeps FitInv: one that must succeed has every part done
\* or ready.
LEMMA FitRun ==
  ASSUME FitInv, Run
  PROVE  FitInv'
<1> DEFINE p == List[script]
           fatal == ~Skipped(p) /\ Errs(p) /\ ~Tolerated(p)
           none == fatal \/ Skipped(p) \/ CheckOnly(p) \/ Stock(p)
<1>1. /\ phase \in {"build", "boot"} /\ Idle /\ script <= Len(List) /\ script' = script + 1
      /\ phase' = IF ~fatal THEN phase ELSE IF phase = "build" THEN "nobuild" ELSE "failed"
      /\ plan' = IF none THEN NoWrites ELSE Writes(text, p)
      /\ UNCHANGED <<text, image, mode, drift, omitted, served, faults>>
  BY DEF Run
<1>2. script \in Nat \ {0} /\ NodeInv
  BY DEF FitInv, NodeInv
<1>3. NodeInv'
  BY <1>2, RunKeeps
<1>4. ~fatal => phase' = phase /\ List' = List
  BY <1>1 DEF List
<1>5. ~fatal /\ Must(p) => Missing(text, p) = {}
  BY DEF Must, Errs, Fails
<1> HIDE DEF fatal, p
<1>6. fatal => none
  OBVIOUS
<1> HIDE DEF none
<1>7. none => Idle'
  BY <1>1 DEF Idle, NoWrites
<1>8. MustInv'
  <2>1. SUFFICES ASSUME phase' \in {"build", "boot"}, NEW i \in 1..(script' - 1), Must(List[i])'
                 PROVE  /\ Missing(text', List'[i]) = {}
                        /\ Todo(text', List'[i]) = {} \/ (i = script' - 1 /\ ~Idle')
    BY DEF MustInv
  <2>2. ~fatal /\ phase' = phase /\ List' = List /\ i \in 1..script
    BY <1>1, <1>2, <1>4, <2>1
  <2>3. Must(List[i])
    <3>1. \A q : Must(q)' => Must(q)
      BY <1>1, <2>2 DEF Must, Skipped, CheckOnly, Stock, Tolerated
    <3>2. List[i]' = List[i]
      BY <2>2
    <3> QED
      BY <2>1, <3>1, <3>2
  <2>4. CASE i < script
    BY <1>1, <1>2, <2>2, <2>3, <2>4 DEF FitInv, MustInv
  <2>5. CASE i = script
    <3>1. List[i] = p /\ Missing(text, p) = {}
      BY <1>5, <2>2, <2>3, <2>5 DEF p
    <3>2. ~none
      BY <2>2, <2>3, <3>1 DEF none, Must
    <3>3. Idle' => Todo(text, p) = {}
      BY <1>1, <3>2 DEF Idle, Writes
    <3>4. List'[i] = p /\ text' = text
      BY <1>1, <2>2, <3>1
    <3>5. i = script' - 1
      BY <1>1, <1>2, <2>5
    <3> QED
      BY <3>1, <3>3, <3>4, <3>5
  <2> QED
    BY <1>2, <2>2, <2>4, <2>5
<1>9. ~Idle' => ~Off(List[script - 1])'
  <2>1. SUFFICES ASSUME ~Idle' PROVE ~Off(List[script - 1])'
    OBVIOUS
  <2>2. ~none /\ ~fatal /\ List' = List /\ script' - 1 = script
    BY <1>1, <1>2, <1>4, <1>6, <1>7, <2>1
  <2>3. ~Skipped(p) /\ ~CheckOnly(p)
    BY <2>2 DEF none
  <2>4. ~Off(p)
    BY <1>1, <2>3 DEF Off, Skipped, CheckOnly
  <2> QED
    BY <1>1, <2>2, <2>4 DEF Off, p
<1>10. FitText(text)' /\ (phase' \notin {"build", "nobuild"} => FitText(image)')
  BY <1>1 DEF FitInv, FitText, Drifted
<1>11. \A q \in {SwaFinal, Yoco} : Off(q)' => NoneOf(text', q)
  BY <1>1 DEF FitInv, Off
<1>12. /\ phase' \in {"build", "nobuild"} => text'.torn = {} /\ mode' = BuildMode
       /\ phase' \notin {"build", "nobuild"} =>
            /\ image'.torn = {} /\ NoneOf(image', SwaFinal) /\ NoneOf(image', Yoco)
            /\ omitted' = {} => image'.put[Helper] = 1 /\ (text'.torn = {} => text'.put[Helper] = 1)
       /\ phase' # "serving"
  BY <1>1 DEF FitInv
<1> QED
  BY <1>3, <1>8, <1>9, <1>10, <1>11, <1>12 DEF FitInv

\* A write keeps FitInv.
LEMMA FitWrite ==
  ASSUME FitInv, Write
  PROVE  FitInv'
<1>1. PICK i \in DOMAIN plan : /\ IsNext(i) /\ text' = Put(text, plan[i])
                               /\ plan' = [j \in DOMAIN plan \ {i} |-> plan[j]]
  BY DEF Write
<1>2. /\ UNCHANGED <<phase, script, image, mode, drift, omitted, served, faults>> /\ List' = List
      /\ phase \in {"build", "boot"}
  BY DEF Write, List
<1> DEFINE p == List[script - 1]
<1>3. ~Idle /\ NodeInv
  BY DEF Idle, FitInv
<1>4. NodeInv'
  BY <1>3, WriteKeeps
<1>5. plan = Writes(text, p) /\ p \in Patches /\ TextInv(text) /\ FitText(text) /\ ~Off(p)
  BY <1>3, ScriptsListed DEF NodeInv, PlanInv, FitInv
<1> HIDE DEF p
<1>6. i \in Todo(text, p) /\ plan[i] = WriteOf(text, p, i) /\ DOMAIN plan = Todo(text, p)
  BY <1>5 DEF Writes
<1>7. /\ FitText(text') /\ text'.torn = text.torn
      /\ Todo(text', p) = Todo(text, p) \ {i} /\ Missing(text', p) = Missing(text, p)
      /\ \A q \in Patches \ {p, Yoco} :
            Todo(text', q) = Todo(text, q) /\ Missing(text', q) = Missing(text, q)
      /\ \A q \in Patches \ {p} : \A e \in Edits(q) : text'.put[e] = text.put[e]
      /\ \A e \in AllEdits : text.put[e] = 1 => text'.put[e] = 1
  <2> DEFINE u == text'
  <2>1. u = Put(text, WriteOf(text, p, i))
    BY <1>1, <1>6
  <2> HIDE DEF u
  <2>2. FitText(u) /\ u.torn = text.torn
    BY <1>5, <1>6, <2>1, FitPut, PutText
  <2>3. Todo(u, p) = Todo(text, p) \ {i} /\ Missing(u, p) = Missing(text, p)
    BY <1>5, <1>6, <2>1, RestOfPlan
  <2>4. \A q \in Patches \ {p, Yoco} :
            Todo(u, q) = Todo(text, q) /\ Missing(u, q) = Missing(text, q)
    BY <1>5, <1>6, <2>1, OthersKept
  <2>5. /\ \A q \in Patches \ {p} : \A e \in Edits(q) : u.put[e] = text.put[e]
        /\ \A e \in AllEdits : text.put[e] = 1 => u.put[e] = 1
    BY <1>5, <1>6, <2>1, PutOnlyOwn
  <2> QED
    BY <2>2, <2>3, <2>4, <2>5 DEF u
<1>8. FitText(text)' /\ (phase' \notin {"build", "nobuild"} => FitText(image)')
  <2>1. Drifted' = Drifted
    BY <1>2 DEF Drifted
  <2> QED
    BY <1>2, <1>7, <2>1 DEF FitInv, FitText
<1>9. MustInv'
  <2>1. SUFFICES ASSUME phase' \in {"build", "boot"}, NEW k \in 1..(script' - 1), Must(List[k])'
                 PROVE  /\ Missing(text', List'[k]) = {}
                        /\ Todo(text', List'[k]) = {} \/ (k = script' - 1 /\ ~Idle')
    BY DEF MustInv
  <2>2. /\ Must(List[k]) /\ k \in 1..(script - 1)
    BY <1>2, <2>1 DEF Must, Skipped, CheckOnly, Stock, Tolerated
  <2>3. /\ Missing(text, List[k]) = {}
        /\ Todo(text, List[k]) = {} \/ (k = script - 1 /\ ~Idle)
    BY <1>2, <2>2 DEF FitInv, MustInv
  <2>4. CASE List[k] = p
    <3>1. k = script - 1
      BY <1>6, <2>3, <2>4
    <3>2. DOMAIN plan' = Todo(text', p)
      BY <1>1, <1>6, <1>7
    <3> QED
      BY <1>2, <1>7, <2>3, <2>4, <3>1, <3>2 DEF Idle
  <2>5. CASE List[k] # p
    <3>1. List[k] \in Patches
      <4>1. script \in 1..(Len(List) + 1) /\ DOMAIN List = 1..Len(List) /\ Len(List) \in Nat
        BY <1>3, ScriptsListed DEF NodeInv
      <4>2. k \in DOMAIN List
        BY <2>2, <4>1
      <4> QED
        BY <4>2, ScriptsListed
    <3>2. k # script - 1
      BY <2>5 DEF p
    <3>3. List[k] # Yoco
      <4>1. CASE phase = "build"
        BY <2>2, <4>1 DEF Must, CheckOnly
      <4>2. CASE phase = "boot"
        <5>1. List = BootList /\ script - 1 \in 1..17 /\ BootList[17] = Yoco
          BY <1>3, <4>2, ScriptsListed, ListsOfScripts DEF List, NodeInv, PlanInv, BootList
        <5>2. k \in 1..16 /\ 17 \in 1..17
          BY <2>2, <3>2, <5>1
        <5> QED
          BY <5>1, <5>2, ListsOfScripts
      <4> QED
        BY <1>2, <4>1, <4>2
    <3> QED
      BY <1>2, <1>7, <2>3, <2>5, <3>1, <3>2, <3>3
  <2> QED
    BY <2>4, <2>5
<1>10. ASSUME NEW q \in {SwaFinal, Yoco}, Off(q)' PROVE NoneOf(text', q)
  <2>1. Off(q)
    BY <1>2, <1>10 DEF Off
  <2>2. NoneOf(text, q) /\ q # p /\ q \in Patches
    BY <1>5, <2>1, OptionalScripts, SeveralScripts DEF FitInv
  <2> QED
    BY <1>7, <2>2 DEF NoneOf
<1>11. ~Idle' => ~Off(List[script - 1])'
  BY <1>2, <1>5 DEF Off, p
<1>12. /\ phase' \in {"build", "nobuild"} => text'.torn = {} /\ mode' = BuildMode
       /\ phase' \notin {"build", "nobuild"} =>
            /\ image'.torn = {} /\ NoneOf(image', SwaFinal) /\ NoneOf(image', Yoco)
            /\ omitted' = {} => image'.put[Helper] = 1 /\ (text'.torn = {} => text'.put[Helper] = 1)
       /\ phase' # "serving"
  BY <1>2, <1>7, OptionalScripts DEF FitInv
<1> QED
  BY <1>4, <1>8, <1>9, <1>10, <1>11, <1>12 DEF FitInv

\* The end of the build and the first container keep FitInv.
LEMMA FitBuilt ==
  ASSUME FitInv, Built
  PROVE  FitInv'
<1>1. /\ phase = "build" /\ Idle /\ script > Len(List) /\ phase' = "boot" /\ script' = 1
      /\ image' = text /\ UNCHANGED <<plan, text, drift, omitted, served, faults>>
  BY DEF Built
<1>2. NodeInv /\ NodeInv' /\ Idle'
  BY <1>1, ContainerKeeps DEF FitInv, Idle
<1>3. /\ FitText(text) /\ text.torn = {} /\ mode = BuildMode
      /\ NoneOf(text, SwaFinal) /\ NoneOf(text, Yoco)
  BY <1>1 DEF FitInv, Off, BuildMode
<1>4. omitted = {} => text.put[Helper] = 1
  <2>1. SUFFICES ASSUME omitted = {} PROVE text.put[Helper] = 1
    OBVIOUS
  <2>2. List = BuildList /\ script > 14 /\ script \in Nat
    <3>1. List = BuildList
      BY <1>1 DEF List
    <3>2. script \in 1..(Len(List) + 1)
      BY <1>2 DEF NodeInv
    <3> QED
      BY <1>1, <3>1, <3>2, ListsOfScripts
  <2>3. Must(H2dStage)
    BY <1>1, <2>1, OptionalScripts DEF Must, Skipped, CheckOnly, Stock, Tolerated
  <2>4. Missing(text, H2dStage) = {} /\ Todo(text, H2dStage) = {}
    <3>1. 10 \in 1..(script - 1) /\ List[10] = H2dStage
      BY <2>2, OptionalScripts
    <3> QED
      BY <1>1, <2>3, <3>1 DEF FitInv, MustInv
  <2>5. ~Refused(text, H2dStage)
    BY OptionalScripts DEF Refused
  <2> QED
    BY <1>2, <1>3, <2>4, <2>5, OptionalScripts, SettledIsMade DEF NodeInv
<1>5. FitText(text)' /\ FitText(image)'
  BY <1>1, <1>3 DEF FitText, Drifted
<1> QED
  BY <1>1, <1>2, <1>3, <1>4, <1>5 DEF FitInv, MustInv, NoneOf

\* exec vllm serve keeps FitInv.
LEMMA FitServe ==
  ASSUME FitInv, Serve
  PROVE  FitInv'
<1>1. /\ phase = "boot" /\ Idle /\ script > Len(List) /\ phase' \in {"serving", "failed"}
      /\ phase' = "serving" => text.torn = {}
      /\ UNCHANGED <<script, plan, text, image, mode, drift, omitted, faults>>
  BY DEF Serve
<1>2. NodeInv /\ NodeInv' /\ Idle' /\ List = BootList /\ List' = BootList
  BY <1>1, ContainerKeeps DEF FitInv, Idle, List
<1>3. ASSUME NEW i \in DOMAIN BootList
      PROVE  /\ Settled(BootList[i])'
             /\ Must(BootList[i])' => Missing(text', BootList[i]) = {}
  <2>1. i \in 1..(script - 1) /\ script \in Nat
    BY <1>1, <1>2, ListsOfScripts DEF NodeInv
  <2>2. Settled(BootList[i])
    BY <1>1, <1>2, <2>1 DEF NodeInv, BootInv
  <2>3. Must(BootList[i]) => Missing(text, BootList[i]) = {}
    BY <1>1, <1>2, <2>1 DEF FitInv, MustInv
  <2> QED
    BY <1>1, <2>2, <2>3 DEF Settled, Must, Skipped, Stock, CheckOnly, Tolerated
<1>4. FitText(text)' /\ FitText(image)'
  BY <1>1 DEF FitInv, FitText, Drifted
<1>5. \A q \in {SwaFinal, Yoco} : Off(q)' => NoneOf(text', q)
  BY <1>1 DEF FitInv, Off
<1>6. /\ image'.torn = {} /\ NoneOf(image', SwaFinal) /\ NoneOf(image', Yoco)
      /\ omitted' = {} => image'.put[Helper] = 1 /\ (text'.torn = {} => text'.put[Helper] = 1)
  BY <1>1 DEF FitInv
<1> QED
  BY <1>1, <1>2, <1>3, <1>4, <1>5, <1>6 DEF FitInv, MustInv

\* A restart keeps FitInv, also when it cuts a write off.
LEMMA FitRestart ==
  ASSUME FitInv, Restart
  PROVE  FitInv'
<1>1. /\ phase \in {"boot", "serving", "failed"} /\ phase' = "boot" /\ script' = 1
      /\ plan' = NoWrites /\ UNCHANGED <<image, mode, drift, omitted, served>>
      /\ \/ text' = text
         \/ \E i \in DOMAIN plan : text' = Tear(text, plan[i].file)
  BY DEF Restart
<1>2. NodeInv /\ NodeInv' /\ Idle'
  BY <1>1, ContainerKeeps DEF FitInv, Idle, NoWrites
<1>3. \/ text' = text
      \/ /\ FitText(text') /\ text'.torn # {}
         /\ \A e \in AllEdits : text.put[e] = 0 => text'.put[e] = 0
  <2>1. ASSUME NEW i \in DOMAIN plan, text' = Tear(text, plan[i].file)
        PROVE  /\ FitText(text') /\ text'.torn # {}
               /\ \A e \in AllEdits : text.put[e] = 0 => text'.put[e] = 0
    <3> DEFINE p == List[script - 1]
    <3>1. plan = Writes(text, p) /\ p \in Patches /\ TextInv(text) /\ FitText(text)
      BY <1>2, ScriptsListed DEF NodeInv, PlanInv, Idle, FitInv
    <3> HIDE DEF p
    <3>2. i \in Todo(text, p) /\ plan[i] = WriteOf(text, p, i) /\ i \in DOMAIN p.parts
      BY <2>1, <3>1 DEF Writes, Todo
    <3>3. PICK e \in PartEdits(p, p.parts[i]) : TRUE
      <4>1. FoundIn(text, p, p.parts[i]) # {}
            /\ FoundIn(text, p, p.parts[i]) \subseteq PartEdits(p, p.parts[i])
        BY <3>2 DEF Todo, FoundIn
      <4> QED
        BY <4>1
    <3>4. plan[i].file \in Files
      BY <3>1, <3>2, <3>3, EditsOwned DEF WriteOf
    <3> QED
      BY <2>1, <3>1, <3>4, FitTorn
  <2> QED
    BY <1>1, <2>1
<1>4. FitText(text)' /\ FitText(image)'
  <2>1. Drifted' = Drifted
    BY <1>1 DEF Drifted
  <2>2. FitText(text) /\ FitText(image)
    BY <1>1 DEF FitInv
  <2> QED
    BY <1>1, <1>3, <2>1, <2>2 DEF FitText
<1>5. ASSUME NEW q \in {SwaFinal, Yoco}, Off(q)' PROVE NoneOf(text', q)
  <2>1. NoneOf(text, q) /\ q \in Patches
    BY <1>1, <1>5, OptionalScripts, SeveralScripts DEF FitInv, Off
  <2> QED
    BY <1>3, <2>1, EditsTyped DEF NoneOf
<1>6. /\ image'.torn = {} /\ NoneOf(image', SwaFinal) /\ NoneOf(image', Yoco)
      /\ omitted' = {} => image'.put[Helper] = 1 /\ (text'.torn = {} => text'.put[Helper] = 1)
  BY <1>1, <1>3 DEF FitInv
<1> QED
  BY <1>1, <1>2, <1>4, <1>5, <1>6 DEF FitInv, MustInv

\* A new container keeps FitInv: it has the package of the image.
LEMMA FitRecreate ==
  ASSUME FitInv, Recreate
  PROVE  FitInv'
<1>1. /\ phase \in {"boot", "serving", "failed"} /\ phase' = "boot" /\ script' = 1
      /\ plan' = NoWrites /\ text' = image /\ UNCHANGED <<image, drift, omitted>>
  BY DEF Recreate
<1>2. NodeInv' /\ Idle'
  BY <1>1, ContainerKeeps DEF FitInv, Idle, NoWrites
<1>3. /\ FitText(image) /\ image.torn = {} /\ NoneOf(image, SwaFinal) /\ NoneOf(image, Yoco)
      /\ omitted = {} => image.put[Helper] = 1
  BY <1>1 DEF FitInv
<1>4. FitText(text)' /\ FitText(image)'
  BY <1>1, <1>3 DEF FitText, Drifted
<1> QED
  BY <1>1, <1>2, <1>3, <1>4 DEF FitInv, MustInv

\* Every step of a node keeps FitInv.
LEMMA FitSteps == FitInv /\ [NodeNext]_nvars => FitInv'
<1>1. ASSUME FitInv, UNCHANGED nvars PROVE FitInv'
  <2>1. NodeInv'
    BY <1>1, NodeSteps DEF FitInv
  <2>2. FitText(text)' /\ (phase' \notin {"build", "nobuild"} => FitText(image)')
    BY <1>1 DEF nvars, FitInv, FitText, Drifted
  <2>3. /\ UNCHANGED <<phase, script, plan, text, image, mode, omitted>>
        /\ Idle' = Idle /\ List' = List
    BY <1>1 DEF nvars, Idle, List
  <2>4. \A q : /\ Must(q)' = Must(q) /\ Settled(q)' = Settled(q) /\ Off(q)' = Off(q)
    BY <2>3 DEF Must, Settled, Off, Skipped, CheckOnly, Stock, Tolerated
  <2>5. MustInv'
    BY <1>1, <2>3, <2>4 DEF FitInv, MustInv
  <2>6. /\ \A p \in {SwaFinal, Yoco} : Off(p)' => NoneOf(text', p)
        /\ ~Idle' => ~Off(List[script - 1])'
    BY <1>1, <2>3, <2>4 DEF FitInv
  <2>7. phase' = "serving" =>
          /\ text'.torn = {}
          /\ \A i \in DOMAIN BootList :
               /\ Settled(BootList[i])'
               /\ Must(BootList[i])' => Missing(text', BootList[i]) = {}
    BY <1>1, <2>3, <2>4 DEF FitInv
  <2>8. /\ phase' \in {"build", "nobuild"} => text'.torn = {} /\ mode' = BuildMode
        /\ phase' \notin {"build", "nobuild"} =>
             /\ image'.torn = {} /\ NoneOf(image', SwaFinal) /\ NoneOf(image', Yoco)
             /\ omitted' = {} => image'.put[Helper] = 1 /\ (text'.torn = {} => text'.put[Helper] = 1)
    BY <1>1, <2>3 DEF FitInv
  <2> QED
    BY <2>1, <2>2, <2>5, <2>6, <2>7, <2>8 DEF FitInv
<1> QED
  BY <1>1, FitRun, FitWrite, FitBuilt, FitServe, FitRestart, FitRecreate DEF NodeNext

\* A script whose parts are single files and single edits.
LEMMA OneEdit ==
  ASSUME NEW p \in Patches \ Several, p.whole, NEW e \in Edits(p), NEW f \in Edits(p)
  PROVE  e = f
<1>1. DOMAIN p.parts = {1} /\ p.parts[1].edits = {"all"}
  <2>1. \A a : DOMAIN Each(<<a>>) = {1} /\ Each(<<a>>)[1].edits = {"all"}
    BY DEF Each, Piece
  <2>2. p \in {Suppress, DecodeFloor, Spinwait, Responses, Effort, ControlGuard, OutputSplit}
    BY DEF Patches, Several, Overrides, PackedNames, LmHead, EngramSecondary, EngramFile, H2dStage,
           Sm120, MemoryLog, Patch
  <2> QED
    BY <2>1, <2>2 DEF Suppress, DecodeFloor, Spinwait, Responses, Effort, ControlGuard,
       OutputSplit, Patch
<1>2. ASSUME NEW x \in Edits(p) PROVE x = <<p.name, p.parts[1].file, "all">>
  BY <1>1 DEF Edits, PartEdits
<1> QED
  BY <1>2

\* The scripts of a boot are all but the one the Dockerfile alone runs.
LEMMA AllBooted ==
  ASSUME NEW p \in Patches \ {Overrides}
  PROVE  \E i \in DOMAIN BootList : BootList[i] = p
<1>1. /\ BootList[1] = Suppress /\ BootList[2] = DecodeFloor /\ BootList[3] = Grammar
      /\ BootList[4] = Spinwait /\ BootList[5] = Responses /\ BootList[6] = Effort
      /\ BootList[7] = ControlGuard /\ BootList[8] = OutputSplit /\ BootList[9] = PackedNames
      /\ BootList[10] = LmHead /\ BootList[11] = EngramSecondary /\ BootList[12] = EngramFile
      /\ BootList[13] = H2dStage /\ BootList[14] = Sm120 /\ BootList[15] = MemoryLog
      /\ BootList[16] = SwaFinal /\ BootList[17] = Yoco
  BY DEF BootList
<1> QED
  BY <1>1, ListsOfScripts DEF Patches

\* A script of several files that was not skipped, and began, is served whole.
LEMMA SeveralServed ==
  ASSUME FitInv, phase = "serving", NEW p \in Several
  PROVE  (\A e \in Edits(p) : text.put[e] = 0) \/ (\A e \in Edits(p) : text.put[e] = 1)
<1>1. /\ p \in Patches /\ p # Overrides /\ p # Spinwait /\ p.present # "scan" /\ ~Refused(text, p)
  <2>1. Spinwait \notin Several /\ Overrides \notin Several
    BY DEF Several, Spinwait, Overrides, Grammar, SwaFinal, Yoco, Patch
  <2> QED
    BY <2>1, SeveralScripts
<1>2. Settled(p) /\ TextInv(text) /\ FitText(text) /\ text.torn = {}
  BY <1>1, AllBooted DEF FitInv, NodeInv
<1>3. CASE Off(p)
  BY <1>3 DEF FitInv, Off, NoneOf
<1>4. CASE ~Off(p)
  <2>1. Todo(text, p) = {}
    BY <1>1, <1>2, <1>4 DEF Settled, Skipped, Stock, Off
  <2>2. (\A e \in Edits(p) : text.put[e] = 0) \/ Missing(text, p) = {}
    BY <1>2 DEF FitText
  <2> QED
    BY <1>1, <1>2, <2>1, <2>2, SettledIsMade
<1> QED
  BY <1>3, <1>4

\* The scripts of several files are served whole or not at all.
LEMMA ServesAllOrNothing == FitInv => AllOrNothing
<1> SUFFICES ASSUME FitInv, phase = "serving", NEW p \in Patches, p.whole
             PROVE  (\A e \in Edits(p) : text.put[e] = 0) \/ (\A e \in Edits(p) : text.put[e] = 1)
  BY DEF AllOrNothing
<1>1. CASE p \in Several
  BY <1>1, SeveralServed
<1>2. CASE p \notin Several
  <2>1. \A e \in Edits(p) : text.put[e] \in 0..1
    BY EditsTyped DEF FitInv, NodeInv, TextInv
  <2> QED
    BY <1>2, <2>1, OneEdit
<1> QED
  BY <1>1, <1>2

\* An edit that no drift touches, nor what stands or falls with it, is made.
LEMMA ServesComplete == FitInv => ServedComplete
<1> SUFFICES ASSUME FitInv, phase = "serving", NEW p \in Patches, Enabled(p),
                    NEW e \in Edits(p), Group(p, e) \cap Drifted = {}, text.put[e] # 1
             PROVE  FALSE
  BY DEF ServedComplete
<1>1. /\ TextInv(text) /\ FitText(text) /\ text.torn = {} /\ p # Overrides
  <2>1. p # Overrides
    <3>1. Overrides \notin {SwaFinal, Yoco, Spinwait}
      BY DEF SwaFinal, Yoco, Spinwait, Overrides, Patch
    <3> QED
      BY <3>1 DEF Enabled
  <2> QED
    BY <2>1 DEF FitInv, NodeInv
<1>2. Todo(text, p) = {}
  <2>1. Settled(p)
    BY <1>1, AllBooted DEF FitInv
  <2>2. ~Skipped(p) /\ ~Stock(p)
    <3>1. SwaFinal # Yoco /\ Spinwait \notin {SwaFinal, Yoco}
      BY DEF SwaFinal, Yoco, Spinwait, Patch
    <3> QED
      BY <3>1 DEF Enabled, Skipped, Stock
  <2> QED
    BY <2>1, <2>2 DEF Settled
<1>3. PICK i \in DOMAIN p.parts : e \in PartEdits(p, p.parts[i])
  BY DEF Edits
<1>4. e \in AllEdits /\ text.put[e] = 0
  BY <1>1, <1>3, EditsOwned, VisibleEdits
<1>5. /\ \A f \in AllEdits \ Drifted :
           /\ f[2] \notin text.absent
           /\ text.put[f] = 0 => text.anchor[f] = 1
           /\ text.put[f] = 1 => f # EncoderCheck /\ (text.anchor[f] = 0 \/ f \in Keeps)
      /\ \A q \in Patches : q.present = "mark" =>
           \A j \in DOMAIN q.parts : \A f \in PartEdits(q, q.parts[j]) \ Drifted :
                  text.put[f] = 1 => Marked(text, q, q.parts[j])
  BY <1>1 DEF FitText
<1>6. PartEdits(p, p.parts[i]) \cap Drifted = {}
  <2>1. CASE p.whole
    BY <2>1 DEF Group, Edits
  <2>2. CASE ~p.whole /\ p # Sm120
    <3>1. \A x \in PartEdits(p, p.parts[i]) : x[2] = e[2] /\ x \in Edits(p)
      BY <1>3, EditsOwned DEF Edits
    <3> QED
      BY <2>2, <3>1 DEF Group
  <2>3. CASE ~p.whole /\ p = Sm120
    <3>1. PartEdits(p, p.parts[i]) = {e}
      BY <1>3, <2>3, OneKindEach DEF PartEdits
    <3> QED
      BY <2>3, <3>1 DEF Group
  <2> QED
    BY <2>1, <2>2, <2>3
\* The part is not done ...
<1>7. ~Done(text, p, p.parts[i])
  <2>1. CASE p.present = "scan"
    <3>1. text.anchor[e] = 1
      BY <1>3, <1>4, <1>5, <1>6
    <3>2. ~Visible(text, e) /\ text.anchor[e] > 0
      BY <1>1, <1>3, <1>4, <3>1, VisibleEdits
    <3> QED
      BY <1>3, <2>1, <3>2 DEF Done
  <2>2. CASE p.present # "scan"
    BY <1>1, <1>3, <1>4, <2>2, DoneIsMade
  <2> QED
    BY <2>1, <2>2
\* ... but can be: nothing of it is missing. A boot with YOCO on ends with an error where
\* its script misses an anchor.
<1>8. ASSUME p # Yoco, NEW j \in DOMAIN p.parts, PartEdits(p, p.parts[j]) \cap Drifted = {},
             PartEdits(p, p.parts[j]) # {}
      PROVE  Done(text, p, p.parts[j]) \/ Ready(text, p, p.parts[j])
  <2> DEFINE E == PartEdits(p, p.parts[j])
  <2>1. \A f \in E : /\ f \in AllEdits \ Drifted /\ f[2] = p.parts[j].file
                     /\ text.put[f] \in 0..1
    BY <1>1, <1>8, EditsOwned, VisibleEdits
  <2>2. p.parts[j].file \notin text.absent
    BY <1>5, <1>8, <2>1
  <2>5. \A r \in Rewritten : r[2] \notin E
    BY <1>8, Rewrites
  <2>3. CASE p.present = "scan"
    <3>1. \A f \in FoundIn(text, p, p.parts[j]) : f \in E /\ text.put[f] = 0
      BY <1>1, <2>3, VisibleEdits DEF FoundIn
    <3>2. \A f \in FoundIn(text, p, p.parts[j]) : Anchored(text, p, f)
      BY <1>5, <2>1, <2>5, <3>1 DEF Anchored
    <3> QED
      BY <2>2, <2>3, <3>2 DEF Ready
  <2>4. CASE p.present # "scan"
    <3>1. FoundIn(text, p, p.parts[j]) = E
      BY <2>4 DEF FoundIn
    <3>2. \A f, g \in E : f = g
      <4>1. p # LmHead
        BY <2>4 DEF LmHead, Patch
      <4> QED
        BY <4>1, OneEach, OneKindEach DEF PartEdits
    <3>3. PICK f \in E : TRUE
      BY <1>8
    <3>4. CASE text.put[f] = 0
      <4>1. \A g \in E : text.put[g] = 0 /\ Anchored(text, p, g)
        BY <1>5, <2>1, <2>5, <3>2, <3>4 DEF Anchored
      <4>2. p.present = "verified" => ~Marked(text, p, p.parts[j])
        BY <1>1, <3>3, <3>4 DEF FitText
      <4> QED
        BY <2>2, <3>1, <4>1, <4>2 DEF Ready
    <3>5. CASE text.put[f] = 1
      <4>1. CASE p.present = "mark"
        <5>1. Marked(text, p, p.parts[j])
          BY <1>5, <2>1, <3>3, <3>5, <4>1
        <5> QED
          BY <2>2, <4>1, <5>1 DEF Done
      <4>2. CASE p.present = "text"
        <5>1. \A g \in E : Visible(text, g)
          BY <1>1, <3>2, <3>5, <4>2, Kinds, VisibleEdits
        <5> QED
          BY <2>2, <4>2, <5>1 DEF Done
      <4>3. CASE p.present = "verified"
        <5>1. f \notin Keeps
          BY <3>3, <4>3, Kinds, VerifiedLosesAnchor
        <5>2. \A g \in E : text.put[g] = 1 /\ text.anchor[g] = 0
          BY <1>5, <2>1, <3>2, <3>5, <5>1
        <5> QED
          BY <2>2, <4>3, <5>2 DEF Done
      <4> QED
        BY <2>4, <4>1, <4>2, <4>3, Kinds
    <3> QED
      BY <2>1, <3>3, <3>4, <3>5
  <2> QED
    BY <2>3, <2>4
<1>9. p.whole /\ p # Yoco => Missing(text, p) = {}
  <2>1. SUFFICES ASSUME p.whole, p # Yoco, NEW j \in DOMAIN p.parts
                 PROVE  Done(text, p, p.parts[j]) \/ Ready(text, p, p.parts[j])
    BY DEF Missing
  <2>2. PartEdits(p, p.parts[j]) \cap Drifted = {}
    BY <2>1 DEF Group, Edits
  <2>3. PartEdits(p, p.parts[j]) # {}
    <3>1. p \notin {LmHead, Sm120}
      <4>1. LmHead.whole = FALSE /\ Sm120.whole = FALSE
        BY DEF LmHead, Sm120, Patch
      <4> QED
        BY <2>1, <4>1
    <3>2. p.parts[j].edits = {"all"}
      BY <3>1, OneEach
    <3>3. <<p.name, p.parts[j].file, "all">> \in PartEdits(p, p.parts[j])
      BY <3>2 DEF PartEdits
    <3> QED
      BY <3>3
  <2> QED
    BY <1>8, <2>1, <2>2, <2>3
<1>13. p = Yoco => Missing(text, p) = {} /\ p.present = "mark"
  <2>1. SUFFICES ASSUME p = Yoco PROVE Missing(text, p) = {} /\ p.present = "mark"
    OBVIOUS
  <2>2. mode.yoco = "compact" /\ Yoco # SwaFinal /\ Yoco # Spinwait /\ Yoco # EngramSecondary
        /\ Yoco.present = "mark"
    <3>1. Yoco # SwaFinal /\ Yoco # Spinwait /\ Yoco # EngramSecondary /\ Yoco # Overrides
          /\ Yoco.present = "mark"
      BY DEF Yoco, SwaFinal, Spinwait, EngramSecondary, Overrides, Patch
    <3> QED
      BY <2>1, <3>1 DEF Enabled
  <2>3. Must(Yoco)
    BY <2>2 DEF Must, Skipped, CheckOnly, Stock, Tolerated
  <2>4. 17 \in DOMAIN BootList /\ BootList[17] = Yoco
    BY DEF BootList
  <2> QED
    BY <2>1, <2>2, <2>3, <2>4 DEF FitInv
<1>10. ~Refused(text, p)
  <2>1. SUFFICES ASSUME p = ControlGuard PROVE ~Refused(text, p)
    BY DEF Refused
  <2>2. EncoderCheck \in AllEdits \ Drifted
    <3>1. ControlGuard.whole = TRUE
      BY DEF ControlGuard, Patch
    <3> QED
      BY <2>1, <3>1, EncoderIsAnEdit DEF Group
  <2>3. text.put[EncoderCheck] \in 0..1
    BY <1>1, EncoderIsAnEdit DEF TextInv
  <2>4. text.anchor[EncoderCheck] = 1 /\ EncoderCheck[2] \notin text.absent
    BY <1>5, <2>2, <2>3
  <2> QED
    BY <2>4 DEF Refused
<1>11. FoundIn(text, p, p.parts[i]) # {}
  <2>1. text.anchor[e] = 1
    BY <1>3, <1>4, <1>5, <1>6
  <2>2. ~Visible(text, e) /\ text.anchor[e] > 0
    BY <1>1, <1>3, <1>4, <2>1, VisibleEdits
  <2> QED
    BY <1>3, <2>2 DEF FoundIn
<1>12. i \in Todo(text, p)
  <2>1. Ready(text, p, p.parts[i])
    <3>1. CASE p = Yoco
      BY <1>7, <1>13, <3>1 DEF Missing
    <3>2. CASE p # Yoco
      BY <1>3, <1>6, <1>7, <1>8, <3>2
    <3> QED
      BY <3>1, <3>2
  <2> QED
    BY <1>7, <1>9, <1>10, <1>11, <1>13, <2>1 DEF Todo
<1> QED
  BY <1>2, <1>12

\* The optional scripts are served when they are on and only then.
LEMMA ServesStrict == FitInv => StrictServed
<1> SUFFICES ASSUME FitInv, phase = "serving"
             PROVE  StrictServed
  BY DEF StrictServed
<1>1. ASSUME NEW p \in {SwaFinal, Yoco}, ~Off(p), NEW e \in Edits(p) PROVE text.put[e] = 1
  <2>1. /\ p \in Several /\ p \in Patches /\ p.present # "scan" /\ ~Refused(text, p)
        /\ p \notin {Overrides, EngramSecondary, Spinwait}
    <3>1. p \in Several
      BY OptionalScripts
    <3>2. p \notin {Overrides, EngramSecondary, Spinwait}
      BY DEF SwaFinal, Yoco, Overrides, EngramSecondary, Spinwait, Patch
    <3> QED
      BY <3>1, <3>2, SeveralScripts
  <2>2. ~Skipped(p) /\ ~Stock(p) /\ Must(p)
    BY <1>1, <2>1 DEF Skipped, Stock, Off, Must, CheckOnly, Tolerated
  <2>3. Settled(p) /\ (Must(p) => Missing(text, p) = {})
    BY <2>1, AllBooted DEF FitInv
  <2>4. TextInv(text) /\ FitText(text)
    BY DEF FitInv, NodeInv
  <2> QED
    BY <1>1, <2>1, <2>2, <2>3, <2>4, SettledIsMade DEF Settled
<1>2. ASSUME NEW p \in {SwaFinal, Yoco}, Off(p), NEW e \in Edits(p) PROVE text.put[e] = 0
  BY <1>2 DEF FitInv, NoneOf
<1>3. mode.swa \in {"off", "keep"} /\ mode.yoco \in {"off", "compact"}
  BY NodeBootAssumption DEF FitInv, NodeInv, BuildMode
<1>4. /\ Off(SwaFinal) <=> mode.swa = "off"
      /\ Off(Yoco) <=> mode.yoco = "off"
  BY OptionalScripts DEF Off
<1> QED
  BY <1>1, <1>2, <1>3, <1>4 DEF StrictServed

\* The helper of the staged copy is served with those that import it.
LEMMA ServesLinked == FitInv => H2dLinked
BY DEF FitInv, H2dLinked, Helper

(* The two xgrammar files, the final window and YOCO are served whole or not at *)
(* all, whichever of their files drifted and wherever a run was killed (the     *)
(* scripts prepare every file before they write one), if no base image has a    *)
(* part of the final window or of YOCO already.                                 *)
THEOREM ServedWhole == ~HalfMerged => (NodeSpec => []AllOrNothing)
<1> SUFFICES ASSUME ~HalfMerged PROVE NodeSpec => []AllOrNothing
  OBVIOUS
<1>1. NodeInit => FitInv
  BY FitStarts
<1> QED
  BY <1>1, FitSteps, ServesAllOrNothing, PTL DEF NodeSpec

(* vllm serve starts with every enabled edit whose anchors the image has, with  *)
(* the optional scripts exactly when they are on, and with the helper the staged *)
(* copy imports (the Dockerfile; start.sh stops on an error of these two), with *)
(* the same hypothesis on the base images.                                      *)
THEOREM ServedAsAsked == ~HalfMerged => (NodeSpec => []ServedFit)
<1> SUFFICES ASSUME ~HalfMerged PROVE NodeSpec => []ServedFit
  OBVIOUS
<1>1. NodeInit => FitInv
  BY FitStarts
<1>2. FitInv => ServedFit
  BY ServesComplete, ServesStrict, ServesLinked DEF ServedFit
<1> QED
  BY <1>1, <1>2, FitSteps, PTL DEF NodeSpec
==============================================================================
