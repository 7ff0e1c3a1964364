----------------------- MODULE PoolAndCompletionProofs -----------------------
(***************************************************************************)
(* Proofs about RowStorePool, for any number of callers and workers, and       *)
(* about Completion, for any vocabulary, grammar and scenarios.  The two       *)
(* components share nothing, and neither do their proofs.                     *)
(***************************************************************************)
EXTENDS RowStorePool, Completion, FiniteSetTheorems, SequenceTheorems, WellFoundedInduction, TLAPS

-----------------------------------------------------------------------------
(* The pool of the row store *)

LEMMA TypeStep ==
  TypeOK /\ [Next]_vars
  => TypeOK'
<1> SUFFICES ASSUME TypeOK, [Next]_vars
             PROVE  TypeOK'
  OBVIOUS
<1> USE PoolAssumption
        DEF Threads, Goto, shared, Draining, Publishing, Waiting, InRun,
            CallerPC, WorkerPC, TypeOK, Chunks, kChunk
<1>1. ASSUME NEW c \in Callers, Lookup(c) PROVE TypeOK'
  BY <1>1 DEF Lookup
<1>2. ASSUME NEW c \in Callers, ServeSerially(c) PROVE TypeOK'
  BY <1>2 DEF ServeSerially
<1>3. ASSUME NEW c \in Callers, ReturnSerial(c) PROVE TypeOK'
  BY <1>3 DEF ReturnSerial
<1>4. ASSUME NEW c \in Callers, SerializeCallers(c) PROVE TypeOK'
  BY <1>4 DEF SerializeCallers
<1>5. ASSUME NEW c \in Callers, PublishJob(c) PROVE TypeOK'
  BY <1>5 DEF PublishJob
<1>6. ASSUME NEW c \in Callers, PublishChunks(c) PROVE TypeOK'
  BY <1>6 DEF PublishChunks
<1>7. ASSUME NEW c \in Callers, PublishRemaining(c) PROVE TypeOK'
  BY <1>7 DEF PublishRemaining
<1>8. ASSUME NEW c \in Callers, NotifyReady(c) PROVE TypeOK'
  BY <1>8 DEF NotifyReady
<1>9. ASSUME NEW c \in Callers, CheckDone(c) PROVE TypeOK'
  BY <1>9 DEF CheckDone
<1>10. ASSUME NEW c \in Callers, BlockOnDone(c) PROVE TypeOK'
  BY <1>10 DEF BlockOnDone
<1>11. ASSUME NEW c \in Callers, ReturnRun(c) PROVE TypeOK'
  BY <1>11 DEF ReturnRun
<1>12. ASSUME NEW w \in Workers, TakeJob(w) PROVE TypeOK'
  BY <1>12 DEF TakeJob
<1>13. ASSUME NEW w \in Workers, BlockOnReady(w) PROVE TypeOK'
  BY <1>13 DEF BlockOnReady
<1>14. ASSUME NEW w \in Workers, LeaveDrain(w) PROVE TypeOK'
  BY <1>14 DEF LeaveDrain, NotifyDone
<1>15. ASSUME NEW t \in Threads, ClaimTicket(t) PROVE TypeOK'
  BY <1>15 DEF ClaimTicket
<1>16. ASSUME NEW t \in Threads, TestTicket(t) PROVE TypeOK'
  BY <1>16 DEF TestTicket
<1>17. ASSUME NEW t \in Threads, ServeTicket(t) PROVE TypeOK'
  <2>1. CASE work[t] = NoOne
    <3>1. rows' = rows
      BY <2>1, <1>17 DEF ServeTicket
    <3> QED BY <3>1, <1>17 DEF ServeTicket
  <2>2. CASE work[t] \in Callers
    <3> DEFINE S == {i \in 0..(count[work[t]] - 1) : i \div kChunk = ticket[t]}
    <3>1. S \subseteq 0..(MaxCount - 1)
      BY <2>2
    <3>2. rows' = [rows EXCEPT ![work[t]] = @ \cup S]
      BY <1>17 DEF ServeTicket
    <3> HIDE DEF S
    <3>3. rows' \in [Callers -> SUBSET (0..(MaxCount - 1))]
      BY <2>2, <3>1, <3>2
    <3> QED BY <3>3, <1>17 DEF ServeTicket
  <2> QED BY <2>1, <2>2
<1>18. ASSUME NEW t \in Threads, FinishTicket(t) PROVE TypeOK'
  BY <1>18 DEF FinishTicket
<1>19. ASSUME NEW t \in Threads, NotifyFinished(t) PROVE TypeOK'
  BY <1>19 DEF NotifyFinished, NotifyDone
<1>20. ASSUME NEW t \in Threads, SpuriousWakeup(t) PROVE TypeOK'
  BY <1>20 DEF SpuriousWakeup
<1>21. CASE UNCHANGED vars
  BY <1>21 DEF vars
<1>22. QED
  BY <1>1, <1>2, <1>3, <1>4, <1>5, <1>6, <1>7, <1>8, <1>9, <1>10,
     <1>11, <1>12, <1>13, <1>14, <1>15, <1>16, <1>17, <1>18, <1>19, <1>20, <1>21
     DEF Next, run, drain, loop, row_store_lookup

LEMMA LockStep ==
  TypeOK /\ LockInv /\ [Next]_vars
  => LockInv'
<1> SUFFICES ASSUME TypeOK /\ LockInv, [Next]_vars
             PROVE  LockInv'
  OBVIOUS
<1> USE PoolAssumption
        DEF Threads, Goto, shared, Draining, Publishing, Waiting, InRun,
            CallerPC, WorkerPC, TypeOK, LockInv
<1>1. ASSUME NEW c \in Callers, Lookup(c) PROVE LockInv'
  BY <1>1 DEF Lookup
<1>2. ASSUME NEW c \in Callers, ServeSerially(c) PROVE LockInv'
  BY <1>2 DEF ServeSerially
<1>3. ASSUME NEW c \in Callers, ReturnSerial(c) PROVE LockInv'
  BY <1>3 DEF ReturnSerial
<1>4. ASSUME NEW c \in Callers, SerializeCallers(c) PROVE LockInv'
  BY <1>4 DEF SerializeCallers
<1>5. ASSUME NEW c \in Callers, PublishJob(c) PROVE LockInv'
  BY <1>5 DEF PublishJob
<1>6. ASSUME NEW c \in Callers, PublishChunks(c) PROVE LockInv'
  BY <1>6 DEF PublishChunks
<1>7. ASSUME NEW c \in Callers, PublishRemaining(c) PROVE LockInv'
  BY <1>7 DEF PublishRemaining
<1>8. ASSUME NEW c \in Callers, NotifyReady(c) PROVE LockInv'
  BY <1>8 DEF NotifyReady
<1>9. ASSUME NEW c \in Callers, CheckDone(c) PROVE LockInv'
  BY <1>9 DEF CheckDone
<1>10. ASSUME NEW c \in Callers, BlockOnDone(c) PROVE LockInv'
  BY <1>10 DEF BlockOnDone
<1>11. ASSUME NEW c \in Callers, ReturnRun(c) PROVE LockInv'
  BY <1>11 DEF ReturnRun
<1>12. ASSUME NEW w \in Workers, TakeJob(w) PROVE LockInv'
  BY <1>12 DEF TakeJob
<1>13. ASSUME NEW w \in Workers, BlockOnReady(w) PROVE LockInv'
  BY <1>13 DEF BlockOnReady
<1>14. ASSUME NEW w \in Workers, LeaveDrain(w) PROVE LockInv'
  BY <1>14 DEF LeaveDrain, NotifyDone
<1>15. ASSUME NEW t \in Threads, ClaimTicket(t) PROVE LockInv'
  BY <1>15 DEF ClaimTicket
<1>16. ASSUME NEW t \in Threads, TestTicket(t) PROVE LockInv'
  BY <1>16 DEF TestTicket
<1>17. ASSUME NEW t \in Threads, ServeTicket(t) PROVE LockInv'
  BY <1>17 DEF ServeTicket
<1>18. ASSUME NEW t \in Threads, FinishTicket(t) PROVE LockInv'
  BY <1>18 DEF FinishTicket
<1>19. ASSUME NEW t \in Threads, NotifyFinished(t) PROVE LockInv'
  BY <1>19 DEF NotifyFinished, NotifyDone
<1>20. ASSUME NEW t \in Threads, SpuriousWakeup(t) PROVE LockInv'
  BY <1>20 DEF SpuriousWakeup
<1>21. CASE UNCHANGED vars
  BY <1>21 DEF vars
<1>22. QED
  BY <1>1, <1>2, <1>3, <1>4, <1>5, <1>6, <1>7, <1>8, <1>9, <1>10,
     <1>11, <1>12, <1>13, <1>14, <1>15, <1>16, <1>17, <1>18, <1>19, <1>20, <1>21
     DEF Next, run, drain, loop, row_store_lookup

LEMMA JobStep ==
  TypeOK /\ LockInv /\ JobInv /\ [Next]_vars
  => JobInv'
<1> SUFFICES ASSUME TypeOK /\ LockInv /\ JobInv, [Next]_vars
             PROVE  JobInv'
  OBVIOUS
<1> USE PoolAssumption
        DEF Threads, Goto, shared, Draining, Publishing, Waiting, InRun,
            CallerPC, WorkerPC, InJob, TypeOK, LockInv, JobInv
<1>1. ASSUME NEW c \in Callers, Lookup(c) PROVE JobInv'
  BY <1>1 DEF Lookup
<1>2. ASSUME NEW c \in Callers, ServeSerially(c) PROVE JobInv'
  BY <1>2 DEF ServeSerially
<1>3. ASSUME NEW c \in Callers, ReturnSerial(c) PROVE JobInv'
  BY <1>3 DEF ReturnSerial
<1>4. ASSUME NEW c \in Callers, SerializeCallers(c) PROVE JobInv'
  BY <1>4 DEF SerializeCallers
<1>5. ASSUME NEW c \in Callers, PublishJob(c) PROVE JobInv'
  BY <1>5 DEF PublishJob
<1>6. ASSUME NEW c \in Callers, PublishChunks(c) PROVE JobInv'
  BY <1>6 DEF PublishChunks
<1>7. ASSUME NEW c \in Callers, PublishRemaining(c) PROVE JobInv'
  BY <1>7 DEF PublishRemaining
<1>8. ASSUME NEW c \in Callers, NotifyReady(c) PROVE JobInv'
  BY <1>8 DEF NotifyReady
<1>9. ASSUME NEW c \in Callers, CheckDone(c) PROVE JobInv'
  BY <1>9 DEF CheckDone
<1>10. ASSUME NEW c \in Callers, BlockOnDone(c) PROVE JobInv'
  BY <1>10 DEF BlockOnDone
<1>11. ASSUME NEW c \in Callers, ReturnRun(c) PROVE JobInv'
  BY <1>11 DEF ReturnRun
<1>12. ASSUME NEW w \in Workers, TakeJob(w) PROVE JobInv'
  BY <1>12 DEF TakeJob
<1>13. ASSUME NEW w \in Workers, BlockOnReady(w) PROVE JobInv'
  BY <1>13 DEF BlockOnReady
<1>14. ASSUME NEW w \in Workers, LeaveDrain(w) PROVE JobInv'
  BY <1>14 DEF LeaveDrain, NotifyDone
<1>15. ASSUME NEW t \in Threads, ClaimTicket(t) PROVE JobInv'
  BY <1>15 DEF ClaimTicket
<1>16. ASSUME NEW t \in Threads, TestTicket(t) PROVE JobInv'
  BY <1>16 DEF TestTicket
<1>17. ASSUME NEW t \in Threads, ServeTicket(t) PROVE JobInv'
  BY <1>17 DEF ServeTicket
<1>18. ASSUME NEW t \in Threads, FinishTicket(t) PROVE JobInv'
  BY <1>18 DEF FinishTicket
<1>19. ASSUME NEW t \in Threads, NotifyFinished(t) PROVE JobInv'
  BY <1>19 DEF NotifyFinished, NotifyDone
<1>20. ASSUME NEW t \in Threads, SpuriousWakeup(t) PROVE JobInv'
  BY <1>20 DEF SpuriousWakeup
<1>21. CASE UNCHANGED vars
  BY <1>21 DEF vars
<1>22. QED
  BY <1>1, <1>2, <1>3, <1>4, <1>5, <1>6, <1>7, <1>8, <1>9, <1>10,
     <1>11, <1>12, <1>13, <1>14, <1>15, <1>16, <1>17, <1>18, <1>19, <1>20, <1>21
     DEF Next, run, drain, loop, row_store_lookup

\* What the three steps that branch do to the program counter.
LEMMA TestTicketPc ==
  ASSUME TypeOK, NEW t \in Threads, TestTicket(t)
  PROVE  /\ \/ pc' = [pc EXCEPT ![t] = "serve"] /\ ticket[t] < chunks_ /\ ticket' = ticket
            \/ pc' = [pc EXCEPT ![t] = "check_done"] /\ t \in Callers
            \/ pc' = [pc EXCEPT ![t] = "leave"] /\ t \in Workers
         /\ \A u \in Threads : u # t => ticket'[u] = ticket[u]
BY DEF TestTicket, TypeOK, Goto, Threads

LEMMA TestTicketCaller ==
  ASSUME TypeOK, NEW t \in Threads, TestTicket(t)
  PROVE  \A c \in Callers :
           pc'[c] = pc[c] \/ (pc[c] \in Draining /\ pc'[c] \in Draining \cup Waiting)
<1>1. pc[t] = "bound" /\ pc \in [Threads -> CallerPC \cup WorkerPC]
  BY DEF TestTicket, TypeOK
<1>2. \E l \in {"serve", "check_done", "leave"} :
        pc' = [pc EXCEPT ![t] = l] /\ (t \in Callers => l # "leave")
  BY DEF TestTicket, Goto
<1>3. PICK l \in {"serve", "check_done", "leave"} :
        pc' = [pc EXCEPT ![t] = l] /\ (t \in Callers => l # "leave")
  BY <1>2
<1>4. ASSUME NEW c \in Callers, pc'[c] # pc[c]
      PROVE  pc[c] \in Draining /\ pc'[c] \in Draining \cup Waiting
  <2>1. c = t /\ pc'[c] = l
    BY <1>1, <1>3, <1>4 DEF Threads
  <2> QED BY <2>1, <1>1, <1>3 DEF Draining, Waiting
<1> QED BY <1>4

LEMMA RowsFrame ==
  ASSUME RowsInv, rows' = rows, count' = count, chunks_' = chunks_,
         \A c \in Callers :
           pc'[c] = pc[c] \/ (pc[c] \in Draining /\ pc'[c] \in Draining \cup Waiting)
  PROVE  RowsInv'
<1> SUFFICES ASSUME NEW c \in Callers
             PROVE  (/\ rows[c] \subseteq 0..(count[c] - 1)
                     /\ pc[c] \in {"enter", "publish", "chunks", "remaining"} => rows[c] = {}
                     /\ pc[c] \in {"remaining"} \cup InJob => chunks_ = count[c]
                     /\ pc[c] = "serial" => rows[c] \in {{}, 0..(count[c] - 1)}
                     /\ pc[c] = "unlock" => rows[c] = 0..(count[c] - 1))'
  BY DEF RowsInv
<1>1. CASE pc'[c] = pc[c]
  BY <1>1 DEF RowsInv
<1>2. CASE pc[c] \in Draining /\ pc'[c] \in Draining \cup Waiting
  BY <1>2 DEF RowsInv, InJob, Draining, Waiting
<1> QED BY <1>1, <1>2

LEMMA CheckDonePc ==
  ASSUME NEW c \in Callers, CheckDone(c)
  PROVE  \/ remaining_ = 0 /\ active_ = 0 /\ pc' = [pc EXCEPT ![c] = "unlock"]
         \/ pc' = [pc EXCEPT ![c] = "block"] /\ job_' = job_
BY DEF CheckDone, Goto

LEMMA TakeJobPc ==
  ASSUME NEW w \in Workers, TakeJob(w)
  PROVE  pc' = [pc EXCEPT ![w] = "claim"] \/ pc' = pc
BY DEF TakeJob, Goto

\* The caller waiting on done_ can rely on the two counters.
LEMMA OutstandingFinite ==
  ASSUME TypeOK
  PROVE  IsFiniteSet(Outstanding)
<1>1. IsFiniteSet(0..(chunks_ - 1))
  BY FS_Interval DEF TypeOK
<1>2. Outstanding \subseteq 0..(chunks_ - 1)
  BY DEF Outstanding
<1> QED BY <1>1, <1>2, FS_Subset

LEMMA ActiveFinite == IsFiniteSet(ActiveWorkers)
BY PoolAssumption, FS_Subset DEF ActiveWorkers

LEMMA NobodyActive ==
  ASSUME CountersExact, active_ = 0
  PROVE  ActiveWorkers = {}
BY ActiveFinite, FS_EmptySet DEF CountersExact, ActiveExact


LEMMA DrainStep ==
  TypeOK /\ LockInv /\ JobInv /\ DrainInv /\ CountersExact /\ [Next]_vars
  => DrainInv'
<1> SUFFICES ASSUME TypeOK /\ LockInv /\ JobInv /\ DrainInv /\ CountersExact, [Next]_vars
             PROVE  DrainInv'
  OBVIOUS
<1> USE PoolAssumption
        DEF Threads, Goto, shared, Draining, Publishing, Waiting, InRun,
            CallerPC, WorkerPC, InJob, TypeOK, LockInv, JobInv, DrainInv,
            ActiveWorkers
<1>1. ASSUME NEW c \in Callers, Lookup(c) PROVE DrainInv'
  BY <1>1 DEF Lookup
<1>2. ASSUME NEW c \in Callers, ServeSerially(c) PROVE DrainInv'
  BY <1>2 DEF ServeSerially
<1>3. ASSUME NEW c \in Callers, ReturnSerial(c) PROVE DrainInv'
  BY <1>3 DEF ReturnSerial
<1>4. ASSUME NEW c \in Callers, SerializeCallers(c) PROVE DrainInv'
  BY <1>4 DEF SerializeCallers
<1>5. ASSUME NEW c \in Callers, PublishJob(c) PROVE DrainInv'
  BY <1>5 DEF PublishJob
<1>6. ASSUME NEW c \in Callers, PublishChunks(c) PROVE DrainInv'
  BY <1>6 DEF PublishChunks
<1>7. ASSUME NEW c \in Callers, PublishRemaining(c) PROVE DrainInv'
  BY <1>7 DEF PublishRemaining
<1>8. ASSUME NEW c \in Callers, NotifyReady(c) PROVE DrainInv'
  BY <1>8 DEF NotifyReady
<1>9. ASSUME NEW c \in Callers, CheckDone(c) PROVE DrainInv'
  <2>1. CASE remaining_ = 0 /\ active_ = 0
    <3>1. ActiveWorkers = {}
      BY <2>1, NobodyActive
    <3> QED BY <2>1, <3>1, <1>9 DEF CheckDone
  <2>2. CASE ~(remaining_ = 0 /\ active_ = 0)
    BY <2>2, <1>9 DEF CheckDone
  <2> QED BY <2>1, <2>2
<1>10. ASSUME NEW c \in Callers, BlockOnDone(c) PROVE DrainInv'
  BY <1>10 DEF BlockOnDone
<1>11. ASSUME NEW c \in Callers, ReturnRun(c) PROVE DrainInv'
  BY <1>11 DEF ReturnRun
<1>12. ASSUME NEW w \in Workers, TakeJob(w) PROVE DrainInv'
  BY <1>12 DEF TakeJob
<1>13. ASSUME NEW w \in Workers, BlockOnReady(w) PROVE DrainInv'
  BY <1>13 DEF BlockOnReady
<1>14. ASSUME NEW w \in Workers, LeaveDrain(w) PROVE DrainInv'
  BY <1>14 DEF LeaveDrain, NotifyDone
<1>15. ASSUME NEW t \in Threads, ClaimTicket(t) PROVE DrainInv'
  BY <1>15 DEF ClaimTicket
<1>16. ASSUME NEW t \in Threads, TestTicket(t) PROVE DrainInv'
  BY <1>16 DEF TestTicket
<1>17. ASSUME NEW t \in Threads, ServeTicket(t) PROVE DrainInv'
  BY <1>17 DEF ServeTicket
<1>18. ASSUME NEW t \in Threads, FinishTicket(t) PROVE DrainInv'
  BY <1>18 DEF FinishTicket
<1>19. ASSUME NEW t \in Threads, NotifyFinished(t) PROVE DrainInv'
  BY <1>19 DEF NotifyFinished, NotifyDone
<1>20. ASSUME NEW t \in Threads, SpuriousWakeup(t) PROVE DrainInv'
  BY <1>20 DEF SpuriousWakeup
<1>21. CASE UNCHANGED vars
  BY <1>21 DEF vars
<1>22. QED
  BY <1>1, <1>2, <1>3, <1>4, <1>5, <1>6, <1>7, <1>8, <1>9, <1>10,
     <1>11, <1>12, <1>13, <1>14, <1>15, <1>16, <1>17, <1>18, <1>19, <1>20, <1>21
     DEF Next, run, drain, loop, row_store_lookup

\* Serving ticket k writes row k and no other (kChunk is 1).
LEMMA ServedRows ==
  ASSUME NEW n \in Nat, NEW k \in Nat
  PROVE  {i \in 0..(n - 1) : i \div kChunk = k} = {i \in 0..(n - 1) : i = k}
BY DEF kChunk

LEMMA ChunksIsCount == \A n \in Nat : Chunks(n) = n
BY DEF Chunks, kChunk

\* Every drainer drains the current job.
LEMMA DrainerFacts ==
  ASSUME TypeOK, JobInv, DrainInv, NEW t \in Threads, pc[t] \in Draining
  PROVE  job_ \in Callers /\ work[t] = job_ /\ pc[job_] \in InJob
BY PoolAssumption
   DEF TypeOK, JobInv, DrainInv, ActiveWorkers, InJob, Threads, Draining, Waiting


LEMMA RowsStep ==
  TypeOK /\ LockInv /\ JobInv /\ DrainInv /\ RowsInv /\ CountersExact /\ [Next]_vars
  => RowsInv'
<1> SUFFICES ASSUME TypeOK /\ LockInv /\ JobInv /\ DrainInv /\ RowsInv /\ CountersExact, [Next]_vars
             PROVE  RowsInv'
  OBVIOUS
<1> USE PoolAssumption
        DEF Threads, Goto, shared, Draining, Publishing, Waiting, InRun,
            CallerPC, WorkerPC, InJob, TypeOK, LockInv, JobInv, RowsInv
<1>1. ASSUME NEW c \in Callers, Lookup(c) PROVE RowsInv'
  BY <1>1, SMTT(20) DEF Lookup
<1>2. ASSUME NEW c \in Callers, ServeSerially(c) PROVE RowsInv'
  BY <1>2, SMTT(20) DEF ServeSerially
<1>3. ASSUME NEW c \in Callers, ReturnSerial(c) PROVE RowsInv'
  BY <1>3 DEF ReturnSerial
<1>4. ASSUME NEW c \in Callers, SerializeCallers(c) PROVE RowsInv'
  BY <1>4 DEF SerializeCallers
<1>5. ASSUME NEW c \in Callers, PublishJob(c) PROVE RowsInv'
  BY <1>5 DEF PublishJob
<1>6. ASSUME NEW c \in Callers, PublishChunks(c) PROVE RowsInv'
  BY <1>6, ChunksIsCount DEF PublishChunks
<1>7. ASSUME NEW c \in Callers, PublishRemaining(c) PROVE RowsInv'
  BY <1>7 DEF PublishRemaining
<1>8. ASSUME NEW c \in Callers, NotifyReady(c) PROVE RowsInv'
  BY <1>8 DEF NotifyReady
<1>9. ASSUME NEW c \in Callers, CheckDone(c) PROVE RowsInv'
  <2>1. CASE remaining_ = 0 /\ active_ = 0
    <3>1. job_ = c /\ remaining_ = Cardinality(Outstanding)
      BY <1>9 DEF CheckDone, CountersExact, RemainingExact
    <3>2. IsFiniteSet(Outstanding)
      BY OutstandingFinite
    <3>3. Outstanding = {}
      BY <2>1, <3>1, <3>2, FS_EmptySet, Zenon
    <3>4. rows[c] = 0..(count[c] - 1)
      BY <3>1, <3>3, <1>9 DEF CheckDone, Outstanding
    <3> QED BY <2>1, <3>4, <1>9 DEF CheckDone
  <2>2. CASE ~(remaining_ = 0 /\ active_ = 0)
    BY <2>2, <1>9 DEF CheckDone
  <2> QED BY <2>1, <2>2
<1>10. ASSUME NEW c \in Callers, BlockOnDone(c) PROVE RowsInv'
  BY <1>10 DEF BlockOnDone
<1>11. ASSUME NEW c \in Callers, ReturnRun(c) PROVE RowsInv'
  BY <1>11 DEF ReturnRun
<1>12. ASSUME NEW w \in Workers, TakeJob(w) PROVE RowsInv'
  BY <1>12 DEF TakeJob
<1>13. ASSUME NEW w \in Workers, BlockOnReady(w) PROVE RowsInv'
  BY <1>13 DEF BlockOnReady
<1>14. ASSUME NEW w \in Workers, LeaveDrain(w) PROVE RowsInv'
  BY <1>14 DEF LeaveDrain, NotifyDone
<1>15. ASSUME NEW t \in Threads, ClaimTicket(t) PROVE RowsInv'
  BY <1>15 DEF ClaimTicket
<1>16. ASSUME NEW t \in Threads, TestTicket(t) PROVE RowsInv'
  <2>1. rows' = rows /\ count' = count /\ chunks_' = chunks_
    BY <1>16 DEF TestTicket
  <2> QED BY <2>1, <1>16, TestTicketCaller, RowsFrame
<1>17. ASSUME NEW t \in Threads, ServeTicket(t) PROVE RowsInv'
  <2>1. job_ \in Callers /\ work[t] = job_ /\ pc[job_] \in InJob
    BY <1>17, DrainerFacts DEF ServeTicket
  <2>2. rows' = [rows EXCEPT ![job_] =
                   @ \cup {i \in 0..(count[job_] - 1) : i = ticket[t]}]
    <3>1. count[job_] \in Nat /\ ticket[t] \in Nat
      BY <2>1
    <3>2. {i \in 0..(count[job_] - 1) : i \div kChunk = ticket[t]}
            = {i \in 0..(count[job_] - 1) : i = ticket[t]}
      BY <3>1, ServedRows
    <3>3. rows' = [rows EXCEPT ![job_] =
                     @ \cup {i \in 0..(count[job_] - 1) : i \div kChunk = ticket[t]}]
      BY <2>1, <1>17 DEF ServeTicket
    <3> QED BY <3>2, <3>3, Zenon
  <2>3. \A c \in Callers : rows'[c] \subseteq 0..(count[c] - 1)
    BY <2>1, <2>2
  <2>4. pc[t] = "serve" /\ pc' = [pc EXCEPT ![t] = "finish"]
        /\ count' = count /\ chunks_' = chunks_
    BY <1>17 DEF ServeTicket
  <2>5. \A c \in Callers : c # job_ => rows'[c] = rows[c]
    BY <2>1, <2>2
  <2> QED BY <2>1, <2>3, <2>4, <2>5, SMTT(20)
<1>18. ASSUME NEW t \in Threads, FinishTicket(t) PROVE RowsInv'
  BY <1>18 DEF FinishTicket
<1>19. ASSUME NEW t \in Threads, NotifyFinished(t) PROVE RowsInv'
  BY <1>19 DEF NotifyFinished, NotifyDone
<1>20. ASSUME NEW t \in Threads, SpuriousWakeup(t) PROVE RowsInv'
  BY <1>20 DEF SpuriousWakeup
<1>21. CASE UNCHANGED vars
  BY <1>21 DEF vars
<1>22. QED
  BY <1>1, <1>2, <1>3, <1>4, <1>5, <1>6, <1>7, <1>8, <1>9, <1>10,
     <1>11, <1>12, <1>13, <1>14, <1>15, <1>16, <1>17, <1>18, <1>19, <1>20, <1>21
     DEF Next, run, drain, loop, row_store_lookup

\* A step that hands out no ticket and serves none.
LEMMA TicketFrame ==
  ASSUME TicketInv, next_' = next_, chunks_' = chunks_, job_' = job_,
         \A t \in Threads : pc'[t] \in {"bound", "serve", "finish"} =>
            pc'[t] = pc[t] /\ ticket'[t] = ticket[t] /\ rows'[job_] = rows[job_],
         \A c \in Callers :
            /\ pc'[c] \in {"chunks", "remaining"} => pc[c] = pc'[c]
            /\ pc'[c] \in InJob => pc[c] \in InJob /\ rows'[c] = rows[c]
  PROVE  TicketInv'
<1>1. \A c \in Callers : pc'[c] \in {"chunks", "remaining"} => next_' = 0
  BY DEF TicketInv
<1>2. \A c \in Callers : pc'[c] \in InJob => \A i \in rows'[c] : i < next_'
  BY DEF TicketInv
<1>3. \A t \in Threads :
        /\ pc'[t] \in {"bound", "serve", "finish"} => ticket'[t] < next_'
        /\ pc'[t] \in {"serve", "finish"} => ticket'[t] < chunks_'
        /\ pc'[t] \in {"bound", "serve"} => ticket'[t] \notin rows'[job_']
        /\ pc'[t] = "finish" => ticket'[t] \in rows'[job_']
  BY DEF TicketInv
<1>4. \A t, u \in Threads : /\ t # u
                            /\ pc'[t] \in {"bound", "serve", "finish"}
                            /\ pc'[u] \in {"bound", "serve", "finish"}
                            => ticket'[t] # ticket'[u]
  BY DEF TicketInv
<1> QED BY <1>1, <1>2, <1>3, <1>4 DEF TicketInv

LEMMA TicketStep ==
  TypeOK /\ LockInv /\ JobInv /\ DrainInv /\ RowsInv /\ TicketInv /\ CountersExact /\ [Next]_vars
  => TicketInv'
<1> SUFFICES ASSUME TypeOK /\ LockInv /\ JobInv /\ DrainInv /\ RowsInv /\ TicketInv /\ CountersExact, [Next]_vars
             PROVE  TicketInv'
  OBVIOUS
<1> USE PoolAssumption
        DEF Threads, Goto, shared, Draining, Publishing, Waiting, InRun,
            CallerPC, WorkerPC, InJob, TypeOK, LockInv, JobInv, DrainInv,
            ActiveWorkers, RowsInv, TicketInv
<1>1. ASSUME NEW c \in Callers, Lookup(c) PROVE TicketInv'
  <2>1. next_' = next_ /\ chunks_' = chunks_ /\ job_' = job_
    BY <1>1 DEF Lookup
  <2>2. \A u \in Threads : pc'[u] \in {"bound", "serve", "finish"} =>
          pc'[u] = pc[u] /\ ticket'[u] = ticket[u] /\ rows'[job_] = rows[job_]
    <3>1. PICK l \in {"serial", "enter"} : pc' = [pc EXCEPT ![c] = l]
      BY <1>1 DEF Lookup
    <3>2. ticket' = ticket /\ rows' = [rows EXCEPT ![c] = {}] /\ pc[c] = "idle"
      BY <1>1 DEF Lookup
    <3> SUFFICES ASSUME NEW u \in Threads, pc'[u] \in {"bound", "serve", "finish"}
                 PROVE  pc'[u] = pc[u] /\ ticket'[u] = ticket[u] /\ rows'[job_] = rows[job_]
      OBVIOUS
    <3>3. pc'[u] = pc[u] /\ pc[u] \in Draining
      BY <3>1
    <3>4. job_ \in Callers /\ pc[job_] \in InJob
      BY <3>3, DrainerFacts
    <3> QED BY <3>2, <3>3, <3>4
  <2>3. \A d \in Callers :
          /\ pc'[d] \in {"chunks", "remaining"} => pc[d] = pc'[d]
          /\ pc'[d] \in InJob => pc[d] \in InJob /\ rows'[d] = rows[d]
    BY <1>1 DEF Lookup
  <2> QED BY <2>1, <2>2, <2>3, TicketFrame
<1>2. ASSUME NEW c \in Callers, ServeSerially(c) PROVE TicketInv'
  <2>1. next_' = next_ /\ chunks_' = chunks_ /\ job_' = job_
    BY <1>2 DEF ServeSerially
  <2>2. \A u \in Threads : pc'[u] \in {"bound", "serve", "finish"} =>
          pc'[u] = pc[u] /\ ticket'[u] = ticket[u] /\ rows'[job_] = rows[job_]
    <3>1. pc' = pc /\ ticket' = ticket /\ pc[c] = "serial"
          /\ rows' = [rows EXCEPT ![c] = @ \cup 0..(count[c] - 1)]
      BY <1>2 DEF ServeSerially
    <3> SUFFICES ASSUME NEW u \in Threads, pc'[u] \in {"bound", "serve", "finish"}
                 PROVE  pc'[u] = pc[u] /\ ticket'[u] = ticket[u] /\ rows'[job_] = rows[job_]
      OBVIOUS
    <3>2. job_ \in Callers /\ pc[job_] \in InJob
      BY <3>1, DrainerFacts
    <3> QED BY <3>1, <3>2
  <2>3. \A d \in Callers :
          /\ pc'[d] \in {"chunks", "remaining"} => pc[d] = pc'[d]
          /\ pc'[d] \in InJob => pc[d] \in InJob /\ rows'[d] = rows[d]
    BY <1>2 DEF ServeSerially
  <2> QED BY <2>1, <2>2, <2>3, TicketFrame
<1>3. ASSUME NEW c \in Callers, ReturnSerial(c) PROVE TicketInv'
  <2>1. next_' = next_ /\ chunks_' = chunks_ /\ job_' = job_
    BY <1>3 DEF ReturnSerial
  <2>2. \A u \in Threads : pc'[u] \in {"bound", "serve", "finish"} =>
          pc'[u] = pc[u] /\ ticket'[u] = ticket[u] /\ rows'[job_] = rows[job_]
    BY <1>3 DEF ReturnSerial
  <2>3. \A d \in Callers :
          /\ pc'[d] \in {"chunks", "remaining"} => pc[d] = pc'[d]
          /\ pc'[d] \in InJob => pc[d] \in InJob /\ rows'[d] = rows[d]
    BY <1>3 DEF ReturnSerial
  <2> QED BY <2>1, <2>2, <2>3, TicketFrame
<1>4. ASSUME NEW c \in Callers, SerializeCallers(c) PROVE TicketInv'
  <2>1. next_' = next_ /\ chunks_' = chunks_ /\ job_' = job_
    BY <1>4 DEF SerializeCallers
  <2>2. \A u \in Threads : pc'[u] \in {"bound", "serve", "finish"} =>
          pc'[u] = pc[u] /\ ticket'[u] = ticket[u] /\ rows'[job_] = rows[job_]
    BY <1>4 DEF SerializeCallers
  <2>3. \A d \in Callers :
          /\ pc'[d] \in {"chunks", "remaining"} => pc[d] = pc'[d]
          /\ pc'[d] \in InJob => pc[d] \in InJob /\ rows'[d] = rows[d]
    BY <1>4 DEF SerializeCallers
  <2> QED BY <2>1, <2>2, <2>3, TicketFrame
<1>5. ASSUME NEW c \in Callers, PublishJob(c) PROVE TicketInv'
  <2>1. \A t \in Threads : pc[t] \notin Draining
    BY <1>5 DEF PublishJob
  <2> QED BY <2>1, <1>5 DEF PublishJob
<1>6. ASSUME NEW c \in Callers, PublishChunks(c) PROVE TicketInv'
  BY <1>6 DEF PublishChunks
<1>7. ASSUME NEW c \in Callers, PublishRemaining(c) PROVE TicketInv'
  BY <1>7 DEF PublishRemaining
<1>8. ASSUME NEW c \in Callers, NotifyReady(c) PROVE TicketInv'
  <2>1. next_' = next_ /\ chunks_' = chunks_ /\ job_' = job_
    BY <1>8 DEF NotifyReady
  <2>2. \A u \in Threads : pc'[u] \in {"bound", "serve", "finish"} =>
          pc'[u] = pc[u] /\ ticket'[u] = ticket[u] /\ rows'[job_] = rows[job_]
    BY <1>8 DEF NotifyReady
  <2>3. \A d \in Callers :
          /\ pc'[d] \in {"chunks", "remaining"} => pc[d] = pc'[d]
          /\ pc'[d] \in InJob => pc[d] \in InJob /\ rows'[d] = rows[d]
    BY <1>8 DEF NotifyReady
  <2> QED BY <2>1, <2>2, <2>3, TicketFrame
<1>9. ASSUME NEW c \in Callers, CheckDone(c) PROVE TicketInv'
  <2>1. CASE remaining_ = 0 /\ active_ = 0
    <3>1. ActiveWorkers = {}
      BY <2>1, NobodyActive
    <3>2. \A t \in Threads : pc[t] \notin Draining
      BY <3>1, <1>9 DEF CheckDone
    <3>3. \A u \in Threads : pc'[u] \notin Draining
      BY <3>2, <1>9, CheckDonePc
    <3>4. \A u \in Callers : pc'[u] \notin InJob \cup {"chunks", "remaining"}
      BY <2>1, <1>9 DEF CheckDone
    <3> QED BY <3>3, <3>4
  <2>2. CASE ~(remaining_ = 0 /\ active_ = 0)
    <3>1. pc' = [pc EXCEPT ![c] = "block"] /\ job_' = job_
      BY <2>2, <1>9, CheckDonePc
    <3>2. ticket' = ticket /\ rows' = rows /\ next_' = next_ /\ chunks_' = chunks_
          /\ pc[c] = "check_done"
      BY <1>9 DEF CheckDone
    <3> QED BY <3>1, <3>2, TicketFrame
  <2> QED BY <2>1, <2>2
<1>10. ASSUME NEW c \in Callers, BlockOnDone(c) PROVE TicketInv'
  <2>1. next_' = next_ /\ chunks_' = chunks_ /\ job_' = job_
    BY <1>10 DEF BlockOnDone
  <2>2. \A u \in Threads : pc'[u] \in {"bound", "serve", "finish"} =>
          pc'[u] = pc[u] /\ ticket'[u] = ticket[u] /\ rows'[job_] = rows[job_]
    BY <1>10 DEF BlockOnDone
  <2>3. \A d \in Callers :
          /\ pc'[d] \in {"chunks", "remaining"} => pc[d] = pc'[d]
          /\ pc'[d] \in InJob => pc[d] \in InJob /\ rows'[d] = rows[d]
    BY <1>10 DEF BlockOnDone
  <2> QED BY <2>1, <2>2, <2>3, TicketFrame
<1>11. ASSUME NEW c \in Callers, ReturnRun(c) PROVE TicketInv'
  <2>1. next_' = next_ /\ chunks_' = chunks_ /\ job_' = job_
    BY <1>11 DEF ReturnRun
  <2>2. \A u \in Threads : pc'[u] \in {"bound", "serve", "finish"} =>
          pc'[u] = pc[u] /\ ticket'[u] = ticket[u] /\ rows'[job_] = rows[job_]
    BY <1>11 DEF ReturnRun
  <2>3. \A d \in Callers :
          /\ pc'[d] \in {"chunks", "remaining"} => pc[d] = pc'[d]
          /\ pc'[d] \in InJob => pc[d] \in InJob /\ rows'[d] = rows[d]
    BY <1>11 DEF ReturnRun
  <2> QED BY <2>1, <2>2, <2>3, TicketFrame
<1>12. ASSUME NEW w \in Workers, TakeJob(w) PROVE TicketInv'
  <2>1. \A t \in Threads : pc'[t] = pc[t] \/ (t = w /\ pc'[t] = "claim")
    <3>1. pc \in [Threads -> CallerPC \cup WorkerPC]
      OBVIOUS
    <3>2. pc' = [pc EXCEPT ![w] = "claim"] \/ pc' = pc
      BY <1>12, TakeJobPc, Zenon
    <3> HIDE DEF TypeOK, LockInv, JobInv, DrainInv, RowsInv, TicketInv
    <3> QED BY <3>1, <3>2
  <2>2. ticket' = ticket /\ rows' = rows /\ next_' = next_ /\ chunks_' = chunks_
        /\ job_' = job_
    BY <1>12 DEF TakeJob
  <2>3. \A c \in Callers : pc'[c] = pc[c]
    <3>1. w \notin Callers
      OBVIOUS
    <3> HIDE DEF TypeOK, LockInv, JobInv, DrainInv, RowsInv, TicketInv
    <3> QED BY <2>1, <3>1
  <2>4. \A t \in Threads : pc'[t] \in {"bound", "serve", "finish"} => pc'[t] = pc[t]
    BY <2>1
  <2> HIDE DEF TypeOK, LockInv, JobInv, DrainInv, RowsInv
  <2> QED BY <2>2, <2>3, <2>4, TicketFrame
<1>13. ASSUME NEW w \in Workers, BlockOnReady(w) PROVE TicketInv'
  <2>1. next_' = next_ /\ chunks_' = chunks_ /\ job_' = job_
    BY <1>13 DEF BlockOnReady
  <2>2. \A u \in Threads : pc'[u] \in {"bound", "serve", "finish"} =>
          pc'[u] = pc[u] /\ ticket'[u] = ticket[u] /\ rows'[job_] = rows[job_]
    BY <1>13 DEF BlockOnReady
  <2>3. \A d \in Callers :
          /\ pc'[d] \in {"chunks", "remaining"} => pc[d] = pc'[d]
          /\ pc'[d] \in InJob => pc[d] \in InJob /\ rows'[d] = rows[d]
    BY <1>13 DEF BlockOnReady
  <2> QED BY <2>1, <2>2, <2>3, TicketFrame
<1>14. ASSUME NEW w \in Workers, LeaveDrain(w) PROVE TicketInv'
  <2>1. next_' = next_ /\ chunks_' = chunks_ /\ job_' = job_
    BY <1>14 DEF LeaveDrain
  <2>2. \A u \in Threads : pc'[u] \in {"bound", "serve", "finish"} =>
          pc'[u] = pc[u] /\ ticket'[u] = ticket[u] /\ rows'[job_] = rows[job_]
    BY <1>14 DEF LeaveDrain, NotifyDone
  <2>3. \A d \in Callers :
          /\ pc'[d] \in {"chunks", "remaining"} => pc[d] = pc'[d]
          /\ pc'[d] \in InJob => pc[d] \in InJob /\ rows'[d] = rows[d]
    BY <1>14 DEF LeaveDrain, NotifyDone
  <2> QED BY <2>1, <2>2, <2>3, TicketFrame
<1>15. ASSUME NEW t \in Threads, ClaimTicket(t) PROVE TicketInv'
  BY <1>15, SMTT(20) DEF ClaimTicket
<1>16. ASSUME NEW t \in Threads, TestTicket(t) PROVE TicketInv'
  <2>1. rows' = rows /\ next_' = next_ /\ chunks_' = chunks_ /\ job_' = job_
    BY <1>16 DEF TestTicket
  <2>2. CASE ticket[t] < chunks_
    <3>1. pc' = [pc EXCEPT ![t] = "serve"] /\ ticket' = ticket /\ pc[t] = "bound"
      BY <2>2, <1>16 DEF TestTicket
    <3> QED BY <2>1, <2>2, <3>1
  <2>3. CASE ~(ticket[t] < chunks_)
    <3>1. \A u \in Threads : pc'[u] \in {"bound", "serve", "finish"} =>
            u # t /\ pc'[u] = pc[u] /\ ticket'[u] = ticket[u]
      BY <2>3, <1>16 DEF TestTicket
    <3>2. \A c \in Callers : /\ pc'[c] \in {"chunks", "remaining"} => pc'[c] = pc[c]
                             /\ pc'[c] \in InJob => pc[c] \in InJob
      BY <2>3, <1>16 DEF TestTicket
    <3> QED BY <2>1, <3>1, <3>2, TicketFrame
  <2> QED BY <2>2, <2>3
<1>17. ASSUME NEW t \in Threads, ServeTicket(t) PROVE TicketInv'
  <2>1. job_ \in Callers /\ work[t] = job_ /\ pc[job_] \in InJob
    BY <1>17, DrainerFacts DEF ServeTicket
  <2>2. /\ \A i \in rows'[job_] : i \in rows[job_] \/ i = ticket[t]
        /\ \A i \in rows[job_] : i \in rows'[job_]
        /\ ticket[t] \in rows'[job_]
        /\ \A c \in Callers : c # job_ => rows'[c] = rows[c]
    <3>1. count[job_] \in Nat /\ ticket[t] \in 0..(count[job_] - 1)
      BY <2>1, <1>17 DEF ServeTicket
    <3>2. {i \in 0..(count[job_] - 1) : i \div kChunk = ticket[t]}
            = {i \in 0..(count[job_] - 1) : i = ticket[t]}
      BY <3>1, ServedRows
    <3>3. rows' = [rows EXCEPT ![job_] =
                     @ \cup {i \in 0..(count[job_] - 1) : i \div kChunk = ticket[t]}]
      BY <2>1, <1>17 DEF ServeTicket
    <3>4. rows' = [rows EXCEPT ![job_] =
                     @ \cup {i \in 0..(count[job_] - 1) : i = ticket[t]}]
      BY <3>2, <3>3, Zenon
    <3> QED BY <2>1, <3>1, <3>4
  <2>3. pc[t] = "serve" /\ pc' = [pc EXCEPT ![t] = "finish"] /\ ticket' = ticket
        /\ next_' = next_ /\ chunks_' = chunks_ /\ job_' = job_
    BY <1>17 DEF ServeTicket
  <2> HIDE DEF TypeOK, RowsInv, DrainInv, LockInv, JobInv
  <2>4. pc \in [Threads -> CallerPC \cup WorkerPC] /\ ticket \in [Threads -> Nat]
        /\ next_ \in Nat
    BY DEF TypeOK
  <2>5. \A c \in Callers : pc'[c] \in {"chunks", "remaining"} => next_' = 0
    BY <2>3, <2>4
  <2>6. \A c \in Callers : pc'[c] \in InJob => \A i \in rows'[c] : i < next_'
    <3>1. \A c \in Callers : pc'[c] \in InJob => pc[c] \in InJob
      BY <2>3, <2>4
    <3>2. ticket[t] < next_
      BY <2>3
    <3> QED BY <2>1, <2>2, <2>3, <3>1, <3>2
  <2>7. \A u \in Threads : pc'[u] \in {"bound", "serve"} => ticket'[u] \notin rows'[job_']
    BY <2>2, <2>3, <2>4
  <2>8. \A u \in Threads : pc'[u] = "finish" => ticket'[u] \in rows'[job_']
    BY <2>2, <2>3, <2>4
  <2>9. \A u \in Threads : /\ pc'[u] \in {"bound", "serve", "finish"} => ticket'[u] < next_'
                           /\ pc'[u] \in {"serve", "finish"} => ticket'[u] < chunks_'
    BY <2>3, <2>4
  <2>10. \A u, v \in Threads :
           /\ u # v
           /\ pc'[u] \in {"bound", "serve", "finish"}
           /\ pc'[v] \in {"bound", "serve", "finish"}
           => ticket'[u] # ticket'[v]
    BY <2>3, <2>4
  <2> QED BY <2>5, <2>6, <2>7, <2>8, <2>9, <2>10
<1>18. ASSUME NEW t \in Threads, FinishTicket(t) PROVE TicketInv'
  <2>1. next_' = next_ /\ chunks_' = chunks_ /\ job_' = job_
    BY <1>18 DEF FinishTicket
  <2>2. \A u \in Threads : pc'[u] \in {"bound", "serve", "finish"} =>
          pc'[u] = pc[u] /\ ticket'[u] = ticket[u] /\ rows'[job_] = rows[job_]
    BY <1>18 DEF FinishTicket
  <2>3. \A d \in Callers :
          /\ pc'[d] \in {"chunks", "remaining"} => pc[d] = pc'[d]
          /\ pc'[d] \in InJob => pc[d] \in InJob /\ rows'[d] = rows[d]
    BY <1>18 DEF FinishTicket
  <2> QED BY <2>1, <2>2, <2>3, TicketFrame
<1>19. ASSUME NEW t \in Threads, NotifyFinished(t) PROVE TicketInv'
  <2>1. next_' = next_ /\ chunks_' = chunks_ /\ job_' = job_
    BY <1>19 DEF NotifyFinished
  <2>2. \A u \in Threads : pc'[u] \in {"bound", "serve", "finish"} =>
          pc'[u] = pc[u] /\ ticket'[u] = ticket[u] /\ rows'[job_] = rows[job_]
    BY <1>19 DEF NotifyFinished, NotifyDone
  <2>3. \A d \in Callers :
          /\ pc'[d] \in {"chunks", "remaining"} => pc[d] = pc'[d]
          /\ pc'[d] \in InJob => pc[d] \in InJob /\ rows'[d] = rows[d]
    BY <1>19 DEF NotifyFinished, NotifyDone
  <2> QED BY <2>1, <2>2, <2>3, TicketFrame
<1>20. ASSUME NEW t \in Threads, SpuriousWakeup(t) PROVE TicketInv'
  <2>1. next_' = next_ /\ chunks_' = chunks_ /\ job_' = job_
    BY <1>20 DEF SpuriousWakeup
  <2>2. \A u \in Threads : pc'[u] \in {"bound", "serve", "finish"} =>
          pc'[u] = pc[u] /\ ticket'[u] = ticket[u] /\ rows'[job_] = rows[job_]
    BY <1>20 DEF SpuriousWakeup
  <2>3. \A d \in Callers :
          /\ pc'[d] \in {"chunks", "remaining"} => pc[d] = pc'[d]
          /\ pc'[d] \in InJob => pc[d] \in InJob /\ rows'[d] = rows[d]
    BY <1>20 DEF SpuriousWakeup
  <2> QED BY <2>1, <2>2, <2>3, TicketFrame
<1>21. CASE UNCHANGED vars
  BY <1>21 DEF vars
<1>22. QED
  BY <1>1, <1>2, <1>3, <1>4, <1>5, <1>6, <1>7, <1>8, <1>9, <1>10,
     <1>11, <1>12, <1>13, <1>14, <1>15, <1>16, <1>17, <1>18, <1>19, <1>20, <1>21
     DEF Next, run, drain, loop, row_store_lookup

LEMMA ActiveStep ==
  TypeOK /\ ActiveExact /\ [Next]_vars
  => ActiveExact'
<1> SUFFICES ASSUME TypeOK /\ ActiveExact, [Next]_vars
             PROVE  ActiveExact'
  OBVIOUS
<1> USE PoolAssumption
        DEF Threads, Goto, shared, Draining, Publishing, Waiting, InRun,
            CallerPC, WorkerPC, TypeOK, ActiveExact
<1>1. ASSUME NEW c \in Callers, Lookup(c) PROVE ActiveExact'
  <2>1. ActiveWorkers' = ActiveWorkers
    BY <1>1 DEF ActiveWorkers, Lookup
  <2> QED BY <2>1, <1>1 DEF Lookup
<1>2. ASSUME NEW c \in Callers, ServeSerially(c) PROVE ActiveExact'
  <2>1. ActiveWorkers' = ActiveWorkers
    BY <1>2 DEF ActiveWorkers, ServeSerially
  <2> QED BY <2>1, <1>2 DEF ServeSerially
<1>3. ASSUME NEW c \in Callers, ReturnSerial(c) PROVE ActiveExact'
  <2>1. ActiveWorkers' = ActiveWorkers
    BY <1>3 DEF ActiveWorkers, ReturnSerial
  <2> QED BY <2>1, <1>3 DEF ReturnSerial
<1>4. ASSUME NEW c \in Callers, SerializeCallers(c) PROVE ActiveExact'
  <2>1. ActiveWorkers' = ActiveWorkers
    BY <1>4 DEF ActiveWorkers, SerializeCallers
  <2> QED BY <2>1, <1>4 DEF SerializeCallers
<1>5. ASSUME NEW c \in Callers, PublishJob(c) PROVE ActiveExact'
  <2>1. ActiveWorkers' = ActiveWorkers
    BY <1>5 DEF ActiveWorkers, PublishJob
  <2> QED BY <2>1, <1>5 DEF PublishJob
<1>6. ASSUME NEW c \in Callers, PublishChunks(c) PROVE ActiveExact'
  <2>1. ActiveWorkers' = ActiveWorkers
    BY <1>6 DEF ActiveWorkers, PublishChunks
  <2> QED BY <2>1, <1>6 DEF PublishChunks
<1>7. ASSUME NEW c \in Callers, PublishRemaining(c) PROVE ActiveExact'
  <2>1. ActiveWorkers' = ActiveWorkers
    BY <1>7 DEF ActiveWorkers, PublishRemaining
  <2> QED BY <2>1, <1>7 DEF PublishRemaining
<1>8. ASSUME NEW c \in Callers, NotifyReady(c) PROVE ActiveExact'
  <2>1. ActiveWorkers' = ActiveWorkers
    BY <1>8 DEF ActiveWorkers, NotifyReady
  <2> QED BY <2>1, <1>8 DEF NotifyReady
<1>9. ASSUME NEW c \in Callers, CheckDone(c) PROVE ActiveExact'
  <2>1. ActiveWorkers' = ActiveWorkers
    BY <1>9, CheckDonePc DEF ActiveWorkers
  <2> QED BY <2>1, <1>9 DEF CheckDone
<1>10. ASSUME NEW c \in Callers, BlockOnDone(c) PROVE ActiveExact'
  <2>1. ActiveWorkers' = ActiveWorkers
    BY <1>10 DEF ActiveWorkers, BlockOnDone
  <2> QED BY <2>1, <1>10 DEF BlockOnDone
<1>11. ASSUME NEW c \in Callers, ReturnRun(c) PROVE ActiveExact'
  <2>1. ActiveWorkers' = ActiveWorkers
    BY <1>11 DEF ActiveWorkers, ReturnRun
  <2> QED BY <2>1, <1>11 DEF ReturnRun
<1>12. ASSUME NEW w \in Workers, TakeJob(w) PROVE ActiveExact'
  <2>1. CASE job_ = NoOne
    BY <2>1, <1>12 DEF TakeJob, ActiveWorkers
  <2>2. CASE job_ # NoOne
    <3>1. ActiveWorkers' = ActiveWorkers \cup {w} /\ w \notin ActiveWorkers
      BY <2>2, <1>12 DEF TakeJob, ActiveWorkers
    <3> QED BY <2>2, <3>1, <1>12, ActiveFinite, FS_AddElement DEF TakeJob
  <2> QED BY <2>1, <2>2
<1>13. ASSUME NEW w \in Workers, BlockOnReady(w) PROVE ActiveExact'
  <2>1. ActiveWorkers' = ActiveWorkers
    BY <1>13 DEF ActiveWorkers, BlockOnReady
  <2> QED BY <2>1, <1>13 DEF BlockOnReady
<1>14. ASSUME NEW w \in Workers, LeaveDrain(w) PROVE ActiveExact'
  <2>1. ActiveWorkers' = ActiveWorkers \ {w} /\ w \in ActiveWorkers
    BY <1>14 DEF LeaveDrain, NotifyDone, ActiveWorkers
  <2> QED BY <2>1, <1>14, ActiveFinite, FS_RemoveElement DEF LeaveDrain
<1>15. ASSUME NEW t \in Threads, ClaimTicket(t) PROVE ActiveExact'
  <2>1. ActiveWorkers' = ActiveWorkers
    BY <1>15 DEF ActiveWorkers, ClaimTicket
  <2> QED BY <2>1, <1>15 DEF ClaimTicket
<1>16. ASSUME NEW t \in Threads, TestTicket(t) PROVE ActiveExact'
  <2>1. ActiveWorkers' = ActiveWorkers
    BY <1>16 DEF ActiveWorkers, TestTicket
  <2> QED BY <2>1, <1>16 DEF TestTicket
<1>17. ASSUME NEW t \in Threads, ServeTicket(t) PROVE ActiveExact'
  <2>1. ActiveWorkers' = ActiveWorkers
    BY <1>17 DEF ActiveWorkers, ServeTicket
  <2> QED BY <2>1, <1>17 DEF ServeTicket
<1>18. ASSUME NEW t \in Threads, FinishTicket(t) PROVE ActiveExact'
  <2>1. ActiveWorkers' = ActiveWorkers
    BY <1>18 DEF ActiveWorkers, FinishTicket
  <2> QED BY <2>1, <1>18 DEF FinishTicket
<1>19. ASSUME NEW t \in Threads, NotifyFinished(t) PROVE ActiveExact'
  <2>1. ActiveWorkers' = ActiveWorkers
    BY <1>19 DEF ActiveWorkers, NotifyFinished, NotifyDone
  <2> QED BY <2>1, <1>19 DEF NotifyFinished
<1>20. ASSUME NEW t \in Threads, SpuriousWakeup(t) PROVE ActiveExact'
  <2>1. ActiveWorkers' = ActiveWorkers
    BY <1>20 DEF ActiveWorkers, SpuriousWakeup
  <2> QED BY <2>1, <1>20 DEF SpuriousWakeup
<1>21. CASE UNCHANGED vars
  BY <1>21 DEF vars, ActiveWorkers
<1>22. QED
  BY <1>1, <1>2, <1>3, <1>4, <1>5, <1>6, <1>7, <1>8, <1>9, <1>10,
     <1>11, <1>12, <1>13, <1>14, <1>15, <1>16, <1>17, <1>18, <1>19, <1>20, <1>21
     DEF Next, run, drain, loop, row_store_lookup

\* What leaves the set of outstanding tickets alone.
LEMMA OutstandingFrame ==
  ASSUME chunks_' = chunks_, job_' = job_, rows'[job_] = rows[job_],
         \A t \in Threads : /\ pc'[t] = "finish" <=> pc[t] = "finish"
                            /\ pc[t] = "finish" => ticket'[t] = ticket[t]
  PROVE  Outstanding' = Outstanding
BY DEF Outstanding

LEMMA RemainingStep ==
  TypeOK /\ LockInv /\ JobInv /\ DrainInv /\ RowsInv /\ TicketInv /\ CountersExact /\ [Next]_vars
  => RemainingExact'
<1> SUFFICES ASSUME TypeOK /\ LockInv /\ JobInv /\ DrainInv /\ RowsInv /\ TicketInv /\ CountersExact, [Next]_vars
             PROVE  RemainingExact'
  OBVIOUS
<1> USE PoolAssumption
        DEF Threads, Goto, shared, Draining, Publishing, Waiting, InRun,
            CallerPC, WorkerPC, InJob, TypeOK, LockInv, JobInv, DrainInv,
            ActiveWorkers, RowsInv, TicketInv, CountersExact
<1>1. ASSUME NEW c \in Callers, Lookup(c) PROVE RemainingExact'
  <2> SUFFICES ASSUME NEW d \in Callers, pc'[d] \in InJob
               PROVE  remaining_' = Cardinality(Outstanding')
    BY DEF RemainingExact
  <2>1. pc[d] \in InJob /\ job_ = d
    BY <1>1 DEF Lookup
  <2>2. chunks_' = chunks_ /\ job_' = job_ /\ rows'[job_] = rows[job_]
        /\ remaining_' = remaining_
    BY <2>1, <1>1 DEF Lookup
  <2>3. \A u \in Threads : /\ pc'[u] = "finish" <=> pc[u] = "finish"
                           /\ pc[u] = "finish" => ticket'[u] = ticket[u]
    BY <1>1 DEF Lookup
  <2> QED BY <2>1, <2>2, <2>3, OutstandingFrame DEF RemainingExact
<1>2. ASSUME NEW c \in Callers, ServeSerially(c) PROVE RemainingExact'
  <2> SUFFICES ASSUME NEW d \in Callers, pc'[d] \in InJob
               PROVE  remaining_' = Cardinality(Outstanding')
    BY DEF RemainingExact
  <2>1. pc[d] \in InJob /\ job_ = d
    BY <1>2 DEF ServeSerially
  <2>2. chunks_' = chunks_ /\ job_' = job_ /\ rows'[job_] = rows[job_]
        /\ remaining_' = remaining_
    BY <2>1, <1>2 DEF ServeSerially
  <2>3. \A u \in Threads : /\ pc'[u] = "finish" <=> pc[u] = "finish"
                           /\ pc[u] = "finish" => ticket'[u] = ticket[u]
    BY <1>2 DEF ServeSerially
  <2> QED BY <2>1, <2>2, <2>3, OutstandingFrame DEF RemainingExact
<1>3. ASSUME NEW c \in Callers, ReturnSerial(c) PROVE RemainingExact'
  <2> SUFFICES ASSUME NEW d \in Callers, pc'[d] \in InJob
               PROVE  remaining_' = Cardinality(Outstanding')
    BY DEF RemainingExact
  <2>1. pc[d] \in InJob /\ job_ = d
    BY <1>3 DEF ReturnSerial
  <2>2. chunks_' = chunks_ /\ job_' = job_ /\ rows'[job_] = rows[job_]
        /\ remaining_' = remaining_
    BY <2>1, <1>3 DEF ReturnSerial
  <2>3. \A u \in Threads : /\ pc'[u] = "finish" <=> pc[u] = "finish"
                           /\ pc[u] = "finish" => ticket'[u] = ticket[u]
    BY <1>3 DEF ReturnSerial
  <2> QED BY <2>1, <2>2, <2>3, OutstandingFrame DEF RemainingExact
<1>4. ASSUME NEW c \in Callers, SerializeCallers(c) PROVE RemainingExact'
  <2> SUFFICES ASSUME NEW d \in Callers, pc'[d] \in InJob
               PROVE  remaining_' = Cardinality(Outstanding')
    BY DEF RemainingExact
  <2>1. pc[d] \in InJob /\ job_ = d
    BY <1>4 DEF SerializeCallers
  <2>2. chunks_' = chunks_ /\ job_' = job_ /\ rows'[job_] = rows[job_]
        /\ remaining_' = remaining_
    BY <2>1, <1>4 DEF SerializeCallers
  <2>3. \A u \in Threads : /\ pc'[u] = "finish" <=> pc[u] = "finish"
                           /\ pc[u] = "finish" => ticket'[u] = ticket[u]
    BY <1>4 DEF SerializeCallers
  <2> QED BY <2>1, <2>2, <2>3, OutstandingFrame DEF RemainingExact
<1>5. ASSUME NEW c \in Callers, PublishJob(c) PROVE RemainingExact'
  <2>1. \A d \in Callers : pc'[d] \notin InJob
    BY <1>5 DEF PublishJob
  <2> QED BY <2>1 DEF RemainingExact
<1>6. ASSUME NEW c \in Callers, PublishChunks(c) PROVE RemainingExact'
  <2>1. \A d \in Callers : pc'[d] \notin InJob
    BY <1>6 DEF PublishChunks
  <2> QED BY <2>1 DEF RemainingExact
<1>7. ASSUME NEW c \in Callers, PublishRemaining(c) PROVE RemainingExact'
  <2> SUFFICES ASSUME NEW d \in Callers, pc'[d] \in InJob
               PROVE  remaining_' = Cardinality(Outstanding')
    BY DEF RemainingExact
  <2>1. d = c /\ job_' = c /\ rows'[c] = {} /\ chunks_' = count[c]
        /\ count[c] \in Nat
    BY <1>7 DEF PublishRemaining
  <2>2. Outstanding' = 0..(count[c] - 1)
    BY <2>1 DEF Outstanding
  <2>3. Cardinality(0..(count[c] - 1)) = count[c]
    BY <2>1, FS_Interval
  <2>4. remaining_' = count[c]
    BY <2>1, <1>7, ChunksIsCount DEF PublishRemaining
  <2> QED BY <2>2, <2>3, <2>4
<1>8. ASSUME NEW c \in Callers, NotifyReady(c) PROVE RemainingExact'
  <2> SUFFICES ASSUME NEW d \in Callers, pc'[d] \in InJob
               PROVE  remaining_' = Cardinality(Outstanding')
    BY DEF RemainingExact
  <2>1. pc[d] \in InJob /\ job_ = d
    BY <1>8 DEF NotifyReady
  <2>2. chunks_' = chunks_ /\ job_' = job_ /\ rows'[job_] = rows[job_]
        /\ remaining_' = remaining_
    BY <2>1, <1>8 DEF NotifyReady
  <2>3. \A u \in Threads : /\ pc'[u] = "finish" <=> pc[u] = "finish"
                           /\ pc[u] = "finish" => ticket'[u] = ticket[u]
    BY <1>8 DEF NotifyReady
  <2> QED BY <2>1, <2>2, <2>3, OutstandingFrame DEF RemainingExact
<1>9. ASSUME NEW c \in Callers, CheckDone(c) PROVE RemainingExact'
  <2> SUFFICES ASSUME NEW d \in Callers, pc'[d] \in InJob
               PROVE  remaining_' = Cardinality(Outstanding')
    BY DEF RemainingExact
  <2>1. pc' = [pc EXCEPT ![c] = "block"] /\ job_' = job_
    <3>1. d = c
      BY <1>9 DEF CheckDone
    <3> QED BY <3>1, <1>9, CheckDonePc
  <2>2. pc[c] = "check_done" /\ ticket' = ticket /\ chunks_' = chunks_
        /\ rows' = rows /\ remaining_' = remaining_
    BY <1>9 DEF CheckDone
  <2>3. pc[d] \in InJob
    BY <2>1, <2>2
  <2> QED BY <2>1, <2>2, <2>3, OutstandingFrame DEF RemainingExact
<1>10. ASSUME NEW c \in Callers, BlockOnDone(c) PROVE RemainingExact'
  <2> SUFFICES ASSUME NEW d \in Callers, pc'[d] \in InJob
               PROVE  remaining_' = Cardinality(Outstanding')
    BY DEF RemainingExact
  <2>1. pc[d] \in InJob /\ job_ = d
    BY <1>10 DEF BlockOnDone
  <2>2. chunks_' = chunks_ /\ job_' = job_ /\ rows'[job_] = rows[job_]
        /\ remaining_' = remaining_
    BY <2>1, <1>10 DEF BlockOnDone
  <2>3. \A u \in Threads : /\ pc'[u] = "finish" <=> pc[u] = "finish"
                           /\ pc[u] = "finish" => ticket'[u] = ticket[u]
    BY <1>10 DEF BlockOnDone
  <2> QED BY <2>1, <2>2, <2>3, OutstandingFrame DEF RemainingExact
<1>11. ASSUME NEW c \in Callers, ReturnRun(c) PROVE RemainingExact'
  <2>1. \A d \in Callers : pc'[d] \notin InJob
    BY <1>11 DEF ReturnRun
  <2> QED BY <2>1 DEF RemainingExact
<1>12. ASSUME NEW w \in Workers, TakeJob(w) PROVE RemainingExact'
  <2> SUFFICES ASSUME NEW d \in Callers, pc'[d] \in InJob
               PROVE  remaining_' = Cardinality(Outstanding')
    BY DEF RemainingExact
  <2>1. chunks_' = chunks_ /\ job_' = job_ /\ rows' = rows /\ ticket' = ticket
        /\ remaining_' = remaining_ /\ pc[w] = "check"
    BY <1>12 DEF TakeJob
  <2>2. pc' = [pc EXCEPT ![w] = "claim"] \/ pc' = pc
    BY <1>12, TakeJobPc
  <2>3. pc[d] \in InJob
    BY <2>2
  <2>4. \A u \in Threads : pc'[u] = "finish" <=> pc[u] = "finish"
    BY <2>1, <2>2
  <2> QED BY <2>1, <2>3, <2>4, OutstandingFrame DEF RemainingExact
<1>13. ASSUME NEW w \in Workers, BlockOnReady(w) PROVE RemainingExact'
  <2> SUFFICES ASSUME NEW d \in Callers, pc'[d] \in InJob
               PROVE  remaining_' = Cardinality(Outstanding')
    BY DEF RemainingExact
  <2>1. pc[d] \in InJob /\ job_ = d
    BY <1>13 DEF BlockOnReady
  <2>2. chunks_' = chunks_ /\ job_' = job_ /\ rows'[job_] = rows[job_]
        /\ remaining_' = remaining_
    BY <2>1, <1>13 DEF BlockOnReady
  <2>3. \A u \in Threads : /\ pc'[u] = "finish" <=> pc[u] = "finish"
                           /\ pc[u] = "finish" => ticket'[u] = ticket[u]
    BY <1>13 DEF BlockOnReady
  <2> QED BY <2>1, <2>2, <2>3, OutstandingFrame DEF RemainingExact
<1>14. ASSUME NEW w \in Workers, LeaveDrain(w) PROVE RemainingExact'
  <2> SUFFICES ASSUME NEW d \in Callers, pc'[d] \in InJob
               PROVE  remaining_' = Cardinality(Outstanding')
    BY DEF RemainingExact
  <2>1. pc[d] \in InJob /\ job_ = d
    BY <1>14 DEF LeaveDrain, NotifyDone
  <2>2. chunks_' = chunks_ /\ job_' = job_ /\ rows'[job_] = rows[job_]
        /\ remaining_' = remaining_
    BY <2>1, <1>14 DEF LeaveDrain, NotifyDone
  <2>3. \A u \in Threads : /\ pc'[u] = "finish" <=> pc[u] = "finish"
                           /\ pc[u] = "finish" => ticket'[u] = ticket[u]
    BY <1>14 DEF LeaveDrain, NotifyDone
  <2> QED BY <2>1, <2>2, <2>3, OutstandingFrame DEF RemainingExact
<1>15. ASSUME NEW t \in Threads, ClaimTicket(t) PROVE RemainingExact'
  <2> SUFFICES ASSUME NEW d \in Callers, pc'[d] \in InJob
               PROVE  remaining_' = Cardinality(Outstanding')
    BY DEF RemainingExact
  <2>1. pc[d] \in InJob /\ job_ = d
    BY <1>15 DEF ClaimTicket
  <2>2. chunks_' = chunks_ /\ job_' = job_ /\ rows'[job_] = rows[job_]
        /\ remaining_' = remaining_
    BY <2>1, <1>15 DEF ClaimTicket
  <2>3. \A u \in Threads : /\ pc'[u] = "finish" <=> pc[u] = "finish"
                           /\ pc[u] = "finish" => ticket'[u] = ticket[u]
    BY <1>15 DEF ClaimTicket
  <2> QED BY <2>1, <2>2, <2>3, OutstandingFrame DEF RemainingExact
<1>16. ASSUME NEW t \in Threads, TestTicket(t) PROVE RemainingExact'
  <2> SUFFICES ASSUME NEW d \in Callers, pc'[d] \in InJob
               PROVE  remaining_' = Cardinality(Outstanding')
    BY DEF RemainingExact
  <2>1. pc[d] \in InJob
    BY <1>16, TestTicketCaller
  <2>2. chunks_' = chunks_ /\ job_' = job_ /\ rows' = rows
        /\ remaining_' = remaining_ /\ pc[t] = "bound"
    BY <1>16 DEF TestTicket
  <2>3. \A u \in Threads : /\ pc'[u] = "finish" <=> pc[u] = "finish"
                           /\ pc[u] = "finish" => ticket'[u] = ticket[u]
    <3>1. PICK l \in {"serve", "check_done", "leave"} : pc' = [pc EXCEPT ![t] = l]
      BY <1>16, TestTicketPc
    <3>2. \A u \in Threads : u # t => ticket'[u] = ticket[u]
      BY <1>16, TestTicketPc
    <3>3. pc \in [Threads -> CallerPC \cup WorkerPC]
      OBVIOUS
    <3> HIDE DEF TypeOK, LockInv, JobInv, DrainInv, RowsInv, TicketInv
    <3> QED BY <2>2, <3>1, <3>2, <3>3
  <2> QED BY <2>1, <2>2, <2>3, OutstandingFrame DEF RemainingExact
<1>17. ASSUME NEW t \in Threads, ServeTicket(t) PROVE RemainingExact'
  <2>1. job_ \in Callers /\ work[t] = job_ /\ pc[job_] \in InJob
    BY <1>17, DrainerFacts DEF ServeTicket
  <2>2. chunks_ = count[job_] /\ ticket[t] \in 0..(chunks_ - 1) /\ chunks_ \in Nat
    BY <2>1, <1>17 DEF ServeTicket
  <2>3. rows'[job_] = rows[job_] \cup {ticket[t]}
    <3>1. {i \in 0..(chunks_ - 1) : i \div kChunk = ticket[t]} = {ticket[t]}
      BY <2>2, ServedRows
    <3>2. rows' = [rows EXCEPT ![job_] =
                     @ \cup {i \in 0..(chunks_ - 1) : i \div kChunk = ticket[t]}]
      BY <2>1, <2>2, <1>17 DEF ServeTicket
    <3> QED BY <2>1, <3>1, <3>2
  <2>4. /\ pc[t] = "serve" /\ pc' = [pc EXCEPT ![t] = "finish"] /\ ticket' = ticket
        /\ chunks_' = chunks_ /\ job_' = job_ /\ remaining_' = remaining_
    BY <1>17 DEF ServeTicket
  <2>5. Outstanding' = Outstanding
    <3>1. pc'[t] = "finish" /\ \A u \in Threads : u # t => pc'[u] = pc[u]
      BY <2>4
    <3> HIDE DEF TypeOK, LockInv, JobInv, DrainInv, RowsInv
    <3>2. ticket[t] \notin rows[job_]
      BY <2>4
    <3>3. \A i \in 0..(chunks_ - 1) :
            (\/ i \notin rows'[job_]
             \/ \E u \in Threads : pc'[u] = "finish" /\ ticket[u] = i)
            <=>
            (\/ i \notin rows[job_]
             \/ \E u \in Threads : pc[u] = "finish" /\ ticket[u] = i)
      BY <2>3, <2>4, <3>1, <3>2
    <3> QED BY <2>4, <3>3 DEF Outstanding
  <2>6. \A d \in Callers : pc'[d] \in InJob => pc[d] \in InJob
    BY <2>4
  <2> QED BY <2>4, <2>5, <2>6 DEF RemainingExact
<1>18. ASSUME NEW t \in Threads, FinishTicket(t) PROVE RemainingExact'
  <2>1. job_ \in Callers /\ pc[job_] \in InJob
    BY <1>18, DrainerFacts DEF FinishTicket
  <2>2. /\ pc[t] = "finish" /\ ticket' = [ticket EXCEPT ![t] = 0]
        /\ chunks_' = chunks_ /\ job_' = job_ /\ remaining_' = remaining_ - 1
        /\ rows' = rows
    BY <1>18 DEF FinishTicket
  <2>3. PICK l \in {"notify", "claim"} : pc' = [pc EXCEPT ![t] = l]
    BY <1>18 DEF FinishTicket
  <2>4. ticket[t] \in 0..(chunks_ - 1) /\ ticket[t] \in rows[job_]
    BY <2>2
  <2>5. ticket[t] \in Outstanding
    BY <2>2, <2>4 DEF Outstanding
  <2>6. Outstanding' = Outstanding \ {ticket[t]}
    <3>1. \A u \in Threads \ {t} : /\ pc'[u] = pc[u]
                                   /\ ticket'[u] = ticket[u]
                                   /\ pc[u] = "finish" => ticket[u] # ticket[t]
      BY <2>2, <2>3
    <3>2. pc'[t] # "finish"
      BY <2>3
    <3> HIDE DEF TypeOK, LockInv, JobInv, DrainInv, RowsInv, TicketInv
    <3>3. \A i \in 0..(chunks_ - 1) :
            (\/ i \notin rows[job_]
             \/ \E u \in Threads : pc'[u] = "finish" /\ ticket'[u] = i)
            <=>
            /\ i # ticket[t]
            /\ \/ i \notin rows[job_]
               \/ \E u \in Threads : pc[u] = "finish" /\ ticket[u] = i
      BY <2>2, <2>4, <3>1, <3>2
    <3> QED BY <2>2, <3>3 DEF Outstanding
  <2>7. remaining_' = Cardinality(Outstanding')
    <3>1. remaining_ = Cardinality(Outstanding)
      BY <2>1 DEF RemainingExact
    <3> QED BY <2>2, <2>5, <2>6, <3>1, OutstandingFinite, FS_RemoveElement
  <2> QED BY <2>7 DEF RemainingExact
<1>19. ASSUME NEW t \in Threads, NotifyFinished(t) PROVE RemainingExact'
  <2> SUFFICES ASSUME NEW d \in Callers, pc'[d] \in InJob
               PROVE  remaining_' = Cardinality(Outstanding')
    BY DEF RemainingExact
  <2>1. pc[d] \in InJob /\ job_ = d
    BY <1>19 DEF NotifyFinished, NotifyDone
  <2>2. chunks_' = chunks_ /\ job_' = job_ /\ rows'[job_] = rows[job_]
        /\ remaining_' = remaining_
    BY <2>1, <1>19 DEF NotifyFinished, NotifyDone
  <2>3. \A u \in Threads : /\ pc'[u] = "finish" <=> pc[u] = "finish"
                           /\ pc[u] = "finish" => ticket'[u] = ticket[u]
    BY <1>19 DEF NotifyFinished, NotifyDone
  <2> QED BY <2>1, <2>2, <2>3, OutstandingFrame DEF RemainingExact
<1>20. ASSUME NEW t \in Threads, SpuriousWakeup(t) PROVE RemainingExact'
  <2> SUFFICES ASSUME NEW d \in Callers, pc'[d] \in InJob
               PROVE  remaining_' = Cardinality(Outstanding')
    BY DEF RemainingExact
  <2>1. pc[d] \in InJob /\ job_ = d
    BY <1>20 DEF SpuriousWakeup
  <2>2. chunks_' = chunks_ /\ job_' = job_ /\ rows'[job_] = rows[job_]
        /\ remaining_' = remaining_
    BY <2>1, <1>20 DEF SpuriousWakeup
  <2>3. \A u \in Threads : /\ pc'[u] = "finish" <=> pc[u] = "finish"
                           /\ pc[u] = "finish" => ticket'[u] = ticket[u]
    BY <1>20 DEF SpuriousWakeup
  <2> QED BY <2>1, <2>2, <2>3, OutstandingFrame DEF RemainingExact
<1>21. CASE UNCHANGED vars
  BY <1>21 DEF vars, RemainingExact, Outstanding
<1>22. QED
  BY <1>1, <1>2, <1>3, <1>4, <1>5, <1>6, <1>7, <1>8, <1>9, <1>10,
     <1>11, <1>12, <1>13, <1>14, <1>15, <1>16, <1>17, <1>18, <1>19, <1>20, <1>21
     DEF Next, run, drain, loop, row_store_lookup

\* The invariant holds initially and every step keeps it.
LEMMA InitInv == Init => IInv
<1> SUFFICES ASSUME Init
             PROVE  IInv
  OBVIOUS
<1> USE PoolAssumption DEF Init, Threads, Draining, Publishing, Waiting, InRun,
        CallerPC, WorkerPC, InJob
<1>1. TypeOK
  BY DEF TypeOK
<1>2. LockInv /\ JobInv
  BY DEF LockInv, JobInv
<1>3. DrainInv
  BY DEF DrainInv, ActiveWorkers
<1>4. RowsInv /\ TicketInv
  BY DEF RowsInv, TicketInv
<1>5. CountersExact
  <2>1. ActiveWorkers = {}
    BY DEF ActiveWorkers
  <2>2. Cardinality({}) = 0
    BY FS_EmptySet
  <2> QED BY <2>1, <2>2 DEF CountersExact, ActiveExact, RemainingExact
<1> QED BY <1>1, <1>2, <1>3, <1>4, <1>5 DEF IInv

LEMMA StepInv == IInv /\ [Next]_vars => IInv'
BY TypeStep, LockStep, JobStep, DrainStep, RowsStep, TicketStep, ActiveStep,
   RemainingStep
   DEF IInv, CountersExact

(* The inductive invariant, for every number of callers and workers.        *)
THEOREM PoolInvariant == Spec => []IInv
BY InitInv, StepInv, PTL DEF Spec

(* Pool::run and Pool::loop keep every variable in its type.                *)
THEOREM TypeCorrect == Spec => []TypeOK
<1>1. IInv => TypeOK
  BY DEF IInv
<1> QED BY <1>1, PoolInvariant, PTL

(* Worker threads only ever drain a job whose caller is still inside run(). *)
THEOREM NoLateDrain == Spec => []NoDrainOutsideRun
<1>1. IInv => NoDrainOutsideRun
  <2> SUFFICES ASSUME IInv, NEW t \in Threads, pc[t] \in Draining \cup {"leave"}
               PROVE  /\ work[t] # NoOne
                      /\ job_ = work[t] /\ caller_ = work[t]
                      /\ pc[work[t]] \in InJob
    BY DEF NoDrainOutsideRun
  <2> USE PoolAssumption
      DEF IInv, TypeOK, LockInv, JobInv, DrainInv, ActiveWorkers, InJob, InRun,
          Draining, Waiting, Publishing, Threads, CallerPC
  <2>1. CASE t \in Callers
    BY <2>1
  <2>2. CASE t \in Workers
    <3>1. work[t] # NoOne /\ work[t] = job_ /\ pc[job_] \in InJob
      BY <2>2
    <3>2. job_ \in Callers
      BY <3>1
    <3> QED BY <3>1, <3>2
  <2> QED BY <2>1, <2>2
<1> QED BY <1>1, PoolInvariant, PTL

(* The ticket counter never hands the same id to two threads.               *)
THEOREM ExclusiveTickets == Spec => []TicketsExclusive
<1>1. IInv => TicketsExclusive
  <2> SUFFICES ASSUME IInv, NEW t \in Threads, pc[t] = "serve"
               PROVE  /\ ticket[t] \in (0..(count[work[t]] - 1)) \ rows[work[t]]
                      /\ \A u \in Threads \ {t} :
                           pc[u] \in {"serve", "finish"} => ticket[u] # ticket[t]
    BY DEF TicketsExclusive
  <2>1. job_ \in Callers /\ work[t] = job_ /\ pc[job_] \in InJob
    BY DrainerFacts DEF IInv, Draining
  <2>2. chunks_ = count[job_]
    BY <2>1 DEF IInv, RowsInv
  <2>3. /\ ticket[t] < chunks_ /\ ticket[t] \notin rows[job_]
        /\ \A u \in Threads \ {t} :
             pc[u] \in {"serve", "finish"} => ticket[u] # ticket[t]
    BY DEF IInv, TicketInv
  <2>4. ticket[t] \in Nat /\ count[job_] \in Nat
    BY <2>1 DEF IInv, TypeOK
  <2> QED BY <2>1, <2>2, <2>3, <2>4
<1> QED BY <1>1, PoolInvariant, PTL

(* remaining_ and active_ count what they are meant to count, so that their *)
(* both being zero means that all rows are written and all workers gone.    *)
THEOREM ExactCounters == Spec => []CountersExact
<1>1. IInv => CountersExact
  BY DEF IInv
<1> QED BY <1>1, PoolInvariant, PTL

-----------------------------------------------------------------------------
(* The initial states and every step of the pool, seen through busy <- "the *)
(* caller is not idle", are those of RowLookup.                             *)
LEMMA InitPromise == Init => Promise!Init
BY PoolAssumption DEF Init, Promise!Init, Threads

Busy == [c \in Callers |-> pc[c] # "idle"]

LEMMA SameBusy ==
  ASSUME UNCHANGED <<count, rows>>,
         \A d \in Callers : pc'[d] # "idle" <=> pc[d] # "idle"
  PROVE  [Promise!Next]_Promise!vars
<1>1. \A d \in Callers : (pc'[d] # "idle") = (pc[d] # "idle")
  OBVIOUS
<1>2. [c \in Callers |-> pc'[c] # "idle"] = [c \in Callers |-> pc[c] # "idle"]
  BY <1>1, Zenon
<1> QED BY <1>2 DEF Promise!vars

LEMMA BusyBecomes ==
  ASSUME TypeOK, NEW c \in Callers, NEW l, pc' = [pc EXCEPT ![c] = l]
  PROVE  /\ l # "idle" => Busy' = [Busy EXCEPT ![c] = TRUE]
         /\ l = "idle" => Busy' = [Busy EXCEPT ![c] = FALSE]
         /\ pc[c] # "idle" => Busy[c]
         /\ pc[c] = "idle" => ~Busy[c]
BY DEF Busy, TypeOK, Threads

LEMMA StepPromise ==
  IInv /\ [Next]_vars
  => [Promise!Next]_Promise!vars
<1> SUFFICES ASSUME IInv, [Next]_vars
             PROVE  [Promise!Next]_Promise!vars
  OBVIOUS
<1> USE PoolAssumption
        DEF Threads, Goto, shared, Draining, Publishing, Waiting, InRun,
            CallerPC, WorkerPC, InJob, IInv, TypeOK, LockInv, JobInv,
            DrainInv, ActiveWorkers, RowsInv, TicketInv
<1>1. ASSUME NEW c \in Callers, Lookup(c) PROVE [Promise!Next]_Promise!vars
  <2>1. ~Busy[c] /\ Busy' = [Busy EXCEPT ![c] = TRUE]
    <3>1. PICK l \in {"serial", "enter"} : pc' = [pc EXCEPT ![c] = l]
      BY <1>1 DEF Lookup
    <3>2. pc[c] = "idle"
      BY <1>1 DEF Lookup
    <3> QED BY <3>1, <3>2, BusyBecomes
  <2>2. Promise!Begin(c)
    BY <2>1, <1>1 DEF Lookup, Promise!Begin, Busy
  <2> QED BY <2>2 DEF Promise!Next
<1>2. ASSUME NEW c \in Callers, ServeSerially(c) PROVE [Promise!Next]_Promise!vars
  <2>1. Busy' = Busy /\ Busy[c]
    <3>1. pc' = pc /\ pc[c] = "serial"
      BY <1>2 DEF ServeSerially
    <3> QED BY <3>1 DEF Busy
  <2>2. rows[c] = {}
    BY <1>2 DEF ServeSerially
  <2>3. rows' = [rows EXCEPT ![c] = @ \cup 0..(count[c] - 1)] /\ count' = count
    BY <1>2 DEF ServeSerially
  <2>4. 0..(count[c] - 1) \in SUBSET ((0..(count[c] - 1)) \ rows[c])
    BY <2>2
  <2>5. Promise!Write(c)
    BY <2>1, <2>3, <2>4 DEF Promise!Write, Busy
  <2> QED BY <2>5 DEF Promise!Next
<1>3. ASSUME NEW c \in Callers, ReturnSerial(c) PROVE [Promise!Next]_Promise!vars
  <2>1. Busy[c] /\ Busy' = [Busy EXCEPT ![c] = FALSE]
    <3>1. pc' = [pc EXCEPT ![c] = "idle"] /\ pc[c] = "serial"
      BY <1>3 DEF ReturnSerial
    <3> QED BY <3>1, BusyBecomes
  <2>2. rows[c] = 0..(count[c] - 1) /\ count' = count /\ rows' = rows
    BY <1>3 DEF ReturnSerial
  <2>3. Promise!Return(c)
    BY <2>1, <2>2 DEF Promise!Return, Busy
  <2> QED BY <2>3 DEF Promise!Next
<1>4. ASSUME NEW c \in Callers, SerializeCallers(c) PROVE [Promise!Next]_Promise!vars
  <2>1. UNCHANGED <<count, rows>>
    BY <1>4 DEF SerializeCallers
  <2>2. \A d \in Callers : pc'[d] # "idle" <=> pc[d] # "idle"
    BY <1>4 DEF SerializeCallers
  <2> QED BY <2>1, <2>2, SameBusy
<1>5. ASSUME NEW c \in Callers, PublishJob(c) PROVE [Promise!Next]_Promise!vars
  <2>1. UNCHANGED <<count, rows>>
    BY <1>5 DEF PublishJob
  <2>2. \A d \in Callers : pc'[d] # "idle" <=> pc[d] # "idle"
    BY <1>5 DEF PublishJob
  <2> QED BY <2>1, <2>2, SameBusy
<1>6. ASSUME NEW c \in Callers, PublishChunks(c) PROVE [Promise!Next]_Promise!vars
  <2>1. UNCHANGED <<count, rows>>
    BY <1>6 DEF PublishChunks
  <2>2. \A d \in Callers : pc'[d] # "idle" <=> pc[d] # "idle"
    BY <1>6 DEF PublishChunks
  <2> QED BY <2>1, <2>2, SameBusy
<1>7. ASSUME NEW c \in Callers, PublishRemaining(c) PROVE [Promise!Next]_Promise!vars
  <2>1. UNCHANGED <<count, rows>>
    BY <1>7 DEF PublishRemaining
  <2>2. \A d \in Callers : pc'[d] # "idle" <=> pc[d] # "idle"
    BY <1>7 DEF PublishRemaining
  <2> QED BY <2>1, <2>2, SameBusy
<1>8. ASSUME NEW c \in Callers, NotifyReady(c) PROVE [Promise!Next]_Promise!vars
  <2>1. UNCHANGED <<count, rows>>
    BY <1>8 DEF NotifyReady
  <2>2. \A d \in Callers : pc'[d] # "idle" <=> pc[d] # "idle"
    BY <1>8 DEF NotifyReady
  <2> QED BY <2>1, <2>2, SameBusy
<1>9. ASSUME NEW c \in Callers, CheckDone(c) PROVE [Promise!Next]_Promise!vars
  <2>1. UNCHANGED <<count, rows>>
    BY <1>9 DEF CheckDone
  <2>2. \A d \in Callers : pc'[d] # "idle" <=> pc[d] # "idle"
    BY <1>9, CheckDonePc DEF CheckDone
  <2> QED BY <2>1, <2>2, SameBusy
<1>10. ASSUME NEW c \in Callers, BlockOnDone(c) PROVE [Promise!Next]_Promise!vars
  <2>1. UNCHANGED <<count, rows>>
    BY <1>10 DEF BlockOnDone
  <2>2. \A d \in Callers : pc'[d] # "idle" <=> pc[d] # "idle"
    BY <1>10 DEF BlockOnDone
  <2> QED BY <2>1, <2>2, SameBusy
<1>11. ASSUME NEW c \in Callers, ReturnRun(c) PROVE [Promise!Next]_Promise!vars
  <2>1. Busy[c] /\ Busy' = [Busy EXCEPT ![c] = FALSE]
    <3>1. pc' = [pc EXCEPT ![c] = "idle"] /\ pc[c] = "unlock"
      BY <1>11 DEF ReturnRun
    <3> QED BY <3>1, BusyBecomes
  <2>2. rows[c] = 0..(count[c] - 1) /\ count' = count /\ rows' = rows
    BY <1>11 DEF ReturnRun
  <2>3. Promise!Return(c)
    BY <2>1, <2>2 DEF Promise!Return, Busy
  <2> QED BY <2>3 DEF Promise!Next
<1>12. ASSUME NEW w \in Workers, TakeJob(w) PROVE [Promise!Next]_Promise!vars
  <2>1. UNCHANGED <<count, rows>>
    BY <1>12 DEF TakeJob
  <2>2. \A d \in Callers : pc'[d] # "idle" <=> pc[d] # "idle"
    BY <1>12, TakeJobPc DEF TakeJob
  <2> QED BY <2>1, <2>2, SameBusy
<1>13. ASSUME NEW w \in Workers, BlockOnReady(w) PROVE [Promise!Next]_Promise!vars
  <2>1. UNCHANGED <<count, rows>>
    BY <1>13 DEF BlockOnReady
  <2>2. \A d \in Callers : pc'[d] # "idle" <=> pc[d] # "idle"
    BY <1>13 DEF BlockOnReady
  <2> QED BY <2>1, <2>2, SameBusy
<1>14. ASSUME NEW w \in Workers, LeaveDrain(w) PROVE [Promise!Next]_Promise!vars
  <2>1. UNCHANGED <<count, rows>>
    BY <1>14 DEF LeaveDrain
  <2>2. \A d \in Callers : pc'[d] # "idle" <=> pc[d] # "idle"
    BY <1>14 DEF LeaveDrain, NotifyDone
  <2> QED BY <2>1, <2>2, SameBusy
<1>15. ASSUME NEW t \in Threads, ClaimTicket(t) PROVE [Promise!Next]_Promise!vars
  <2>1. UNCHANGED <<count, rows>>
    BY <1>15 DEF ClaimTicket
  <2>2. \A d \in Callers : pc'[d] # "idle" <=> pc[d] # "idle"
    BY <1>15 DEF ClaimTicket
  <2> QED BY <2>1, <2>2, SameBusy
<1>16. ASSUME NEW t \in Threads, TestTicket(t) PROVE [Promise!Next]_Promise!vars
  <2>1. UNCHANGED <<count, rows>>
    BY <1>16 DEF TestTicket
  <2>2. \A d \in Callers : pc'[d] # "idle" <=> pc[d] # "idle"
    BY <1>16, TestTicketCaller DEF TestTicket
  <2> QED BY <2>1, <2>2, SameBusy
<1>17. ASSUME NEW t \in Threads, ServeTicket(t) PROVE [Promise!Next]_Promise!vars
  <2>1. job_ \in Callers /\ work[t] = job_ /\ pc[job_] \in InJob
    BY <1>17, DrainerFacts DEF ServeTicket
  <2>2. ticket[t] \in (0..(count[job_] - 1)) \ rows[job_]
    BY <2>1, <1>17 DEF ServeTicket
  <2>3. {i \in 0..(count[job_] - 1) : i \div kChunk = ticket[t]} = {ticket[t]}
    BY <2>1, <2>2, ServedRows
  <2>4. rows' = [rows EXCEPT ![job_] = @ \cup {ticket[t]}] /\ count' = count
    <3>1. rows' = [rows EXCEPT ![job_] =
                     @ \cup {i \in 0..(count[job_] - 1) : i \div kChunk = ticket[t]}]
      BY <2>1, <1>17 DEF ServeTicket
    <3>2. count' = count
      BY <1>17 DEF ServeTicket
    <3> QED BY <2>3, <3>1, <3>2
  <2>5. Busy' = Busy /\ Busy[job_]
    <3>1. pc' = [pc EXCEPT ![t] = "finish"] /\ pc[t] = "serve"
      BY <1>17 DEF ServeTicket
    <3>2. \A d \in Callers : pc'[d] # "idle" <=> pc[d] # "idle"
      BY <3>1
    <3>3. pc[job_] # "idle"
      BY <2>1
    <3>4. \A d \in Callers : (pc'[d] # "idle") = (pc[d] # "idle")
      BY <3>2
    <3>5. Busy' = Busy
      BY <3>4, Zenon DEF Busy
    <3> QED BY <2>1, <3>3, <3>5 DEF Busy
  <2>6. {ticket[t]} \in SUBSET ((0..(count[job_] - 1)) \ rows[job_])
    BY <2>2
  <2>7. Promise!Write(job_)
    BY <2>4, <2>5, <2>6 DEF Promise!Write, Busy
  <2> QED BY <2>1, <2>7 DEF Promise!Next
<1>18. ASSUME NEW t \in Threads, FinishTicket(t) PROVE [Promise!Next]_Promise!vars
  <2>1. UNCHANGED <<count, rows>>
    BY <1>18 DEF FinishTicket
  <2>2. \A d \in Callers : pc'[d] # "idle" <=> pc[d] # "idle"
    BY <1>18 DEF FinishTicket
  <2> QED BY <2>1, <2>2, SameBusy
<1>19. ASSUME NEW t \in Threads, NotifyFinished(t) PROVE [Promise!Next]_Promise!vars
  <2>1. UNCHANGED <<count, rows>>
    BY <1>19 DEF NotifyFinished
  <2>2. \A d \in Callers : pc'[d] # "idle" <=> pc[d] # "idle"
    BY <1>19 DEF NotifyFinished, NotifyDone
  <2> QED BY <2>1, <2>2, SameBusy
<1>20. ASSUME NEW t \in Threads, SpuriousWakeup(t) PROVE [Promise!Next]_Promise!vars
  <2>1. UNCHANGED <<count, rows>>
    BY <1>20 DEF SpuriousWakeup
  <2>2. \A d \in Callers : pc'[d] # "idle" <=> pc[d] # "idle"
    BY <1>20 DEF SpuriousWakeup
  <2> QED BY <2>1, <2>2, SameBusy
<1>21. CASE UNCHANGED vars
  <2>1. UNCHANGED <<count, rows>> /\ pc' = pc
    BY <1>21 DEF vars
  <2> QED BY <2>1, SameBusy
<1>22. QED
  BY <1>1, <1>2, <1>3, <1>4, <1>5, <1>6, <1>7, <1>8, <1>9, <1>10,
     <1>11, <1>12, <1>13, <1>14, <1>15, <1>16, <1>17, <1>18, <1>19, <1>20, <1>21
     DEF Next, run, drain, loop, row_store_lookup

(* row_store_lookup keeps its promise, whatever the number of threads: each *)
(* row is written exactly once and within the call that asked for it.       *)
THEOREM ImplementsLookup == Spec => LookupPromise
BY InitPromise, StepPromise, PoolInvariant, PTL
   DEF Spec, LookupPromise, Promise!Spec

-----------------------------------------------------------------------------
(* Induction, recursion and sequences *)

\* Every nonempty set of naturals has a least element: what induction rests on.
LEMMA Least ==
  ASSUME NEW T \in SUBSET Nat, T # {}
  PROVE  \E k \in T : \A l \in T : k <= l
<1> DEFINE R == OpToRel(<, Nat)
<1>1. IsWellFoundedOn(R, Nat)
  BY NatLessThanWellFounded
<1>2. \E k \in T : \A l \in T : ~ (<<l, k>> \in R)
  BY <1>1, WFMin, Zenon
<1>3. \A k, l \in T : <<l, k>> \notin R => k <= l
  BY DEF OpToRel
<1> QED BY <1>2, <1>3

\* A set of numbers up to n that has 0 and, with a number, the next one has all.
LEMMA Induction ==
  ASSUME NEW n \in Nat, NEW P, 0 \in P, \A i \in 0..(n - 1) : i \in P => i + 1 \in P
  PROVE  \A i \in 0..n : i \in P
<1> DEFINE T == {m \in 0..n : m \notin P}
<1> SUFFICES ASSUME T # {} PROVE FALSE
  OBVIOUS
<1>1. T \in SUBSET Nat
  OBVIOUS
<1>2. PICK k \in T : \A l \in T : k <= l
  BY <1>1, Least, Zenon
<1>3. k \in 0..n /\ k # 0 /\ k \notin P
  BY <1>2
<1>4. k - 1 \in 0..(n - 1) /\ (k - 1) + 1 = k /\ k - 1 \in 0..n
  BY <1>3
<1>5. k - 1 \in P
  BY <1>2, <1>4
<1> QED
  BY <1>3, <1>4, <1>5

\* A function can be built step by step.
Iterates(f, n, a, G) == f[0] = a /\ \A i \in 1..n : f[i] = G[i][f[i - 1]]
LEMMA Iterated ==
  ASSUME NEW n \in Nat, NEW A, NEW a \in A, NEW G \in [1..n -> [A -> A]]
  PROVE  \E f \in [0..n -> A] : Iterates(f, n, a, G)
<1> DEFINE Some(m) == \E f \in [0..m -> A] : f[0] = a /\ \A i \in 1..m : f[i] = G[i][f[i - 1]]
           P == {m \in 0..n : Some(m)}
<1>1. Some(0)
  <2>1. [i \in 0..0 |-> a] \in [0..0 -> A] /\ [i \in 0..0 |-> a][0] = a /\ 1..0 = {}
    OBVIOUS
  <2> QED
    BY <2>1
<1>2. ASSUME NEW m \in 0..(n - 1), Some(m) PROVE Some(m + 1)
  <2>1. PICK f \in [0..m -> A] : f[0] = a /\ \A i \in 1..m : f[i] = G[i][f[i - 1]]
    BY <1>2
  <2> DEFINE last == G[m + 1][f[m]]
             h == [i \in 0..(m + 1) |-> IF i = m + 1 THEN last ELSE f[i]]
  <2>2. m \in Nat /\ m + 1 \in 1..n /\ m \in 0..m /\ f[m] \in A
    OBVIOUS
  <2>3. last \in A
    BY <2>2
  <2> HIDE DEF last
  <2>4. h \in [0..(m + 1) -> A]
    BY <2>2, <2>3
  <2>5. h[0] = a /\ h[m + 1] = last /\ \A i \in 0..m : h[i] = f[i]
    BY <2>1, <2>2
  <2> HIDE DEF h
  <2>6. ASSUME NEW i \in 1..(m + 1) PROVE h[i] = G[i][h[i - 1]]
    <3>1. CASE i = m + 1
      <4>1. i - 1 = m
        BY <2>2, <3>1
      <4> QED
        BY <2>2, <2>5, <3>1, <4>1 DEF last
    <3>2. CASE i # m + 1
      <4>1. i \in 1..m /\ i \in 0..m /\ i - 1 \in 0..m
        BY <2>2, <3>2
      <4> QED
        BY <2>1, <2>5, <4>1
    <3> QED
      BY <3>1, <3>2
  <2> QED
    BY <2>4, <2>5, <2>6
<1>3. \A m \in 0..n : m \in P
  <2> HIDE DEF Some
  <2>1. 0 \in P
    BY <1>1
  <2>2. \A m \in 0..(n - 1) : m \in P => m + 1 \in P
    BY <1>2
  <2> HIDE DEF P
  <2> QED
    BY <2>1, <2>2, Induction
<1>4. Some(n)
  <2> HIDE DEF Some
  <2> QED
    BY <1>3
<1> QED
  BY <1>4 DEF Iterates

LEMMA FunSeq == \A S : \A n \in Nat : \A f \in [1..n -> S] : f \in Seq(S) /\ Len(f) = n
  BY SeqDef

LEMMA SeqFacts ==
  ASSUME NEW S, NEW s \in Seq(S)
  PROVE  /\ Len(s) \in Nat /\ DOMAIN s = 1..Len(s)
         /\ \A i \in 1..Len(s) : s[i] \in S
         /\ ToSet(s) = {s[i] : i \in 1..Len(s)} /\ ToSet(s) \subseteq S
         /\ s = <<>> <=> Len(s) = 0
<1>1. Len(s) \in Nat /\ DOMAIN s = 1..Len(s) /\ s \in [1..Len(s) -> S]
  BY LenProperties
<1>2. s = <<>> <=> Len(s) = 0
  BY EmptySeq
<1> QED
  BY <1>1, <1>2 DEF ToSet

LEMMA AppendFacts ==
  ASSUME NEW S, NEW s \in Seq(S), NEW e \in S
  PROVE  /\ Append(s, e) \in Seq(S) /\ Len(Append(s, e)) = Len(s) + 1
         /\ \A i \in 1..Len(s) : Append(s, e)[i] = s[i]
         /\ Append(s, e)[Len(s) + 1] = e
         /\ ToSet(Append(s, e)) = ToSet(s) \cup {e}
<1>1. /\ Append(s, e) \in Seq(S) /\ Len(Append(s, e)) = Len(s) + 1
      /\ \A i \in 1..Len(s) : Append(s, e)[i] = s[i]
      /\ Append(s, e)[Len(s) + 1] = e
  OBVIOUS
<1>2. ToSet(Append(s, e)) = ToSet(s) \cup {e}
  <2>1. ToSet(Append(s, e)) = {Append(s, e)[i] : i \in 1..Len(s) + 1} /\ ToSet(s) = {s[i] : i \in 1..Len(s)}
    BY <1>1, SeqFacts
  <2>2. Len(s) \in Nat
    BY SeqFacts
  <2> QED
    BY <1>1, <2>1, <2>2
<1> QED
  BY <1>1, <1>2

-----------------------------------------------------------------------------
(* One request, from its prompt to its last delta *)

\* Each id decodes to at least one character.
LEMMA Decoded == \A id \in Ids : Text[id] \in Seq(Alphabet) /\ Text[id] # <<>> /\ Len(Text[id]) \in Nat \ {0}
<1>1. \A id \in Ids : Text[id] \in Seq(Alphabet) /\ Text[id] # <<>>
  BY VocabAssumption
<1> QED
  BY <1>1, EmptySeq

\* Texts are joined in any grouping.
LEMMA Associative ==
  \A a, b, c \in Seq(Alphabet) : (a \o b) \o c = a \o (b \o c)
BY ConcatAssociative

\* A decode goes through its ids once.
Decodes(g, s) ==
  g[0] = <<>> /\ g[Len(s)] = Decode(s) /\ \A i \in 1..Len(s) : g[i] = g[i - 1] \o Text[s[i]]
LEMMA DecodeSteps ==
  ASSUME NEW s \in Seq(Ids)
  PROVE  \E g \in [0..Len(s) -> Seq(Alphabet)] : Decodes(g, s)
<1> DEFINE n == Len(s)
           A == Seq(Alphabet)
           Body(f, i) == IF i = 0 THEN <<>> ELSE f[i - 1] \o Text[s[i]]
           G == [i \in 1..n |-> [y \in A |-> y \o Text[s[i]]]]
           g == CHOOSE f : f = [i \in 0..n |-> Body(f, i)]
<1>1. n \in Nat /\ <<>> \in A /\ \A i \in 1..n : s[i] \in Ids /\ Text[s[i]] \in A
  BY SeqFacts, EmptySeq, Decoded
<1>2. G \in [1..n -> [A -> A]]
  <2>1. ASSUME NEW i \in 1..n, NEW y \in A PROVE y \o Text[s[i]] \in A
    BY <1>1, ConcatProperties
  <2> QED
    BY <2>1
<1>3. PICK f \in [0..n -> A] : f[0] = <<>> /\ \A i \in 1..n : f[i] = G[i][f[i - 1]]
  <2> HIDE DEF G, n, A
  <2>1. \E f \in [0..n -> A] : Iterates(f, n, <<>>, G)
    BY <1>1, <1>2, Iterated
  <2> QED
    BY <2>1 DEF Iterates
<1>4. \A i \in 0..n : f[i] = Body(f, i)
  <2> TAKE i \in 0..n
  <2>1. CASE i = 0
    BY <1>3, <2>1
  <2>2. CASE i # 0
    <3>1. i \in 1..n /\ i - 1 \in 0..n
      BY <1>1, <2>2
    <3>2. f[i] = G[i][f[i - 1]] /\ f[i - 1] \in A
      BY <1>3, <3>1
    <3> QED
      BY <2>2, <3>1, <3>2
  <2> QED
    BY <2>1, <2>2
<1> HIDE DEF G, Body
<1>5. g = [i \in 0..n |-> Body(g, i)]
  <2>1. f = [i \in 0..n |-> Body(f, i)]
    BY <1>4
  <2> QED
    BY <2>1
<1>6. Decode(s) = g[n]
  BY DEF Decode, Body
<1> HIDE DEF g
<1>7. g[0] = <<>> /\ \A i \in 1..n : g[i] = g[i - 1] \o Text[s[i]]
  <2>1. \A i \in 0..n : g[i] = Body(g, i)
    BY <1>5
  <2>2. 0 \in 0..n /\ \A i \in 1..n : i \in 0..n /\ i # 0
    BY <1>1
  <2>3. g[0] = <<>>
    BY <2>1, <2>2 DEF Body
  <2>4. ASSUME NEW i \in 1..n PROVE g[i] = g[i - 1] \o Text[s[i]]
    BY <2>1, <2>2, Zenon DEF Body
  <2> QED
    BY <2>3, <2>4
<1>8. \A i \in 0..n : i \in {j \in 0..n : g[j] \in A}
  <2> DEFINE P == {j \in 0..n : g[j] \in A}
  <2>1. 0 \in P
    <3>1. 0 \in 0..n
      BY <1>1
    <3> QED
      BY <1>1, <1>7, <3>1, Zenon
  <2>2. ASSUME NEW i \in 0..(n - 1), i \in P PROVE i + 1 \in P
    <3>1. i + 1 \in 1..n /\ (i + 1) - 1 = i /\ i + 1 \in 0..n
      BY <1>1
    <3>2. g[i] \o Text[s[i + 1]] \in A
      BY <1>1, <2>2, <3>1, ConcatProperties
    <3> QED
      BY <1>7, <3>1, <3>2
  <2> HIDE DEF P, n
  <2>3. \A i \in 0..n : i \in P
    BY <1>1, <2>1, <2>2, Induction
  <2> QED
    BY <2>3 DEF P
<1>9. g \in [0..n -> A]
  BY <1>5, <1>8
<1> QED
  BY <1>6, <1>7, <1>9 DEF Decodes

\* A decode is a text.
LEMMA DecodeTyped == \A s \in Seq(Ids) : Decode(s) \in Seq(Alphabet) /\ Len(Decode(s)) \in Nat
<1> TAKE s \in Seq(Ids)
<1>1. PICK g \in [0..Len(s) -> Seq(Alphabet)] : Decodes(g, s)
  BY DecodeSteps
<1>2. Len(s) \in 0..Len(s)
  BY SeqFacts
<1>3. Decode(s) \in Seq(Alphabet)
  BY <1>1, <1>2 DEF Decodes
<1> QED
  BY <1>3, SeqFacts

\* The decode of ids that follow others follows theirs.
LEMMA DecodeConcat ==
  ASSUME NEW a \in Seq(Ids), NEW b \in Seq(Ids)
  PROVE  a \o b \in Seq(Ids) /\ Decode(a \o b) = Decode(a) \o Decode(b)
<1> DEFINE s == a \o b
           l == Len(a)
           m == Len(b)
<1>1. /\ s \in Seq(Ids) /\ Len(s) = l + m /\ l \in Nat /\ m \in Nat
      /\ \A i \in 1..l : s[i] = a[i]
      /\ \A i \in 1..m : s[l + i] = b[i]
  <2>1. \A i \in 1..(l + m) : s[i] = IF i <= l THEN a[i] ELSE b[i - l]
    BY ConcatProperties
  <2>2. s \in Seq(Ids) /\ Len(s) = l + m /\ l \in Nat /\ m \in Nat
    BY ConcatProperties, SeqFacts
  <2>3. ASSUME NEW i \in 1..l PROVE s[i] = a[i]
    BY <2>1, <2>2
  <2>4. ASSUME NEW i \in 1..m PROVE s[l + i] = b[i]
    <3>1. l + i \in 1..(l + m) /\ ~(l + i <= l) /\ (l + i) - l = i
      BY <2>2
    <3> QED
      BY <2>1, <3>1
  <2> QED
    BY <2>2, <2>3, <2>4
<1>n. l \in Nat /\ m \in Nat
  BY <1>1
<1> HIDE DEF s, l, m
<1>2. PICK g \in [0..(l + m) -> Seq(Alphabet)] : Decodes(g, s)
  BY <1>1, DecodeSteps
<1>3. PICK ga \in [0..l -> Seq(Alphabet)] : Decodes(ga, a)
  BY DecodeSteps DEF l
<1>4. PICK gb \in [0..m -> Seq(Alphabet)] : Decodes(gb, b)
  BY DecodeSteps DEF m
<1>5. /\ g[0] = <<>> /\ g[l + m] = Decode(s) /\ \A i \in 1..(l + m) : g[i] = g[i - 1] \o Text[s[i]]
      /\ ga[0] = <<>> /\ ga[l] = Decode(a) /\ \A i \in 1..l : ga[i] = ga[i - 1] \o Text[a[i]]
      /\ gb[0] = <<>> /\ gb[m] = Decode(b) /\ \A i \in 1..m : gb[i] = gb[i - 1] \o Text[b[i]]
  BY <1>1, <1>2, <1>3, <1>4 DEF Decodes, l, m
<1>6. \A i \in 0..l : i \in {j \in 0..l : g[j] = ga[j]}
  <2> DEFINE P == {j \in 0..l : g[j] = ga[j]}
  <2>1. 0 \in P
    <3>1. g[0] = ga[0]
      BY <1>5, Zenon
    <3>2. 0 \in 0..l
      BY <1>1
    <3> QED
      BY <3>1, <3>2
  <2>2. ASSUME NEW i \in 0..(l - 1), i \in P PROVE i + 1 \in P
    <3>1. i + 1 \in 1..l /\ (i + 1) - 1 = i /\ i + 1 \in 0..l /\ i + 1 \in 1..(l + m)
      BY <1>n
    <3>2. g[i + 1] = g[i] \o Text[s[i + 1]] /\ ga[i + 1] = ga[i] \o Text[a[i + 1]]
      BY <1>5, <3>1
    <3>3. s[i + 1] = a[i + 1] /\ g[i] = ga[i]
      BY <1>1, <2>2, <3>1
    <3> QED
      BY <3>1, <3>2, <3>3
  <2> HIDE DEF P
  <2>3. \A i \in 0..l : i \in P
    BY <1>1, <2>1, <2>2, Induction
  <2> QED
    BY <2>3 DEF P
<1>7. g[l] = Decode(a) /\ Decode(a) \in Seq(Alphabet)
  BY <1>1, <1>5, <1>6, DecodeTyped
<1>8. \A i \in 0..m : i \in {j \in 0..m : g[l + j] = Decode(a) \o gb[j]}
  <2> DEFINE P == {j \in 0..m : g[l + j] = Decode(a) \o gb[j]}
  <2>1. 0 \in P
    <3>1. 0 \in 0..m /\ l + 0 = l
      BY <1>1
    <3>2. Decode(a) \o gb[0] = Decode(a)
      BY <1>5, <1>7, ConcatEmptySeq
    <3> QED
      BY <1>7, <3>1, <3>2
  <2>2. ASSUME NEW i \in 0..(m - 1), i \in P PROVE i + 1 \in P
    <3>1. /\ i + 1 \in 1..m /\ (i + 1) - 1 = i /\ i + 1 \in 0..m /\ i \in 0..m
          /\ l + (i + 1) \in 1..(l + m) /\ (l + (i + 1)) - 1 = l + i
      BY <1>1
    <3>2. g[l + (i + 1)] = g[l + i] \o Text[b[i + 1]] /\ gb[i + 1] = gb[i] \o Text[b[i + 1]]
      <4>1. s[l + (i + 1)] = b[i + 1]
        BY <1>1, <3>1
      <4>2. g[l + (i + 1)] = g[l + i] \o Text[s[l + (i + 1)]]
        BY <1>5, <3>1
      <4>3. gb[i + 1] = gb[i] \o Text[b[i + 1]]
        BY <1>5, <3>1
      <4> QED
        BY <4>1, <4>2, <4>3
    <3>3. g[l + i] = Decode(a) \o gb[i] /\ gb[i] \in Seq(Alphabet) /\ Text[b[i + 1]] \in Seq(Alphabet)
      <4>1. b[i + 1] \in Ids
        BY <3>1, SeqFacts DEF m
      <4> QED
        BY <2>2, <3>1, <4>1, Decoded
    <3>4. g[l + (i + 1)] = Decode(a) \o gb[i + 1]
      <4>1. (Decode(a) \o gb[i]) \o Text[b[i + 1]] = Decode(a) \o (gb[i] \o Text[b[i + 1]])
        <5>1. /\ Decode(a) \in Seq(Alphabet) /\ gb[i] \in Seq(Alphabet)
              /\ Text[b[i + 1]] \in Seq(Alphabet)
          BY <1>7, <3>3
        <5> QED
          BY <5>1, Associative
      <4> QED
        BY <3>2, <3>3, <4>1
    <3> QED
      BY <3>1, <3>4
  <2> HIDE DEF P
  <2>3. \A i \in 0..m : i \in P
    BY <1>1, <2>1, <2>2, Induction
  <2> QED
    BY <2>3 DEF P
<1>9. m \in 0..m
  BY <1>1
<1>10. Decode(s) = Decode(a) \o Decode(b)
  BY <1>5, <1>8, <1>9
<1> QED
  BY <1>1, <1>10 DEF s

\* No ids decode to no characters,
LEMMA DecodeNone == Decode(<<>>) = <<>>
<1>1. <<>> \in Seq(Ids) /\ Len(<<>>) = 0
  BY EmptySeq
<1> QED
  BY <1>1, DecodeSteps DEF Decodes

\* and one id to its own.
LEMMA DecodeOne == \A id \in Ids : <<id>> \in Seq(Ids) /\ Decode(<<id>>) = Text[id]
<1> TAKE id \in Ids
<1>1. <<id>> \in Seq(Ids) /\ Len(<<id>>) = 1 /\ <<id>>[1] = id
  OBVIOUS
<1>2. PICK g \in [0..1 -> Seq(Alphabet)] : Decodes(g, <<id>>)
  BY <1>1, DecodeSteps
<1>3. g[0] = <<>> /\ g[1] = Decode(<<id>>) /\ g[1] = g[0] \o Text[id]
  <2>1. 1 \in 1..1 /\ 1 - 1 = 0
    OBVIOUS
  <2>2. /\ g[0] = <<>> /\ g[1] = Decode(<<id>>)
        /\ \A i \in 1..1 : g[i] = g[i - 1] \o Text[<<id>>[i]]
    BY <1>1, <1>2 DEF Decodes
  <2> QED
    BY <1>1, <2>1, <2>2
<1>4. <<>> \o Text[id] = Text[id]
  BY Decoded, ConcatEmptySeq
<1> QED
  BY <1>1, <1>3, <1>4, Zenon

-----------------------------------------------------------------------------
(* The matcher *)

\* The matcher's states, and its histories.
States == DOMAIN Rules \cup {Terminated}
Paths == {p \in Seq(States) : p # <<>>}

\* A token that is accepted makes the history one longer.
LEMMA PathFacts ==
  ASSUME NEW p \in Paths
  PROVE  /\ p \in Seq(States) /\ Len(p) \in Nat \ {0} /\ Present(p) \in States
         /\ \A token \in Ids : Accepts(p, token) =>
              /\ Accept(p, token) \in Paths /\ Present(Accept(p, token)) = Rules[Present(p)][token]
              /\ Len(Accept(p, token)) = Len(p) + 1
              /\ \A i \in 1..Len(p) : Accept(p, token)[i] = p[i]
<1>1. p \in Seq(States) /\ Len(p) \in Nat \ {0}
  BY EmptySeq DEF Paths
<1>2. Len(p) \in 1..Len(p)
  BY <1>1
<1>3. Present(p) \in States
  BY <1>1, <1>2, SeqFacts DEF Present
<1>4. ASSUME NEW token \in Ids, Accepts(p, token)
      PROVE  /\ Accept(p, token) \in Paths /\ Present(Accept(p, token)) = Rules[Present(p)][token]
             /\ Len(Accept(p, token)) = Len(p) + 1
             /\ \A i \in 1..Len(p) : Accept(p, token)[i] = p[i]
  <2> DEFINE next == Rules[Present(p)][token]
  <2>1. next \in States
    <3>1. Present(p) \in DOMAIN Rules /\ token \in DOMAIN Rules[Present(p)]
      BY <1>3, <1>4 DEF Accepts, States
    <3> QED
      BY <3>1, GrammarAssumption DEF States
  <2>2. Accept(p, token) = Append(p, next)
    BY DEF Accept
  <2> HIDE DEF next
  <2>3. /\ Append(p, next) \in Seq(States) /\ Len(Append(p, next)) = Len(p) + 1
        /\ \A i \in 1..Len(p) : Append(p, next)[i] = p[i]
        /\ Append(p, next)[Len(p) + 1] = next
    BY <1>1, <2>1, AppendFacts
  <2>4. Append(p, next) # <<>>
    BY <1>1, <2>3, EmptySeq
  <2>5. Present(Append(p, next)) = next
    BY <2>3 DEF Present
  <2> QED
    BY <2>2, <2>3, <2>4, <2>5 DEF Paths, next
<1> QED
  BY <1>1, <1>3, <1>4

\* A matcher takes tokens one by one, until one is refused or it is done.
TakeOne(y, token, i) ==
  IF y.going /\ Accepts(y.p, token)
  THEN [p |-> Accept(y.p, token), n |-> i, going |-> Rules[Present(y.p)][token] # Terminated]
  ELSE [y EXCEPT !.going = FALSE]
Takes(g, p, s) ==
  /\ g[0] = [p |-> p, n |-> 0, going |-> TRUE] /\ g[Len(s)] = Taken(p, s)
  /\ \A i \in 1..Len(s) : g[i] = TakeOne(g[i - 1], s[i], i)
Matches == [p : Paths, n : Nat, going : BOOLEAN]

\* One token keeps the result of a matcher what it is.
LEMMA TakeOneTyped ==
  ASSUME NEW y \in Matches, NEW token \in Ids, NEW i \in Nat
  PROVE  TakeOne(y, token, i) \in Matches
<1>1. CASE y.going /\ Accepts(y.p, token)
  <2>1. y.p \in Paths
    BY DEF Matches
  <2>2. Accept(y.p, token) \in Paths
    BY <1>1, <2>1, PathFacts
  <2> QED
    BY <1>1, <2>2 DEF TakeOne, Matches
<1>2. CASE ~(y.going /\ Accepts(y.p, token))
  BY <1>2 DEF TakeOne, Matches
<1> QED
  BY <1>1, <1>2

\* What a matcher takes is found token by token.
LEMMA TakeSteps ==
  ASSUME NEW p \in Paths, NEW s \in Seq(Ids)
  PROVE  \E g \in [0..Len(s) -> Matches] : Takes(g, p, s)
<1> DEFINE n == Len(s)
           A == Matches
           a == [p |-> p, n |-> 0, going |-> TRUE]
           Body(f, i) == IF i = 0 THEN a ELSE TakeOne(f[i - 1], s[i], i)
           G == [i \in 1..n |-> [y \in A |-> TakeOne(y, s[i], i)]]
           g == CHOOSE f : f = [i \in 0..n |-> Body(f, i)]
<1>1. n \in Nat /\ a \in A /\ \A i \in 1..n : s[i] \in Ids /\ i \in Nat
  BY SeqFacts DEF Matches
<1>2. G \in [1..n -> [A -> A]]
  <2>1. ASSUME NEW i \in 1..n, NEW y \in A PROVE TakeOne(y, s[i], i) \in A
    BY <1>1, TakeOneTyped
  <2> QED
    BY <2>1
<1>3. PICK f \in [0..n -> A] : f[0] = a /\ \A i \in 1..n : f[i] = G[i][f[i - 1]]
  <2> HIDE DEF G, n, A, a
  <2>1. \E f \in [0..n -> A] : Iterates(f, n, a, G)
    BY <1>1, <1>2, Iterated
  <2> QED
    BY <2>1 DEF Iterates
<1>4. \A i \in 0..n : f[i] = Body(f, i)
  <2> TAKE i \in 0..n
  <2>1. CASE i = 0
    BY <1>3, <2>1
  <2>2. CASE i # 0
    <3>1. i \in 1..n /\ i - 1 \in 0..n
      BY <1>1, <2>2
    <3>2. f[i] = G[i][f[i - 1]] /\ f[i - 1] \in A
      BY <1>3, <3>1
    <3> QED
      BY <2>2, <3>1, <3>2
  <2> QED
    BY <2>1, <2>2
<1>6. Taken(p, s) = g[n]
  BY DEF Taken, TakeOne
<1> HIDE DEF G, Body, a
<1>5. g = [i \in 0..n |-> Body(g, i)]
  <2>1. f = [i \in 0..n |-> Body(f, i)]
    BY <1>4
  <2> QED
    BY <2>1
<1> HIDE DEF g
<1>7. g[0] = a /\ \A i \in 1..n : g[i] = TakeOne(g[i - 1], s[i], i)
  <2>1. \A i \in 0..n : g[i] = Body(g, i)
    BY <1>5
  <2>2. 0 \in 0..n /\ \A i \in 1..n : i \in 0..n /\ i # 0
    BY <1>1
  <2>3. g[0] = a
    BY <2>1, <2>2 DEF Body
  <2>4. ASSUME NEW i \in 1..n PROVE g[i] = TakeOne(g[i - 1], s[i], i)
    BY <2>1, <2>2, Zenon DEF Body
  <2> QED
    BY <2>3, <2>4
<1>8. \A i \in 0..n : i \in {j \in 0..n : g[j] \in A}
  <2> DEFINE P == {j \in 0..n : g[j] \in A}
  <2>1. 0 \in P
    <3>1. 0 \in 0..n
      BY <1>1
    <3> QED
      BY <1>1, <1>7, <3>1, Zenon
  <2>2. ASSUME NEW i \in 0..(n - 1), i \in P PROVE i + 1 \in P
    <3>1. i + 1 \in 1..n /\ (i + 1) - 1 = i /\ i + 1 \in 0..n
      BY <1>1
    <3>2. TakeOne(g[i], s[i + 1], i + 1) \in A
      BY <1>1, <2>2, <3>1, TakeOneTyped
    <3> QED
      BY <1>7, <3>1, <3>2
  <2> HIDE DEF P, n
  <2>3. \A i \in 0..n : i \in P
    BY <1>1, <2>1, <2>2, Induction
  <2> QED
    BY <2>3 DEF P
<1>9. g \in [0..n -> A]
  BY <1>5, <1>8
<1> QED
  BY <1>6, <1>7, <1>9 DEF Takes, a

\* What one token does to a matcher.
Moves(y, token, i, z) ==
  \/ /\ y.going /\ Accepts(y.p, token) /\ z.p = Accept(y.p, token) /\ z.n = i
     /\ (z.going <=> Present(z.p) # Terminated)
  \/ /\ ~(y.going /\ Accepts(y.p, token)) /\ z.p = y.p /\ z.n = y.n /\ ~z.going

\* What one token does, in those words.
LEMMA TakeOneFacts ==
  \A y \in Matches, token \in Ids, i \in Nat : Moves(y, token, i, TakeOne(y, token, i))
<1> TAKE y \in Matches, token \in Ids, i \in Nat
<1> DEFINE z == TakeOne(y, token, i)
<1>1. y.p \in Paths
  BY DEF Matches
<1>2. CASE y.going /\ Accepts(y.p, token)
  <2>1. Present(Accept(y.p, token)) = Rules[Present(y.p)][token]
    BY <1>1, <1>2, PathFacts
  <2> QED
    BY <1>2, <2>1 DEF TakeOne, Moves
<1>3. CASE ~(y.going /\ Accepts(y.p, token))
  <2>1. z = [y EXCEPT !.going = FALSE]
    BY <1>3 DEF TakeOne
  <2>2. z.p = y.p /\ z.n = y.n /\ ~z.going
    BY <2>1 DEF Matches
  <2> HIDE DEF z
  <2>3. Moves(y, token, i, z)
    BY <1>3, <2>2 DEF Moves
  <2> QED
    BY <2>3 DEF z
<1> QED
  BY <1>2, <1>3

\* A matcher that goes on took every token; one that took every token goes on or is done.
LEMMA TakenFacts ==
  ASSUME NEW p \in Paths, NEW s \in Seq(Ids), NEW t, t = Taken(p, s)
  PROVE  /\ t \in Matches /\ t.n \in 0..Len(s)
         /\ t.going => t.n = Len(s)
         /\ t.n = Len(s) => t.going \/ Present(t.p) = Terminated
         /\ (Present(p) = Terminated) => t.p = p
<1> DEFINE n == Len(s)
           Q(y, i) == /\ y.n \in 0..i
                      /\ y.going => y.n = i
                      /\ y.n = i => y.going \/ Present(y.p) = Terminated
                      /\ (Present(p) = Terminated) => y.p = p
<1>1. n \in Nat /\ \A i \in 1..n : s[i] \in Ids
  BY SeqFacts
<1>2. PICK g \in [0..n -> Matches] : Takes(g, p, s)
  BY TakeSteps
<1>3. /\ g[0] = [p |-> p, n |-> 0, going |-> TRUE] /\ g[n] = t
      /\ \A i \in 1..n : g[i] = TakeOne(g[i - 1], s[i], i)
  BY <1>2 DEF Takes
<1> HIDE DEF n
<1>4. \A i \in 0..n : i \in {j \in 0..n : Q(g[j], j)}
  <2> DEFINE P == {j \in 0..n : Q(g[j], j)}
  <2>1. 0 \in P
    BY <1>1, <1>3
  <2>2. ASSUME NEW i \in 0..(n - 1), i \in P PROVE i + 1 \in P
    <3> DEFINE y == g[i]
               z == g[i + 1]
               k == i + 1
    <3>1. k \in 1..n /\ k - 1 = i /\ k \in 0..n /\ i \in 0..n /\ i \in Nat /\ k \in Nat
      BY <1>1
    <3>2. z = TakeOne(y, s[k], k) /\ y \in Matches /\ s[k] \in Ids
      BY <1>1, <1>3, <3>1
    <3>3. Q(y, i)
      BY <2>2
    <3> HIDE DEF y, z, k, Q
    <3>a. Moves(y, s[k], k, z)
      BY <3>1, <3>2, TakeOneFacts, Zenon
    <3>4. \/ /\ y.going /\ Accepts(y.p, s[k]) /\ z.p = Accept(y.p, s[k]) /\ z.n = k
             /\ (z.going <=> Present(z.p) # Terminated)
          \/ z.p = y.p /\ z.n = y.n /\ ~z.going
      BY <3>a, Zenon DEF Moves
    <3>5. ASSUME /\ y.going /\ Accepts(y.p, s[k]) /\ z.p = Accept(y.p, s[k]) /\ z.n = k
                 /\ (z.going <=> Present(z.p) # Terminated)
          PROVE  Q(z, k)
      <4>1. Present(p) # Terminated
        BY <3>3, <3>5 DEF Q, Accepts
      <4> QED
        BY <3>1, <3>5, <4>1 DEF Q
    <3>6. ASSUME z.p = y.p, z.n = y.n, ~z.going
          PROVE  Q(z, k)
      <4>1. y.n \in 0..i /\ i < k
        BY <3>1, <3>3 DEF Q, k
      <4> QED
        BY <3>1, <3>3, <3>6, <4>1 DEF Q
    <3>7. Q(z, k)
      BY <3>4, <3>5, <3>6
    <3> QED
      BY <3>1, <3>7 DEF z, k
  <2> HIDE DEF P
  <2>3. \A i \in 0..n : i \in P
    BY <1>1, <2>1, <2>2, Induction
  <2> QED
    BY <2>3 DEF P
<1>5. n \in 0..n
  BY <1>1
<1>6. Q(t, n) /\ t \in Matches
  BY <1>2, <1>3, <1>4, <1>5
<1> QED
  BY <1>6 DEF n

\* The matcher takes tokens that follow others where it stands after those.
Continues(t, u, v, l) ==
  /\ t.going => v.p = u.p /\ v.n = l + u.n /\ (v.going <=> u.going)
  /\ ~t.going => v.p = t.p /\ v.n = t.n /\ ~v.going

\* What follows is taken from where the first tokens left the matcher, if it goes on.
LEMMA TakenConcat ==
  ASSUME NEW p \in Paths, NEW a \in Seq(Ids), NEW b \in Seq(Ids),
         NEW t, t = Taken(p, a), NEW u, u = Taken(t.p, b), NEW v, v = Taken(p, a \o b)
  PROVE  Continues(t, u, v, Len(a))
<1> DEFINE s == a \o b
           l == Len(a)
           m == Len(b)
<1>1. /\ s \in Seq(Ids) /\ Len(s) = l + m /\ l \in Nat /\ m \in Nat
      /\ \A i \in 1..l : s[i] = a[i] /\ a[i] \in Ids
      /\ \A i \in 1..m : s[l + i] = b[i] /\ b[i] \in Ids
  <2>1. \A i \in 1..(l + m) : s[i] = IF i <= l THEN a[i] ELSE b[i - l]
    BY ConcatProperties
  <2>2. s \in Seq(Ids) /\ Len(s) = l + m /\ l \in Nat /\ m \in Nat
    BY ConcatProperties, SeqFacts
  <2>3. ASSUME NEW i \in 1..l PROVE s[i] = a[i] /\ a[i] \in Ids
    BY <2>1, <2>2, SeqFacts
  <2>4. ASSUME NEW i \in 1..m PROVE s[l + i] = b[i] /\ b[i] \in Ids
    <3>1. l + i \in 1..(l + m) /\ ~(l + i <= l) /\ (l + i) - l = i
      BY <2>2
    <3> QED
      BY <2>1, <3>1, SeqFacts
  <2> QED
    BY <2>2, <2>3, <2>4
<1>t. t \in Matches /\ t.p \in Paths /\ (t.going => t.n = l)
  BY TakenFacts DEF Matches
<1>n. l \in Nat /\ m \in Nat
  BY <1>1
<1> HIDE DEF s, l, m
<1>2. PICK g \in [0..(l + m) -> Matches] : Takes(g, p, s)
  BY <1>1, TakeSteps
<1>3. PICK ga \in [0..l -> Matches] : Takes(ga, p, a)
  BY TakeSteps DEF l
<1>4. PICK gb \in [0..m -> Matches] : Takes(gb, t.p, b)
  BY <1>t, TakeSteps DEF m
<1>5. /\ g[0] = [p |-> p, n |-> 0, going |-> TRUE] /\ g[l + m] = v
      /\ \A i \in 1..(l + m) : g[i] = TakeOne(g[i - 1], s[i], i)
      /\ ga[0] = [p |-> p, n |-> 0, going |-> TRUE] /\ ga[l] = t
      /\ \A i \in 1..l : ga[i] = TakeOne(ga[i - 1], a[i], i)
      /\ gb[0] = [p |-> t.p, n |-> 0, going |-> TRUE] /\ gb[m] = u
      /\ \A i \in 1..m : gb[i] = TakeOne(gb[i - 1], b[i], i)
  <2>1. v = Taken(p, s)
    BY DEF s
  <2> QED
    BY <1>1, <1>2, <1>3, <1>4, <2>1 DEF Takes, l, m
<1>6. \A i \in 0..l : i \in {j \in 0..l : g[j] = ga[j]}
  <2> DEFINE P == {j \in 0..l : g[j] = ga[j]}
  <2>1. 0 \in P
    <3>1. g[0] = ga[0]
      BY <1>5, Zenon
    <3>2. 0 \in 0..l
      BY <1>1
    <3> QED
      BY <3>1, <3>2
  <2>2. ASSUME NEW i \in 0..(l - 1), i \in P PROVE i + 1 \in P
    <3>1. i + 1 \in 1..l /\ (i + 1) - 1 = i /\ i + 1 \in 0..l /\ i + 1 \in 1..(l + m)
      BY <1>n
    <3>2. g[i + 1] = TakeOne(g[i], s[i + 1], i + 1) /\ ga[i + 1] = TakeOne(ga[i], a[i + 1], i + 1)
      BY <1>5, <3>1
    <3>3. s[i + 1] = a[i + 1] /\ g[i] = ga[i]
      BY <1>1, <2>2, <3>1
    <3> QED
      BY <3>1, <3>2, <3>3
  <2> HIDE DEF P
  <2>3. \A i \in 0..l : i \in P
    BY <1>1, <2>1, <2>2, Induction
  <2> QED
    BY <2>3 DEF P
<1>7. g[l] = t
  BY <1>1, <1>5, <1>6
<1> DEFINE Q(y, z) == IF t.going THEN y.p = z.p /\ y.n = l + z.n /\ (y.going <=> z.going)
                      ELSE y.p = t.p /\ y.n = t.n /\ ~y.going
<1>8. \A i \in 0..m : i \in {j \in 0..m : Q(g[l + j], gb[j])}
  <2> DEFINE P == {j \in 0..m : Q(g[l + j], gb[j])}
  <2>1. 0 \in P
    <3>1. 0 \in 0..m /\ l + 0 = l
      BY <1>1
    <3>2. t.going \in BOOLEAN /\ gb[0].p = t.p /\ gb[0].n = 0 /\ gb[0].going = TRUE
      BY <1>t, <1>5 DEF Matches
    <3>3. Q(t, gb[0])
      BY <1>1, <1>t, <3>2
    <3> QED
      BY <1>7, <3>1, <3>3
  <2>2. ASSUME NEW i \in 0..(m - 1), i \in P PROVE i + 1 \in P
    <3> DEFINE k == i + 1
               y == g[l + i]
               y1 == g[l + k]
               z == gb[i]
               z1 == gb[k]
    <3>1. /\ k \in 1..m /\ k - 1 = i /\ k \in 0..m /\ i \in 0..m /\ k \in Nat /\ l + k \in Nat
          /\ l + k \in 1..(l + m) /\ (l + k) - 1 = l + i /\ l + i \in 0..(l + m)
      BY <1>1
    <3>2. y1 = TakeOne(y, b[k], l + k) /\ z1 = TakeOne(z, b[k], k)
      BY <1>1, <1>5, <3>1
    <3>3. y \in Matches /\ z \in Matches /\ b[k] \in Ids
      BY <1>1, <3>1
    <3>4. Q(y, z)
      BY <2>2
    <3> HIDE DEF y, y1, z, z1, k
    <3>5. \/ /\ y.going /\ Accepts(y.p, b[k]) /\ y1.p = Accept(y.p, b[k]) /\ y1.n = l + k
             /\ (y1.going <=> Present(y1.p) # Terminated)
          \/ /\ ~(y.going /\ Accepts(y.p, b[k])) /\ y1.p = y.p /\ y1.n = y.n /\ ~y1.going
      <4>1. Moves(y, b[k], l + k, y1)
        BY <3>1, <3>2, <3>3, TakeOneFacts, Zenon
      <4> QED
        BY <4>1, Zenon DEF Moves
    <3>6. \/ /\ z.going /\ Accepts(z.p, b[k]) /\ z1.p = Accept(z.p, b[k]) /\ z1.n = k
             /\ (z1.going <=> Present(z1.p) # Terminated)
          \/ /\ ~(z.going /\ Accepts(z.p, b[k])) /\ z1.p = z.p /\ z1.n = z.n /\ ~z1.going
      <4>1. Moves(z, b[k], k, z1)
        BY <3>1, <3>2, <3>3, TakeOneFacts, Zenon
      <4> QED
        BY <4>1, Zenon DEF Moves
    <3>7. Q(y1, z1)
      BY <3>4, <3>5, <3>6
    <3> QED
      BY <3>1, <3>7 DEF y1, z1, k
  <2> HIDE DEF P
  <2>3. \A i \in 0..m : i \in P
    BY <1>1, <2>1, <2>2, Induction
  <2> QED
    BY <2>3 DEF P
<1>9. m \in 0..m
  BY <1>1
<1>10. Q(v, u)
  BY <1>5, <1>8, <1>9
<1> QED
  BY <1>10 DEF l, Continues

\* The same for all of them at once.
LEMMA TakenFrom ==
  \A p \in Paths, a, b \in Seq(Ids) :
     Continues(Taken(p, a), Taken(Taken(p, a).p, b), Taken(p, a \o b), Len(a))
BY TakenConcat

\* A sequence is what is before a place and what is after it.
LEMMA CutInTwo ==
  ASSUME NEW S, NEW s \in Seq(S), NEW n \in 0..Len(s)
  PROVE  /\ SubSeq(s, 1, n) \in Seq(S) /\ Len(SubSeq(s, 1, n)) = n
         /\ SubSeq(s, n + 1, Len(s)) \in Seq(S)
         /\ s = SubSeq(s, 1, n) \o SubSeq(s, n + 1, Len(s))
<1> DEFINE l == Len(s)
           a == SubSeq(s, 1, n)
           b == SubSeq(s, n + 1, l)
<1>1. l \in Nat /\ n \in Nat /\ n <= l /\ \A i \in 1..l : s[i] \in S
  BY SeqFacts
<1>2. a \in Seq(S) /\ Len(a) = n /\ \A i \in 1..n : a[i] = s[i]
  <2>1. \A i \in 1..n : s[i] \in S
    BY <1>1
  <2>2. /\ a \in Seq(S) /\ Len(a) = (IF 1 <= n THEN n - 1 + 1 ELSE 0)
        /\ \A i \in 1..(n - 1 + 1) : a[i] = s[1 + i - 1]
    BY <1>1, <2>1, SubSeqProperties
  <2> HIDE DEF a, b, l
  <2>3. Len(a) = n
    BY <1>1, <2>2
  <2>4. ASSUME NEW i \in 1..n PROVE a[i] = s[i]
    <3>1. i \in 1..(n - 1 + 1) /\ 1 + i - 1 = i
      BY <1>1
    <3> QED
      BY <2>2, <3>1
  <2> QED
    BY <2>2, <2>3, <2>4
<1>3. b \in Seq(S) /\ Len(b) = l - n /\ \A i \in 1..(l - n) : b[i] = s[n + i]
  <2>1. \A i \in (n + 1)..l : s[i] \in S
    BY <1>1
  <2>2. /\ b \in Seq(S) /\ Len(b) = (IF n + 1 <= l THEN l - (n + 1) + 1 ELSE 0)
        /\ \A i \in 1..(l - (n + 1) + 1) : b[i] = s[(n + 1) + i - 1]
    BY <1>1, <2>1, SubSeqProperties
  <2> HIDE DEF a, b, l
  <2>3. Len(b) = l - n
    <3>1. Len(b) = (IF n + 1 <= l THEN l - (n + 1) + 1 ELSE 0)
      BY <2>2
    <3>2. l \in Nat /\ n \in Nat /\ n <= l
      BY <1>1
    <3> QED
      BY <3>1, <3>2
  <2>4. ASSUME NEW i \in 1..(l - n) PROVE b[i] = s[n + i]
    <3>1. i \in 1..(l - (n + 1) + 1) /\ (n + 1) + i - 1 = n + i
      BY <1>1
    <3> QED
      BY <2>2, <3>1
  <2> QED
    BY <2>2, <2>3, <2>4
<1> HIDE DEF a, b
<1>4. /\ a \o b \in Seq(S) /\ Len(a \o b) = n + (l - n)
      /\ \A i \in 1..(n + (l - n)) : (a \o b)[i] = IF i <= n THEN a[i] ELSE b[i - n]
  BY <1>2, <1>3, ConcatProperties
<1>5. \A i \in 1..l : s[i] = (a \o b)[i]
  <2> TAKE i \in 1..l
  <2>1. CASE i <= n
    BY <1>1, <1>2, <1>4, <2>1
  <2>2. CASE ~(i <= n)
    <3>1. i - n \in 1..(l - n) /\ n + (i - n) = i /\ i \in 1..(n + (l - n))
      BY <1>1, <2>2
    <3> QED
      BY <1>3, <1>4, <2>2, <3>1
  <2> QED
    BY <2>1, <2>2
<1>6. Len(a \o b) = l
  BY <1>1, <1>4
<1>7. s = a \o b
  BY <1>4, <1>5, <1>6, SeqEqual
<1> QED
  BY <1>2, <1>3, <1>7 DEF a, b, l

\* The drafts the grammar took of a draft are taken from the same place again.
LEMMA ValidatedTaken ==
  ASSUME NEW p \in Paths, NEW s \in Seq(Ids), NEW d, d = SubSeq(s, 1, Taken(p, s).n)
  PROVE  d \in Seq(Ids) /\ Taken(p, d).n = Len(d)
<1> DEFINE n == Taken(p, s).n
           e == SubSeq(s, n + 1, Len(s))
           t == Taken(p, d)
           u == Taken(t.p, e)
<1>1. n \in 0..Len(s)
  BY TakenFacts
<1>2. d \in Seq(Ids) /\ Len(d) = n /\ e \in Seq(Ids) /\ s = d \o e
  BY <1>1, CutInTwo
<1>3. /\ t.going => t.n = Len(d)
      /\ t \in Matches
  BY <1>2, TakenFacts
<1>4. t.going \in BOOLEAN
  BY <1>3 DEF Matches
<1>5. ~t.going => Taken(p, d \o e).n = t.n
  <2>1. Continues(t, u, Taken(p, d \o e), Len(d))
    BY <1>2, TakenFrom, Zenon
  <2> QED
    BY <2>1 DEF Continues
<1>6. Taken(p, d \o e).n = n
  BY <1>2
<1> QED
  BY <1>2, <1>3, <1>4, <1>5, <1>6

\* Where all tokens are taken each one is when its turn comes.
LEMMA AllTaken ==
  ASSUME NEW p \in Paths, NEW s \in Seq(Ids), NEW g \in [0..Len(s) -> Matches], Takes(g, p, s),
         Taken(p, s).n = Len(s)
  PROVE  \A i \in 1..Len(s) : g[i - 1].going /\ Accepts(g[i - 1].p, s[i])
<1> DEFINE l == Len(s)
<1>1. l \in Nat /\ \A i \in 1..l : s[i] \in Ids
  BY SeqFacts
<1>2. g[l].n = l /\ \A i \in 1..l : g[i] = TakeOne(g[i - 1], s[i], i)
  BY DEF Takes
<1>3. g[0].n = 0
  BY DEF Takes
<1> HIDE DEF l
<1>4. \A i \in 1..l : g[i - 1] \in Matches /\ Moves(g[i - 1], s[i], i, g[i])
  <2> TAKE i \in 1..l
  <2>1. i - 1 \in 0..l /\ i \in Nat
    BY <1>1
  <2>2. g[i - 1] \in Matches /\ s[i] \in Ids /\ g[i] = TakeOne(g[i - 1], s[i], i)
    BY <1>1, <1>2, <2>1 DEF l
  <2> QED
    BY <2>1, <2>2, TakeOneFacts, Zenon
<1>5. \A i \in 0..l : i \in {j \in 0..l : g[j].n \in 0..j}
  <2> DEFINE P == {j \in 0..l : g[j].n \in 0..j}
  <2>1. 0 \in P
    BY <1>1, <1>3
  <2>2. ASSUME NEW i \in 0..(l - 1), i \in P PROVE i + 1 \in P
    <3>1. i + 1 \in 1..l /\ (i + 1) - 1 = i /\ i + 1 \in 0..l
      BY <1>1
    <3>2. g[i + 1].n = i + 1 \/ g[i + 1].n = g[i].n
      BY <1>4, <3>1 DEF Moves
    <3> QED
      BY <2>2, <3>1, <3>2
  <2> HIDE DEF P
  <2>3. \A i \in 0..l : i \in P
    BY <1>1, <2>1, <2>2, Induction
  <2> QED
    BY <2>3 DEF P
<1>6. SUFFICES ASSUME NEW i \in 1..l, ~(g[i - 1].going /\ Accepts(g[i - 1].p, s[i]))
               PROVE  FALSE
  BY DEF l
<1>7. i \in Nat \ {0} /\ i - 1 \in 0..l /\ l - i \in Nat
  BY <1>1
<1>8. g[i].n < i /\ ~g[i].going
  <2>1. g[i].n = g[i - 1].n /\ ~g[i].going
    BY <1>4, <1>6 DEF Moves
  <2>2. g[i - 1].n \in 0..(i - 1)
    BY <1>5, <1>7
  <2> QED
    BY <1>7, <2>1, <2>2
<1>9. \A k \in 0..(l - i) : k \in {j \in 0..(l - i) : g[i + j].n < i /\ ~g[i + j].going}
  <2> DEFINE P == {j \in 0..(l - i) : g[i + j].n < i /\ ~g[i + j].going}
  <2>1. 0 \in P
    BY <1>7, <1>8
  <2>2. ASSUME NEW k \in 0..((l - i) - 1), k \in P PROVE k + 1 \in P
    <3>1. k + 1 \in 0..(l - i) /\ i + (k + 1) \in 1..l /\ (i + (k + 1)) - 1 = i + k
      BY <1>1, <1>7
    <3>2. g[i + (k + 1)].n = g[i + k].n /\ ~g[i + (k + 1)].going
      BY <1>4, <2>2, <3>1 DEF Moves
    <3> QED
      BY <2>2, <3>1, <3>2
  <2> HIDE DEF P
  <2>3. \A k \in 0..(l - i) : k \in P
    BY <1>7, <2>1, <2>2, Induction
  <2> QED
    BY <2>3 DEF P
<1>10. l - i \in 0..(l - i) /\ i + (l - i) = l
  BY <1>1, <1>7
<1>11. g[l].n < i
  BY <1>9, <1>10
<1> QED
  BY <1>1, <1>2, <1>7, <1>11

\* The matcher and one token.
LEMMA OneTaken ==
  ASSUME NEW p \in Paths, NEW d \in Ids, Present(p) # Terminated
  PROVE  /\ Fails(p, FALSE, <<d>>) <=> ~Accepts(p, d)
         /\ Validated(p, FALSE, <<d>>) # <<>> <=> Accepts(p, d)
<1> DEFINE s == <<d>>
<1>1. s \in Seq(Ids) /\ Len(s) = 1 /\ s[1] = d
  OBVIOUS
<1> HIDE DEF s
<1>2. PICK g \in [0..1 -> Matches] : Takes(g, p, s)
  BY <1>1, TakeSteps
<1>3. g[0] = [p |-> p, n |-> 0, going |-> TRUE] /\ g[1] = Taken(p, s) /\ g[1] = TakeOne(g[0], d, 1)
  <2>1. 1 \in 1..1 /\ 1 - 1 = 0
    OBVIOUS
  <2> QED
    BY <1>1, <1>2, <2>1 DEF Takes
<1> DEFINE t == Taken(p, s)
<1>4. /\ Accepts(p, d) => t.n = 1
      /\ ~Accepts(p, d) => t.n = 0 /\ t.p = p
  <2>1. g[0].p = p /\ g[0].n = 0 /\ g[0].going = TRUE /\ g[0] \in Matches
    <3>1. 0 \in 0..1
      OBVIOUS
    <3>2. g[0] \in Matches
      BY <1>2, <3>1
    <3>3. g[0].p = p /\ g[0].n = 0 /\ g[0].going = TRUE
      BY <1>3
    <3> QED
      BY <3>2, <3>3
  <2>2. Moves(g[0], d, 1, g[1])
    BY <1>3, <2>1, TakeOneFacts
  <2> QED
    BY <1>3, <2>1, <2>2 DEF Moves
<1>5. Fails(p, FALSE, s) <=> t.n < 1 /\ Present(t.p) # Terminated
  BY <1>1 DEF Fails
<1>6. Validated(p, FALSE, s) = SubSeq(s, 1, t.n)
  BY DEF Validated
<1> HIDE DEF t
<1>7. t.n \in {0, 1}
  BY <1>4
<1>8. Len(SubSeq(s, 1, t.n)) = t.n /\ SubSeq(s, 1, t.n) \in Seq(Ids)
  BY <1>1, <1>7, CutInTwo
<1>9. SubSeq(s, 1, t.n) # <<>> <=> t.n # 0
  BY <1>8, SeqFacts
<1>10. Fails(p, FALSE, s) <=> ~Accepts(p, d)
  <2>1. Accepts(p, d) => ~(t.n < 1)
    BY <1>4
  <2>2. ~Accepts(p, d) => t.n < 1 /\ Present(t.p) # Terminated
    BY <1>4
  <2> QED
    BY <1>5, <2>1, <2>2
<1>11. Validated(p, FALSE, s) # <<>> <=> Accepts(p, d)
  <2>1. Accepts(p, d) => SubSeq(s, 1, t.n) # <<>>
    BY <1>4, <1>9
  <2>2. ~Accepts(p, d) => SubSeq(s, 1, t.n) = <<>>
    BY <1>4, <1>9
  <2> QED
    BY <1>6, <2>1, <2>2
<1> QED
  BY <1>10, <1>11 DEF s

\* The manager advances by the drafts the matcher accepts, and logs none it validated.
LEMMA DraftAdvances ==
  ASSUME NEW p \in Paths, NEW d \in Ids, NEW post \in BOOLEAN, Present(p) # Terminated
  PROVE  /\ AdvanceDraft(p, d, post).taken <=> Accepts(p, d)
         /\ AdvanceDraft(p, d, post).error <=> ~post /\ ~Accepts(p, d)
BY OneTaken DEF AdvanceDraft

\* What one draft does to the window over the drafts.
SpecOne(w, d) ==
  IF w.thinking THEN [w EXCEPT !.thinking = d # ThinkEnd]
  ELSE IF w.done THEN w
  ELSE LET a == AdvanceDraft(w.p, d, reasoning)
       IN [w EXCEPT !.p = IF a.taken THEN Accept(w.p, d) ELSE w.p,
                    !.done = a.taken /\ Rules[Present(w.p)][d] = Terminated,
                    !.n = IF a.taken THEN @ + 1 ELSE @,
                    !.error = @ \/ a.error]

\* A window, and those whose matcher is not done unless they say so.
Ahead == [p : Paths, done : BOOLEAN, thinking : BOOLEAN, n : Nat, error : BOOLEAN]
Specs == {w \in Ahead : ~w.done => Present(w.p) # Terminated}
Speculates(w, d, z) ==
  \/ /\ w.thinking \/ w.done
     /\ z.p = w.p /\ z.n = w.n /\ (z.done <=> w.done) /\ (z.error <=> w.error)
     /\ z.thinking => w.thinking
  \/ /\ ~w.thinking /\ ~w.done /\ Accepts(w.p, d) /\ z.p = Accept(w.p, d) /\ z.n = w.n + 1
     /\ (z.done <=> Present(z.p) = Terminated) /\ (z.error <=> w.error) /\ ~z.thinking
  \/ /\ ~w.thinking /\ ~w.done /\ ~Accepts(w.p, d) /\ z.p = w.p /\ z.n = w.n
     /\ ~z.done /\ (z.error <=> w.error \/ ~reasoning) /\ ~z.thinking

\* One draft moves the window by one accepted token or not at all.
LEMMA SpecOneFacts ==
  ASSUME reasoning \in BOOLEAN
  PROVE  \A w \in Specs, d \in Ids : SpecOne(w, d) \in Specs /\ Speculates(w, d, SpecOne(w, d))
<1> TAKE w \in Specs, d \in Ids
<1>1. /\ w \in Ahead /\ w.p \in Paths /\ w.n \in Nat
      /\ w.done \in BOOLEAN /\ w.thinking \in BOOLEAN /\ w.error \in BOOLEAN
      /\ ~w.done => Present(w.p) # Terminated
  BY DEF Specs, Ahead
<1>2. CASE w.thinking
  <2> DEFINE z == [w EXCEPT !.thinking = d # ThinkEnd]
  <2>1. SpecOne(w, d) = z
    BY <1>2 DEF SpecOne
  <2>2. z \in Ahead /\ z.p = w.p /\ z.n = w.n /\ z.done = w.done /\ z.error = w.error
    BY <1>1 DEF Ahead
  <2> HIDE DEF z
  <2>3. z \in Specs
    BY <1>1, <2>2 DEF Specs
  <2>4. Speculates(w, d, z)
    BY <1>2, <2>2 DEF Speculates
  <2> QED
    BY <2>1, <2>3, <2>4
<1>3. CASE ~w.thinking /\ w.done
  <2>1. SpecOne(w, d) = w
    BY <1>3 DEF SpecOne
  <2>2. Speculates(w, d, w)
    BY <1>3 DEF Speculates
  <2> QED
    BY <2>1, <2>2
<1>4. CASE ~w.thinking /\ ~w.done
  <2> DEFINE a == AdvanceDraft(w.p, d, reasoning)
             z == [w EXCEPT !.p = IF a.taken THEN Accept(w.p, d) ELSE w.p,
                            !.done = a.taken /\ Rules[Present(w.p)][d] = Terminated,
                            !.n = IF a.taken THEN @ + 1 ELSE @,
                            !.error = @ \/ a.error]
  <2>1. SpecOne(w, d) = z
    BY <1>4 DEF SpecOne
  <2>2. (a.taken <=> Accepts(w.p, d)) /\ (a.error <=> ~reasoning /\ ~Accepts(w.p, d))
    BY <1>1, <1>4, DraftAdvances
  <2> HIDE DEF a
  <2>3. CASE Accepts(w.p, d)
    <3>1. /\ Accept(w.p, d) \in Paths
          /\ Present(Accept(w.p, d)) = Rules[Present(w.p)][d]
      BY <1>1, <2>3, PathFacts
    <3>2. /\ z \in Ahead /\ z.p = Accept(w.p, d) /\ z.n = w.n + 1
          /\ (z.done <=> Rules[Present(w.p)][d] = Terminated) /\ (z.error <=> w.error)
          /\ z.thinking = w.thinking
      <4>1. z = [w EXCEPT !.p = Accept(w.p, d),
                          !.done = (Rules[Present(w.p)][d] = Terminated),
                          !.n = w.n + 1, !.error = w.error]
        <5>1. (a.taken /\ Rules[Present(w.p)][d] = Terminated) = (Rules[Present(w.p)][d] = Terminated)
          BY <2>2, <2>3
        <5>2. (w.error \/ a.error) = w.error
          BY <1>1, <2>2, <2>3
        <5> QED
          BY <1>1, <2>2, <2>3, <5>1, <5>2
      <4>2. w.n + 1 \in Nat
        BY <1>1
      <4> HIDE DEF z
      <4>3. z \in Ahead
        BY <1>1, <3>1, <4>1, <4>2 DEF Ahead
      <4> QED
        BY <1>1, <4>1, <4>3 DEF Ahead
    <3> HIDE DEF z
    <3>3. z \in Specs
      BY <3>1, <3>2 DEF Specs
    <3>4. Speculates(w, d, z)
      BY <1>4, <2>3, <3>1, <3>2 DEF Speculates
    <3> QED
      BY <2>1, <3>3, <3>4
  <2>4. CASE ~Accepts(w.p, d)
    <3>1. /\ z \in Ahead /\ z.p = w.p /\ z.n = w.n /\ ~z.done
          /\ (z.error <=> w.error \/ ~reasoning) /\ z.thinking = w.thinking
      BY <1>1, <2>2, <2>4 DEF Ahead
    <3> HIDE DEF z
    <3>2. z \in Specs
      BY <1>1, <1>4, <3>1 DEF Specs
    <3>3. Speculates(w, d, z)
      BY <1>4, <2>4, <3>1 DEF Speculates
    <3> QED
      BY <2>1, <3>2, <3>3
  <2> QED
    BY <2>3, <2>4
<1> QED
  BY <1>1, <1>2, <1>3, <1>4

\* The window before its first draft.
SpecStart == [p |-> path, done |-> ended, thinking |-> reasoning, n |-> 0, error |-> FALSE]

\* The window is found draft by draft.
LEMMA SpecSteps ==
  ASSUME path \in Paths, ended \in BOOLEAN, reasoning \in BOOLEAN, drafts \in Seq(Ids),
         ended <=> Present(path) = Terminated
  PROVE  \E g \in [0..Len(drafts) -> Specs] :
           /\ g[0] = SpecStart /\ g[Len(drafts)] = Speculate
           /\ \A i \in 1..Len(drafts) : g[i] = SpecOne(g[i - 1], drafts[i])
<1> DEFINE n == Len(drafts)
           A == Specs
           a == SpecStart
           Body(f, i) == IF i = 0 THEN a ELSE SpecOne(f[i - 1], drafts[i])
           G == [i \in 1..n |-> [y \in A |-> SpecOne(y, drafts[i])]]
           g == CHOOSE f : f = [i \in 0..n |-> Body(f, i)]
<1>1. n \in Nat /\ a \in A /\ \A i \in 1..n : drafts[i] \in Ids
  BY SeqFacts DEF Specs, Ahead, SpecStart
<1>2. G \in [1..n -> [A -> A]]
  <2>1. ASSUME NEW i \in 1..n, NEW y \in A PROVE SpecOne(y, drafts[i]) \in A
    BY <1>1, SpecOneFacts
  <2> QED
    BY <2>1
<1>3. PICK f \in [0..n -> A] : f[0] = a /\ \A i \in 1..n : f[i] = G[i][f[i - 1]]
  <2> HIDE DEF G, n, A, a
  <2>1. \E f \in [0..n -> A] : Iterates(f, n, a, G)
    BY <1>1, <1>2, Iterated
  <2> QED
    BY <2>1 DEF Iterates
<1>4. \A i \in 0..n : f[i] = Body(f, i)
  <2> TAKE i \in 0..n
  <2>1. CASE i = 0
    BY <1>3, <2>1
  <2>2. CASE i # 0
    <3>1. i \in 1..n /\ i - 1 \in 0..n
      BY <1>1, <2>2
    <3>2. f[i] = G[i][f[i - 1]] /\ f[i - 1] \in A
      BY <1>3, <3>1
    <3> QED
      BY <2>2, <3>1, <3>2
  <2> QED
    BY <2>1, <2>2
<1>5. Speculate = g[n]
  BY DEF Speculate, SpecOne, SpecStart
<1> HIDE DEF G, Body, a
<1>6. g = [i \in 0..n |-> Body(g, i)]
  <2>1. f = [i \in 0..n |-> Body(f, i)]
    BY <1>4
  <2> QED
    BY <2>1
<1> HIDE DEF g
<1>7. g[0] = a /\ \A i \in 1..n : g[i] = SpecOne(g[i - 1], drafts[i])
  <2>1. \A i \in 0..n : g[i] = Body(g, i)
    BY <1>6
  <2>2. 0 \in 0..n /\ \A i \in 1..n : i \in 0..n /\ i # 0
    BY <1>1
  <2>3. g[0] = a
    BY <2>1, <2>2 DEF Body
  <2>4. ASSUME NEW i \in 1..n PROVE g[i] = SpecOne(g[i - 1], drafts[i])
    BY <2>1, <2>2, Zenon DEF Body
  <2> QED
    BY <2>3, <2>4
<1>8. \A i \in 0..n : i \in {j \in 0..n : g[j] \in A}
  <2> DEFINE P == {j \in 0..n : g[j] \in A}
  <2>1. 0 \in P
    <3>1. 0 \in 0..n
      BY <1>1
    <3> QED
      BY <1>1, <1>7, <3>1, Zenon
  <2>2. ASSUME NEW i \in 0..(n - 1), i \in P PROVE i + 1 \in P
    <3>1. i + 1 \in 1..n /\ (i + 1) - 1 = i /\ i + 1 \in 0..n
      BY <1>1
    <3>2. SpecOne(g[i], drafts[i + 1]) \in A
      BY <1>1, <2>2, <3>1, SpecOneFacts
    <3> QED
      BY <1>7, <3>1, <3>2
  <2> HIDE DEF P, n
  <2>3. \A i \in 0..n : i \in P
    BY <1>1, <2>1, <2>2, Induction
  <2> QED
    BY <2>3 DEF P
<1>9. g \in [0..n -> A]
  BY <1>6, <1>8
<1> QED
  BY <1>5, <1>7, <1>9 DEF a

\* The window takes every draft that was validated, refuses none aloud, and is rolled
\* back to where it began.
LEMMA RollsBack ==
  ASSUME path \in Paths, ended \in BOOLEAN, reasoning \in BOOLEAN, drafts \in Seq(Ids),
         ended <=> Present(path) = Terminated,
         ~reasoning => Taken(path, drafts).n = Len(drafts)
  PROVE  RolledBack(Speculate) = path /\ ~Speculate.error
<1> DEFINE n == Len(drafts)
           l == Len(path)
<1>1. n \in Nat /\ l \in Nat /\ \A i \in 1..n : drafts[i] \in Ids
  BY SeqFacts, PathFacts
<1>2. PICK g \in [0..n -> Specs] :
        /\ g[0] = SpecStart /\ g[n] = Speculate
        /\ \A i \in 1..n : g[i] = SpecOne(g[i - 1], drafts[i])
  BY SpecSteps
<1>3. PICK h \in [0..n -> Matches] : Takes(h, path, drafts)
  BY TakeSteps
<1>4. h[0].p = path /\ \A i \in 1..n : h[i] = TakeOne(h[i - 1], drafts[i], i)
  BY <1>3 DEF Takes
<1>5. ~reasoning => \A i \in 1..n : h[i - 1].going /\ Accepts(h[i - 1].p, drafts[i])
  BY <1>3, AllTaken
<1> HIDE DEF n, l
<1> DEFINE Q(w, i) == /\ w.n \in Nat /\ Len(w.p) = l + w.n /\ \A j \in 1..l : w.p[j] = path[j]
                      /\ ~w.error
                      /\ ~reasoning => ~w.thinking /\ (w.done \/ w.p = h[i].p)
<1>6. \A i \in 0..n : i \in {j \in 0..n : Q(g[j], j)}
  <2> DEFINE P == {j \in 0..n : Q(g[j], j)}
  <2>1. 0 \in P
    <3>1. /\ g[0].p = path /\ g[0].n = 0 /\ g[0].thinking = reasoning /\ g[0].error = FALSE
      BY <1>2 DEF SpecStart
    <3>2. Len(path) = l + 0
      BY <1>1 DEF l
    <3>3. Q(g[0], 0)
      BY <1>4, <3>1, <3>2
    <3> HIDE DEF Q
    <3> QED
      BY <1>1, <3>3
  <2>2. ASSUME NEW i \in 0..(n - 1), i \in P PROVE i + 1 \in P
    <3> DEFINE k == i + 1
               w == g[i]
               z == g[k]
    <3>1. k \in 1..n /\ k - 1 = i /\ k \in 0..n /\ i \in 0..n /\ k \in Nat
      BY <1>1
    <3>2. z = SpecOne(w, drafts[k]) /\ w \in Specs /\ drafts[k] \in Ids
      BY <1>1, <1>2, <3>1
    <3>3. Q(w, i)
      BY <2>2
    <3>4. h[k] = TakeOne(h[i], drafts[k], k) /\ h[i] \in Matches
      BY <1>3, <1>4, <3>1
    <3>5. ~reasoning => h[i].going /\ Accepts(h[i].p, drafts[k])
      BY <1>5, <3>1
    <3> HIDE DEF w, z, k
    <3>6. Speculates(w, drafts[k], z)
      BY <3>2, SpecOneFacts, Zenon
    <3>7. Moves(h[i], drafts[k], k, h[k])
      BY <3>1, <3>2, <3>4, TakeOneFacts, Zenon
    <3>8. w.p \in Paths
      BY <3>2 DEF Specs, Ahead
    <3>9. Q(z, k)
      <4>1. CASE /\ w.thinking \/ w.done
                 /\ z.p = w.p /\ z.n = w.n /\ (z.done <=> w.done) /\ (z.error <=> w.error)
                 /\ z.thinking => w.thinking
        BY <3>3, <4>1
      <4>2. CASE /\ ~w.thinking /\ ~w.done /\ Accepts(w.p, drafts[k]) /\ z.p = Accept(w.p, drafts[k])
                 /\ z.n = w.n + 1
                 /\ (z.done <=> Present(z.p) = Terminated) /\ (z.error <=> w.error) /\ ~z.thinking
        <5>1. /\ Len(z.p) = Len(w.p) + 1 /\ \A j \in 1..Len(w.p) : z.p[j] = w.p[j]
          BY <3>2, <3>8, <4>2, PathFacts
        <5>2. ~reasoning => z.p = h[k].p
          <6>1. ~reasoning => w.p = h[i].p
            BY <3>3, <4>2
          <6> QED
            BY <3>5, <3>7, <4>2, <6>1 DEF Moves
        <5>3. z.n \in Nat /\ Len(z.p) = l + z.n
          <6>1. w.n \in Nat /\ Len(w.p) = l + w.n /\ z.n = w.n + 1 /\ Len(z.p) = Len(w.p) + 1
            BY <3>3, <4>2, <5>1
          <6>2. l \in Nat
            BY <1>1 DEF l
          <6> HIDE DEF Q
          <6> QED
            BY <6>1, <6>2
        <5>4. \A j \in 1..l : z.p[j] = path[j]
          BY <1>1, <3>3, <5>1
        <5> QED
          BY <3>3, <4>2, <5>2, <5>3, <5>4
      <4>3. CASE /\ ~w.thinking /\ ~w.done /\ ~Accepts(w.p, drafts[k]) /\ z.p = w.p /\ z.n = w.n
                 /\ ~z.done /\ (z.error <=> w.error \/ ~reasoning) /\ ~z.thinking
        <5>1. reasoning
          BY <3>3, <3>5, <4>3
        <5> QED
          BY <3>3, <4>3, <5>1
      <4> HIDE DEF Q
      <4> QED
        BY <3>6, <4>1, <4>2, <4>3, Zenon DEF Speculates
    <3> HIDE DEF Q
    <3> QED
      BY <3>1, <3>9 DEF z, k
  <2> HIDE DEF P
  <2>3. \A i \in 0..n : i \in P
    BY <1>1, <2>1, <2>2, Induction
  <2> QED
    BY <2>3 DEF P
<1> DEFINE w == Speculate
<1>7. Q(w, n) /\ w \in Specs
  <2>1. n \in 0..n
    BY <1>1
  <2> QED
    BY <1>2, <1>6, <2>1
<1> HIDE DEF w
<1>8. w.n \in Nat /\ Len(w.p) = l + w.n /\ (\A j \in 1..l : w.p[j] = path[j]) /\ ~w.error
  BY <1>7
<1>9. SubSeq(w.p, 1, l) = path
  <2>1. w.p \in Seq(States) /\ l \in 0..Len(w.p)
    BY <1>1, <1>7, <1>8 DEF Specs, Ahead, Paths
  <2>2. SubSeq(w.p, 1, l) \in Seq(States) /\ Len(SubSeq(w.p, 1, l)) = l
    BY <2>1, CutInTwo
  <2>3. \A j \in 1..l : SubSeq(w.p, 1, l)[j] = w.p[j]
    BY <1>1, <2>1
  <2>4. path \in Seq(States) /\ Len(path) = l
    BY DEF Paths, l
  <2> QED
    BY <1>8, <2>2, <2>3, <2>4, SeqEqual
<1>10. RolledBack(w) = SubSeq(w.p, 1, l)
  <2>1. Len(w.p) - w.n = l
    BY <1>1, <1>8
  <2> QED
    BY <2>1 DEF RolledBack
<1> QED
  BY <1>8, <1>9, <1>10 DEF w

\* Two sequences one after the other.
LEMMA Joined ==
  ASSUME NEW S, NEW a \in Seq(S), NEW b \in Seq(S)
  PROVE  /\ a \o b \in Seq(S) /\ Len(a \o b) = Len(a) + Len(b) /\ Len(a) \in Nat /\ Len(b) \in Nat
         /\ \A i \in 1..Len(a) : (a \o b)[i] = a[i]
         /\ \A i \in 1..Len(b) : (a \o b)[Len(a) + i] = b[i]
<1>1. \A i \in 1..(Len(a) + Len(b)) : (a \o b)[i] = IF i <= Len(a) THEN a[i] ELSE b[i - Len(a)]
  BY ConcatProperties
<1>2. a \o b \in Seq(S) /\ Len(a \o b) = Len(a) + Len(b) /\ Len(a) \in Nat /\ Len(b) \in Nat
  BY ConcatProperties, SeqFacts
<1>3. ASSUME NEW i \in 1..Len(a) PROVE (a \o b)[i] = a[i]
  BY <1>1, <1>2
<1>4. ASSUME NEW i \in 1..Len(b) PROVE (a \o b)[Len(a) + i] = b[i]
  <2>1. Len(a) + i \in 1..(Len(a) + Len(b)) /\ ~(Len(a) + i <= Len(a)) /\ (Len(a) + i) - Len(a) = i
    BY <1>2
  <2> QED
    BY <1>1, <2>1
<1> QED
  BY <1>2, <1>3, <1>4

\* The tokens after the first end of the reasoning, or none.
LEMMA AfterAt ==
  ASSUME NEW s \in Seq(Ids), NEW k \in 1..Len(s), s[k] = ThinkEnd, \A i \in 1..(k - 1) : s[i] # ThinkEnd
  PROVE  After(s) = SubSeq(s, k + 1, Len(s))
<1> DEFINE ends == {i \in DOMAIN s : s[i] = ThinkEnd}
<1>1. Len(s) \in Nat /\ DOMAIN s = 1..Len(s)
  BY SeqFacts
<1>2. k \in ends /\ \A j \in ends : k <= j
  BY <1>1
<1>3. \A i \in ends : (\A j \in ends : i <= j) => i = k
  BY <1>1, <1>2
<1>4. (CHOOSE i \in ends : \A j \in ends : i <= j) = k
  BY <1>2, <1>3
<1>5. ends # {}
  BY <1>2
<1>6. After(s) = SubSeq(s, (CHOOSE i \in ends : \A j \in ends : i <= j) + 1, Len(s))
  BY <1>5 DEF After
<1> QED
  BY <1>4, <1>6

\* Nothing comes after an end of the reasoning that was not said.
LEMMA AfterNone ==
  ASSUME NEW s \in Seq(Ids), ThinkEnd \notin ToSet(s)
  PROVE  After(s) = <<>>
<1>1. DOMAIN s = 1..Len(s) /\ ToSet(s) = {s[i] : i \in 1..Len(s)}
  BY SeqFacts
<1>2. {i \in DOMAIN s : s[i] = ThinkEnd} = {}
  BY <1>1
<1> QED
  BY <1>2 DEF After

\* An end of the reasoning that was said has a first place.
LEMMA FirstEnd ==
  ASSUME NEW s \in Seq(Ids), ThinkEnd \in ToSet(s)
  PROVE  \E k \in 1..Len(s) : s[k] = ThinkEnd /\ \A i \in 1..(k - 1) : s[i] # ThinkEnd
<1> DEFINE T == {i \in 1..Len(s) : s[i] = ThinkEnd}
<1>1. Len(s) \in Nat /\ T \in SUBSET Nat /\ T # {}
  BY SeqFacts
<1>2. PICK k \in T : \A l \in T : k <= l
  BY <1>1, Least, Zenon
<1>3. k \in 1..Len(s) /\ s[k] = ThinkEnd
  BY <1>2
<1>4. ASSUME NEW i \in 1..(k - 1) PROVE s[i] # ThinkEnd
  <2>1. i \in 1..Len(s) /\ ~(k <= i)
    BY <1>1, <1>3
  <2> QED
    BY <1>2, <2>1
<1> QED
  BY <1>3, <1>4

\* What comes after it is tokens.
LEMMA AfterTyped == \A s \in Seq(Ids) : After(s) \in Seq(Ids)
<1> TAKE s \in Seq(Ids)
<1>1. CASE ThinkEnd \in ToSet(s)
  <2>1. PICK k \in 1..Len(s) : s[k] = ThinkEnd /\ \A i \in 1..(k - 1) : s[i] # ThinkEnd
    BY <1>1, FirstEnd
  <2>2. After(s) = SubSeq(s, k + 1, Len(s))
    BY <2>1, AfterAt
  <2>3. Len(s) \in Nat
    BY SeqFacts
  <2>4. k \in 0..Len(s)
    BY <2>3
  <2> QED
    BY <2>2, <2>4, CutInTwo
<1>2. CASE ThinkEnd \notin ToSet(s)
  BY <1>2, AfterNone, EmptySeq
<1> QED
  BY <1>1, <1>2

\* More tokens add to what comes after the reasoning, all of them once it ended.
LEMMA AfterJoined ==
  ASSUME NEW a \in Seq(Ids), NEW b \in Seq(Ids)
  PROVE  After(a \o b) = IF ThinkEnd \in ToSet(a) THEN After(a) \o b ELSE After(b)
<1> DEFINE s == a \o b
           l == Len(a)
           m == Len(b)
<1>1. /\ s \in Seq(Ids) /\ Len(s) = l + m /\ l \in Nat /\ m \in Nat
      /\ \A i \in 1..l : s[i] = a[i]
      /\ \A i \in 1..m : s[l + i] = b[i]
  BY Joined
<1>2. ToSet(a) = {a[i] : i \in 1..l} /\ ToSet(b) = {b[i] : i \in 1..m} /\ ToSet(s) = {s[i] : i \in 1..(l + m)}
  BY <1>1, SeqFacts
<1> HIDE DEF s, l, m
<1>3. CASE ThinkEnd \in ToSet(a)
  <2>1. PICK k \in 1..l : a[k] = ThinkEnd /\ \A i \in 1..(k - 1) : a[i] # ThinkEnd
    BY <1>3, FirstEnd DEF l
  <2>2. After(a) = SubSeq(a, k + 1, l)
    BY <2>1, AfterAt DEF l
  <2>3. k \in 1..Len(s) /\ s[k] = ThinkEnd /\ \A i \in 1..(k - 1) : s[i] # ThinkEnd
    BY <1>1, <2>1
  <2>4. After(s) = SubSeq(s, k + 1, l + m)
    BY <1>1, <2>3, AfterAt
  <2>5. SubSeq(s, k + 1, l + m) = SubSeq(s, k + 1, l) \o SubSeq(s, l + 1, l + m)
    <3>1. k + 1 \in 1..Len(s) + 1 /\ l \in (k + 1) - 1..Len(s) /\ l + m \in l..Len(s)
      BY <1>1
    <3> QED
      BY <1>1, <3>1, ConcatAdjacentSubSeq
  <2>6. SubSeq(s, k + 1, l) = SubSeq(a, k + 1, l)
    <3>1. CASE k = l
      <4>1. SubSeq(s, k + 1, l) = <<>> /\ SubSeq(a, k + 1, l) = <<>>
        BY <1>1, <3>1, SubSeqEmpty
      <4> QED
        BY <4>1
    <3>2. CASE k < l
      <4>1. k + 1 \in 1..Len(a) /\ l \in 1..Len(a)
        BY <1>1, <3>2 DEF l
      <4> QED
        BY <4>1, SubSeqOfConcat1 DEF s
    <3> QED
      BY <1>1, <3>1, <3>2
  <2>7. SubSeq(s, l + 1, l + m) = b
    <3>1. CASE m = 0
      <4>1. SubSeq(s, l + 1, l + m) = <<>>
        BY <1>1, <3>1, SubSeqEmpty
      <4>2. b = <<>>
        BY <3>1, SeqFacts DEF m
      <4> QED
        BY <4>1, <4>2
    <3>2. CASE m # 0
      <4>1. l + 1 \in Len(a) + 1..Len(a) + Len(b) /\ l + m \in Len(a) + 1..Len(a) + Len(b)
        BY <1>1, <3>2 DEF l, m
      <4>2. SubSeq(s, l + 1, l + m) = SubSeq(b, (l + 1) - Len(a), (l + m) - Len(a))
        BY <4>1, SubSeqOfConcat2 DEF s
      <4>3. (l + 1) - Len(a) = 1 /\ (l + m) - Len(a) = Len(b)
        BY <1>1 DEF l, m
      <4> QED
        BY <4>2, <4>3, SubSeqFull
    <3> QED
      BY <3>1, <3>2
  <2> QED
    BY <1>3, <2>2, <2>4, <2>5, <2>6, <2>7 DEF s
<1>4. CASE ThinkEnd \notin ToSet(a)
  <2>1. CASE ThinkEnd \in ToSet(b)
    <3>1. PICK k \in 1..m : b[k] = ThinkEnd /\ \A i \in 1..(k - 1) : b[i] # ThinkEnd
      BY <2>1, FirstEnd DEF m
    <3>2. After(b) = SubSeq(b, k + 1, m)
      BY <3>1, AfterAt DEF m
    <3>3. l + k \in 1..Len(s) /\ s[l + k] = ThinkEnd
      BY <1>1, <3>1
    <3>4. ASSUME NEW i \in 1..((l + k) - 1) PROVE s[i] # ThinkEnd
      <4>1. CASE i <= l
        BY <1>1, <1>2, <1>4, <4>1
      <4>2. CASE i > l
        <5>1. i - l \in 1..(k - 1) /\ i - l \in 1..m /\ l + (i - l) = i
          BY <1>1, <4>2
        <5> QED
          BY <1>1, <3>1, <5>1
      <4> QED
        BY <1>1, <4>1, <4>2
    <3>5. After(s) = SubSeq(s, (l + k) + 1, l + m)
      BY <1>1, <3>3, <3>4, AfterAt
    <3>6. SubSeq(s, (l + k) + 1, l + m) = SubSeq(b, k + 1, m)
      <4>1. CASE k = m
        <5>1. /\ (l + k) + 1 \in Int /\ l + m \in Int /\ l + m < (l + k) + 1
              /\ k + 1 \in Int /\ m \in Int /\ m < k + 1
          BY <1>1, <4>1
        <5>2. SubSeq(s, (l + k) + 1, l + m) = <<>>
          BY <5>1, SubSeqEmpty
        <5>3. SubSeq(b, k + 1, m) = <<>>
          BY <5>1, SubSeqEmpty
        <5> QED
          BY <5>2, <5>3
      <4>2. CASE k < m
        <5>1. (l + k) + 1 \in Len(a) + 1..Len(a) + Len(b) /\ l + m \in Len(a) + 1..Len(a) + Len(b)
          BY <1>1, <4>2 DEF l, m
        <5>2. SubSeq(s, (l + k) + 1, l + m) = SubSeq(b, ((l + k) + 1) - Len(a), (l + m) - Len(a))
          BY <5>1, SubSeqOfConcat2 DEF s
        <5>3. ((l + k) + 1) - Len(a) = k + 1 /\ (l + m) - Len(a) = m
          BY <1>1 DEF l
        <5> QED
          BY <5>2, <5>3
      <4>3. k = m \/ k < m
        BY <1>1
      <4> QED
        BY <4>1, <4>2, <4>3
    <3> QED
      BY <1>4, <3>2, <3>5, <3>6 DEF s
  <2>2. CASE ThinkEnd \notin ToSet(b)
    <3>1. ASSUME NEW i \in 1..(l + m) PROVE s[i] # ThinkEnd
      <4>1. CASE i <= l
        BY <1>1, <1>2, <1>4, <4>1
      <4>2. CASE i > l
        <5>1. i - l \in 1..m /\ l + (i - l) = i
          BY <1>1, <4>2
        <5> QED
          BY <1>1, <1>2, <2>2, <5>1
      <4> QED
        BY <1>1, <4>1, <4>2
    <3>2. ThinkEnd \notin ToSet(s)
      BY <1>2, <3>1
    <3> QED
      BY <1>1, <1>4, <2>2, <3>2, AfterNone DEF s
  <2> QED
    BY <2>1, <2>2
<1> QED
  BY <1>3, <1>4

\* A scenario's tokens are ids.
LEMMA ScenarioFacts ==
  ASSUME NEW s \in Scenarios
  PROVE  /\ s.ids \subseteq Ids /\ s.length \in Nat /\ s.chunk \in Nat \ {0} /\ s.stop \in Seq(Alphabet)
         /\ s.thinking \in BOOLEAN /\ s.grammar \in BOOLEAN /\ s.ignoreEos \in BOOLEAN
         /\ \A t \in Seq(s.ids) : t \in Seq(Ids)
<1>1. /\ s.ids \subseteq Ids /\ s.length \in Nat /\ s.chunk \in Nat \ {0} /\ s.stop \in Seq(Alphabet)
      /\ s.thinking \in BOOLEAN /\ s.grammar \in BOOLEAN /\ s.ignoreEos \in BOOLEAN
  BY ScenarioAssumption
<1>2. \A t \in Seq(s.ids) : t \in Seq(Ids)
  BY <1>1, SeqMonotonic
<1> QED
  BY <1>1, <1>2

\* The chunks and drafts that a step chooses from are sequences.
LEMMA SequencesFacts ==
  ASSUME NEW S, NEW n \in Nat, NEW t \in Sequences(S, n)
  PROVE  t \in Seq(S)
<1>1. PICK k \in 0..n : t \in [1..k -> S]
  BY DEF Sequences
<1>2. k \in Nat
  OBVIOUS
<1> QED
  BY <1>1, <1>2, FunSeq, Zenon

\* Two sequences together have the members of both.
LEMMA ToSetJoined ==
  ASSUME NEW a \in Seq(Ids), NEW b \in Seq(Ids)
  PROVE  ToSet(a \o b) = ToSet(a) \cup ToSet(b)
<1> DEFINE s == a \o b
           l == Len(a)
           m == Len(b)
<1>1. /\ s \in Seq(Ids) /\ Len(s) = l + m /\ l \in Nat /\ m \in Nat
      /\ \A i \in 1..l : s[i] = a[i]
      /\ \A i \in 1..m : s[l + i] = b[i]
  BY Joined
<1>2. ToSet(a) = {a[i] : i \in 1..l} /\ ToSet(b) = {b[i] : i \in 1..m} /\ ToSet(s) = {s[i] : i \in 1..(l + m)}
  BY <1>1, SeqFacts
<1> HIDE DEF s, l, m
<1>3. ASSUME NEW i \in 1..(l + m) PROVE s[i] \in ToSet(a) \cup ToSet(b)
  <2>1. CASE i <= l
    <3>1. i \in 1..l /\ s[i] = a[i]
      BY <1>1, <2>1
    <3>2. a[i] \in ToSet(a)
      BY <1>2, <3>1
    <3> QED
      BY <3>1, <3>2
  <2>2. CASE i > l
    <3>1. i - l \in 1..m /\ l + (i - l) = i
      BY <1>1, <2>2
    <3> QED
      BY <1>1, <1>2, <3>1
  <2> QED
    BY <1>1, <2>1, <2>2
<1>4. ASSUME NEW i \in 1..l PROVE a[i] \in ToSet(s)
  <2>1. i \in 1..(l + m)
    BY <1>1
  <2> QED
    BY <1>1, <1>2, <2>1
<1>5. ASSUME NEW i \in 1..m PROVE b[i] \in ToSet(s)
  <2>1. l + i \in 1..(l + m)
    BY <1>1
  <2> QED
    BY <1>1, <1>2, <2>1
<1>6. ToSet(s) \subseteq ToSet(a) \cup ToSet(b)
  BY <1>2, <1>3
<1>7. ToSet(a) \subseteq ToSet(s) /\ ToSet(b) \subseteq ToSet(s)
  BY <1>2, <1>4, <1>5
<1> QED
  BY <1>6, <1>7 DEF s

\* The matcher at the start of the content.
LEMMA AtStart ==
  /\ <<Start>> \in Paths /\ Present(<<Start>>) = Start /\ Start # Terminated
  /\ <<>> \in Seq(Ids) /\ Taken(<<Start>>, <<>>) = [p |-> <<Start>>, n |-> 0, going |-> TRUE]
<1>1. <<Start>> \in Paths /\ Present(<<Start>>) = Start /\ Start # Terminated
  BY GrammarAssumption DEF Paths, States, Present
<1>2. <<>> \in Seq(Ids) /\ Len(<<>>) = 0
  BY EmptySeq
<1>3. PICK g \in [0..Len(<<>>) -> Matches] : Takes(g, <<Start>>, <<>>)
  BY <1>1, <1>2, TakeSteps
<1> QED
  BY <1>1, <1>2, <1>3 DEF Takes

\* A matcher that stands where the content led it takes what is said of it next.
Advances(p, done, spoken, next, q) ==
  /\ ~Fails(p, done, next) /\ q \in Paths
  /\ q = Taken(<<Start>>, spoken \o next).p
  /\ done => Present(q) = Terminated
  /\ Present(q) = Terminated \/ Taken(<<Start>>, spoken \o next).going

\* What is advanced of what validation or the bitmask let through.
LEMMA GrammarAdvances ==
  \A p \in Paths, done \in BOOLEAN, spoken, next \in Seq(Ids) :
     /\ p = Taken(<<Start>>, spoken).p /\ (done <=> Present(p) = Terminated)
     /\ done \/ Taken(<<Start>>, spoken).going
     /\ ~done => Taken(p, next).n = Len(next) \/ Present(Taken(p, next).p) = Terminated
     => Advances(p, done, spoken, next, Advanced(p, done, next))
<1> SUFFICES ASSUME NEW p \in Paths, NEW done \in BOOLEAN, NEW spoken \in Seq(Ids), NEW next \in Seq(Ids),
                    p = Taken(<<Start>>, spoken).p, done <=> Present(p) = Terminated,
                    done \/ Taken(<<Start>>, spoken).going,
                    ~done => Taken(p, next).n = Len(next) \/ Present(Taken(p, next).p) = Terminated
             PROVE  Advances(p, done, spoken, next, Advanced(p, done, next))
  BY Zenon
<1> DEFINE q == Advanced(p, done, next)
<1> DEFINE t == Taken(<<Start>>, spoken)
           u == Taken(p, next)
           v == Taken(<<Start>>, spoken \o next)
<1>1. Continues(t, u, v, Len(spoken))
  BY AtStart, TakenFrom, Zenon
<1>2. /\ u \in Matches /\ u.n \in 0..Len(next) /\ (u.n = Len(next) => u.going \/ Present(u.p) = Terminated)
      /\ (Present(p) = Terminated => u.p = p)
  BY TakenFacts
<1>3. Len(next) \in Nat /\ u.p \in Paths /\ t.p = p
  BY <1>2, SeqFacts DEF Matches
<1>4. ~Fails(p, done, next)
  BY <1>2, <1>3 DEF Fails
<1>5. CASE done
  <2>1. q = p
    BY <1>5 DEF Advanced
  <2>2. v.p = p
    BY <1>1, <1>2, <1>3, <1>5 DEF Continues
  <2> QED
    BY <1>4, <1>5, <2>1, <2>2 DEF Advances
<1>6. CASE ~done
  <2>1. q = u.p
    BY <1>6 DEF Advanced
  <2>2. v.p = u.p /\ (v.going <=> u.going)
    BY <1>1, <1>6 DEF Continues
  <2>3. u.going \/ Present(u.p) = Terminated
    BY <1>2, <1>6
  <2> QED
    BY <1>3, <1>4, <1>6, <2>1, <2>2, <2>3 DEF Advances
<1> QED
  BY <1>5, <1>6

\* What was said of the content grows by what is said after the reasoning.
Grows(thinking, open, a, b) ==
  /\ (IF thinking THEN After(a \o b) ELSE a \o b)
       = (IF thinking THEN After(a) ELSE a) \o (IF open THEN After(b) ELSE b)
  /\ (IF open THEN After(b) ELSE b) \in Seq(Ids)
  /\ (open /\ ThinkEnd \notin ToSet(b)) <=> (thinking /\ ThinkEnd \notin ToSet(a \o b))

\* The content grows by what a chunk says after the reasoning.
LEMMA SpokenGrows ==
  \A thinking, open \in BOOLEAN, a, b \in Seq(Ids) :
     (open <=> (thinking /\ ThinkEnd \notin ToSet(a))) => Grows(thinking, open, a, b)
<1> SUFFICES ASSUME NEW thinking \in BOOLEAN, NEW open \in BOOLEAN, NEW a \in Seq(Ids), NEW b \in Seq(Ids),
                    open <=> (thinking /\ ThinkEnd \notin ToSet(a))
             PROVE  Grows(thinking, open, a, b)
  BY Zenon
<1> USE DEF Grows
<1>1. After(a) \in Seq(Ids) /\ After(b) \in Seq(Ids)
  BY AfterTyped
<1>2. ToSet(a \o b) = ToSet(a) \cup ToSet(b)
  BY ToSetJoined
<1>3. CASE open
  <2>1. After(a) = <<>> /\ After(a \o b) = After(b)
    BY <1>3, AfterNone, AfterJoined
  <2>2. <<>> \o After(b) = After(b)
    BY <1>1, ConcatEmptySeq
  <2> QED
    BY <1>1, <1>2, <1>3, <2>1, <2>2
<1>4. CASE ~open
  BY <1>1, <1>2, <1>4, AfterJoined
<1> QED
  BY <1>3, <1>4

\* The types among what is known of the matcher.
LEMMA MatcherTypes ==
  ASSUME TextFacts, MatcherFacts
  PROVE  /\ path \in Paths /\ ended \in BOOLEAN /\ reasoning \in BOOLEAN
         /\ ids \in Seq(Ids) /\ drafts \in Seq(Ids) /\ Spoken \in Seq(Ids)
<1>1. scenario \in Scenarios /\ ids \in Seq(scenario.ids) /\ drafts \in Seq(scenario.ids)
  BY DEF TextFacts, MatcherFacts
<1>2. ids \in Seq(Ids) /\ drafts \in Seq(Ids) /\ scenario.thinking \in BOOLEAN
  BY <1>1, ScenarioFacts
<1>3. Spoken \in Seq(Ids)
  BY <1>2, AfterTyped DEF Spoken
<1>4. path \in Paths
  BY DEF MatcherFacts, Paths, States
<1>5. ended \in BOOLEAN /\ reasoning \in BOOLEAN
  BY <1>2 DEF MatcherFacts
<1> QED
  BY <1>2, <1>3, <1>4, <1>5

\* A request begins with a matcher that took nothing.
LEMMA MatcherInit == RequestInit => MatcherFacts
<1> SUFFICES ASSUME RequestInit PROVE MatcherFacts
  OBVIOUS
<1> USE DEF RequestInit
<1>1. scenario.thinking \in BOOLEAN
  BY ScenarioFacts
<1>2. <<>> \in Seq(Ids) /\ ToSet(<<>>) = {} /\ <<>> \in Seq(scenario.ids)
  <2>1. <<>> \in Seq(Ids) /\ Len(<<>>) = 0 /\ <<>> \in Seq(scenario.ids)
    BY EmptySeq
  <2>2. \A s \in Seq(Ids) : ToSet(s) = {s[i] : i \in 1..Len(s)}
    BY SeqFacts
  <2>3. ToSet(<<>>) = {}
    <3>1. 1..Len(<<>>) = {}
      BY <2>1
    <3>2. ToSet(<<>>) = {<<>>[i] : i \in 1..Len(<<>>)}
      BY <2>1, <2>2, Zenon
    <3>3. ASSUME NEW x \in ToSet(<<>>) PROVE FALSE
      <4>1. \E i \in 1..Len(<<>>) : x = <<>>[i]
        BY <3>2, <3>3, Zenon
      <4> QED
        BY <3>1, <4>1, Zenon
    <3> QED
      BY <3>3, Zenon
  <2> QED
    BY <2>1, <2>3
<1>3. Spoken = <<>>
  BY <1>2, AfterNone DEF Spoken
<1>4. GrammarFollows
  <2>1. Taken(<<Start>>, Spoken).p = <<Start>>
    BY <1>3, AtStart
  <2>2. Present(path) # Terminated
    BY AtStart
  <2> QED
    BY <2>1, <2>2 DEF GrammarFollows
<1>5. Taken(<<Start>>, Spoken).going
  BY <1>3, AtStart
<1>6. path \in Seq(DOMAIN Rules \cup {Terminated}) /\ path # <<>>
  BY AtStart DEF Paths, States
<1> QED
  BY <1>1, <1>2, <1>4, <1>5, <1>6 DEF MatcherFacts

\* Drafts are kept when the matcher takes them.
LEMMA MatcherDraft ==
  ASSUME TextFacts, MatcherFacts, Draft
  PROVE  MatcherFacts'
<1> USE DEF Draft
<1>1. /\ path \in Paths /\ ended \in BOOLEAN /\ reasoning \in BOOLEAN
      /\ ids \in Seq(Ids) /\ Spoken \in Seq(Ids)
  BY MatcherTypes
<1>2. scenario \in Scenarios /\ scenario.grammar \in BOOLEAN
  BY ScenarioFacts DEF TextFacts
<1>3. PICK tokens \in Sequences(scenario.ids, IF scenario.grammar THEN scenario.chunk - 1 ELSE 0) :
        drafts' = IF ~scenario.grammar \/ reasoning THEN tokens ELSE Validated(path, ended, tokens)
  OBVIOUS
<1>4. tokens \in Seq(scenario.ids) /\ tokens \in Seq(Ids)
  <2>1. (IF scenario.grammar THEN scenario.chunk - 1 ELSE 0) \in Nat
    BY <1>2, ScenarioFacts
  <2>2. tokens \in Seq(scenario.ids)
    BY <1>3, <2>1, SequencesFacts
  <2> QED
    BY <1>2, <2>2, ScenarioFacts
<1>5. drafts' \in Seq(scenario.ids)
      /\ (scenario.grammar /\ ~reasoning => Taken(path, drafts').n = Len(drafts'))
  <2>1. CASE ~scenario.grammar \/ reasoning
    BY <1>3, <1>4, <2>1
  <2>2. CASE scenario.grammar /\ ~reasoning /\ ended
    <3>1. drafts' = <<>>
      BY <1>3, <2>2 DEF Validated
    <3>2. <<>> \in Seq(scenario.ids) /\ <<>> \in Seq(Ids) /\ Len(<<>>) = 0
      BY EmptySeq
    <3>3. Taken(path, <<>>).n \in 0..0
      BY <1>1, <3>2, TakenFacts
    <3>4. Taken(path, <<>>).n = Len(<<>>)
      BY <3>2, <3>3
    <3>5. Taken(path, drafts').n = Len(drafts')
      BY <3>1, <3>4, Zenon
    <3> QED
      BY <3>1, <3>2, <3>5
  <2>3. CASE scenario.grammar /\ ~reasoning /\ ~ended
    <3>1. drafts' = SubSeq(tokens, 1, Taken(path, tokens).n)
      BY <1>3, <2>3 DEF Validated
    <3>2. Taken(path, tokens).n \in 0..Len(tokens)
      BY <1>1, <1>4, TakenFacts
    <3>3. drafts' \in Seq(scenario.ids)
      BY <1>4, <3>1, <3>2, CutInTwo
    <3>4. Taken(path, drafts').n = Len(drafts')
      BY <1>1, <1>4, <3>1, ValidatedTaken
    <3> QED
      BY <3>3, <3>4
  <2> QED
    BY <1>1, <1>2, <2>1, <2>2, <2>3
<1>6. /\ scenario' = scenario /\ path' = path /\ ended' = ended /\ refused' = refused
      /\ reasoning' = reasoning /\ ids' = ids
  BY DEF output
<1>7. Spoken' = Spoken
  BY <1>6 DEF Spoken
<1>8. GrammarFollows'
  BY <1>6, <1>7 DEF GrammarFollows, MatcherFacts
<1> QED
  BY <1>5, <1>6, <1>7, <1>8 DEF MatcherFacts

\* The window advances the matcher and rolls it back to where it was.
LEMMA MatcherCheck ==
  ASSUME TextFacts, MatcherFacts, Check
  PROVE  MatcherFacts'
<1> USE DEF Check
<1>1. /\ path \in Paths /\ ended \in BOOLEAN /\ reasoning \in BOOLEAN
      /\ ids \in Seq(Ids) /\ drafts \in Seq(Ids) /\ Spoken \in Seq(Ids)
  BY MatcherTypes
<1>2. scenario' = scenario /\ reasoning' = reasoning /\ ids' = ids /\ drafts' = drafts
  BY DEF output
<1>3. Spoken' = Spoken
  BY <1>2 DEF Spoken
<1>4. path' = path /\ ended' = ended /\ refused' = refused
  <2>1. CASE scenario.grammar
    <3>1. path = Taken(<<Start>>, Spoken).p /\ (ended <=> Present(path) = Terminated)
      BY <2>1 DEF GrammarFollows, MatcherFacts
    <3>2. ~reasoning => Taken(path, drafts).n = Len(drafts)
      BY <2>1 DEF MatcherFacts
    <3>3. RolledBack(Speculate) = path /\ ~Speculate.error
      BY <1>1, <3>1, <3>2, RollsBack
    <3>4. path' = path
      BY <2>1, <3>3
    <3>5. ended' = ended
      BY <2>1, <3>1, <3>4
    <3>6. ~refused /\ refused \in BOOLEAN
      BY DEF MatcherFacts
    <3>7. refused' = refused
      BY <2>1, <3>3, <3>6
    <3> QED
      BY <3>4, <3>5, <3>7
  <2>2. CASE ~scenario.grammar
    BY <2>2
  <2> QED
    BY <2>1, <2>2
<1>5. GrammarFollows'
  BY <1>2, <1>3, <1>4 DEF GrammarFollows, MatcherFacts
<1> QED
  BY <1>2, <1>3, <1>4, <1>5 DEF MatcherFacts

\* A chunk's outcome, as Sample names it.
StopsAtEos(tokens) == Last(tokens) = Eos /\ ~scenario.ignoreEos
Said1(tokens) == IF StopsAtEos(tokens) THEN Front(tokens) ELSE tokens
NewText(tokens) == text \o Decode(Said1(tokens))
StopIn(tokens) == StopAt(NewText(tokens), CheckFrom(NewText(tokens), Len(text)))
Finishes(tokens) ==
  StopsAtEos(tokens) \/ StopIn(tokens) > 0 \/ Len(ids) + Len(tokens) = scenario.length
OutText(tokens) ==
  IF StopIn(tokens) > 0 THEN SubSeq(NewText(tokens), 1, StopIn(tokens) - 1) ELSE NewText(tokens)
Upto(tokens) ==
  IF Finishes(tokens) THEN Len(OutText(tokens)) ELSE Later(sent, Len(OutText(tokens)) - Buffer)
Hiding(tokens) == HideDelta(stream, SubSeq(OutText(tokens), sent + 1, Upto(tokens)), tokens)

\* A step's outcome in those names.
LEMMA SampleFacts ==
  ASSUME Sample
  PROVE  \E tokens \in Sequences(scenario.ids, scenario.chunk) :
           /\ tokens # <<>> /\ Len(tokens) <= Room /\ Whole(tokens) /\ Allowed(tokens)
           /\ ids' = ids \o tokens /\ text' = OutText(tokens) /\ cut' = StopIn(tokens)
           /\ closed' = (closed \/ (guard /\ CloseAt(NewText(tokens), Len(text)) > 0))
           /\ stream' = Hiding(tokens).stream /\ sent' = Upto(tokens)
           /\ fed' = fed \o Hiding(tokens).text
           /\ shown' = shown \o Unhide(Hiding(tokens).stream, Hiding(tokens).text)
           /\ asIs' = (asIs \/ Hiding(tokens).asIs)
           /\ path' = (IF scenario.grammar THEN Advanced(path, ended, AfterEnd(tokens)) ELSE path)
           /\ ended' = (ended \/ (scenario.grammar /\ Present(path') = Terminated))
           /\ refused' = (refused \/ (scenario.grammar /\ Fails(path, ended, AfterEnd(tokens))))
           /\ reasoning' = (reasoning /\ ThinkEnd \notin ToSet(tokens))
           /\ drafts' = <<>> /\ place' = IF Finishes(tokens) THEN "finished" ELSE "draft"
BY ZenonT(150) DEF Sample, StopsAtEos, Said1, NewText, StopIn, Finishes, OutText, Upto, Hiding

\* A sampled chunk takes the matcher where its tokens lead.
LEMMA MatcherSample ==
  ASSUME TextFacts, MatcherFacts, Sample
  PROVE  MatcherFacts'
<1>1. /\ path \in Paths /\ ended \in BOOLEAN /\ reasoning \in BOOLEAN
      /\ ids \in Seq(Ids) /\ Spoken \in Seq(Ids)
  BY MatcherTypes
<1>2. scenario \in Scenarios /\ scenario.grammar \in BOOLEAN /\ scenario.thinking \in BOOLEAN /\ scenario.chunk \in Nat
  BY ScenarioFacts DEF TextFacts
<1>3. PICK tokens \in Sequences(scenario.ids, scenario.chunk) :
        /\ Allowed(tokens) /\ ids' = ids \o tokens
        /\ path' = (IF scenario.grammar THEN Advanced(path, ended, AfterEnd(tokens)) ELSE path)
        /\ ended' = (ended \/ (scenario.grammar /\ Present(path') = Terminated))
        /\ refused' = (refused \/ (scenario.grammar /\ Fails(path, ended, AfterEnd(tokens))))
        /\ reasoning' = (reasoning /\ ThinkEnd \notin ToSet(tokens))
        /\ drafts' = <<>> /\ place' = IF Finishes(tokens) THEN "finished" ELSE "draft"
  BY SampleFacts
<1>4. scenario' = scenario
  BY DEF Sample
<1>5. tokens \in Seq(scenario.ids) /\ tokens \in Seq(Ids)
  <2>1. tokens \in Seq(scenario.ids)
    BY <1>2, <1>3, SequencesFacts
  <2> QED
    BY <1>2, <2>1, ScenarioFacts
<1>6. reasoning <=> scenario.thinking /\ ThinkEnd \notin ToSet(ids)
  BY DEF MatcherFacts
<1> DEFINE next == AfterEnd(tokens)
           after == IF scenario.thinking THEN After(ids \o tokens) ELSE ids \o tokens
<1>7. /\ after = Spoken \o next /\ next \in Seq(Ids)
      /\ reasoning' \in BOOLEAN /\ reasoning' <=> (scenario.thinking /\ ThinkEnd \notin ToSet(ids \o tokens))
  <2>1. Grows(scenario.thinking, reasoning, ids, tokens)
    BY <1>1, <1>2, <1>5, <1>6, SpokenGrows, Zenon
  <2> QED
    BY <1>3, <2>1, Zenon DEF Grows, Spoken, AfterEnd
<1>8. Spoken' = Spoken \o next
  BY <1>3, <1>4, <1>7 DEF Spoken
<1>9. ~refused /\ refused \in BOOLEAN
  BY DEF MatcherFacts
<1>10. CASE scenario.grammar
  <2>1. /\ path = Taken(<<Start>>, Spoken).p /\ (ended <=> Present(path) = Terminated)
        /\ ended \/ Taken(<<Start>>, Spoken).going
    BY <1>10 DEF GrammarFollows, MatcherFacts
  <2>2. ~ended => Taken(path, next).n = Len(next) \/ Present(Taken(path, next).p) = Terminated
    BY <1>3, <1>10 DEF Allowed
  <2> DEFINE q == Advanced(path, ended, next)
  <2>3. /\ ~Fails(path, ended, next) /\ q \in Paths
        /\ q = Taken(<<Start>>, Spoken \o next).p
        /\ (ended => Present(q) = Terminated)
        /\ Present(q) = Terminated \/ Taken(<<Start>>, Spoken \o next).going
    <3>1. Advances(path, ended, Spoken, next, q)
      BY <1>1, <1>7, <2>1, <2>2, GrammarAdvances, Zenon
    <3> QED
      BY <3>1 DEF Advances
  <2>4. path' = q
    BY <1>3, <1>10
  <2> HIDE DEF q, next
  <2>5. (ended' <=> Present(q) = Terminated) /\ ended' \in BOOLEAN
    BY <1>1, <1>3, <1>10, <2>3, <2>4
  <2>6. ~refused' /\ refused' \in BOOLEAN
    BY <1>3, <1>9, <2>3 DEF next
  <2>7. GrammarFollows'
    BY <1>4, <1>8, <2>3, <2>4, <2>5 DEF GrammarFollows
  <2>8. ended' \/ Taken(<<Start>>, Spoken').going
    BY <1>8, <2>3, <2>5
  <2>9. path' \in Seq(DOMAIN Rules \cup {Terminated}) /\ path' # <<>> /\ ended' \in BOOLEAN
    BY <2>3, <2>4, <2>5 DEF Paths, States
  <2>10. drafts' \in Seq(scenario'.ids) /\ place' # "check"
    BY <1>3, EmptySeq
  <2> QED
    BY <1>3, <1>4, <1>7, <2>6, <2>7, <2>8, <2>9, <2>10 DEF MatcherFacts
<1>11. CASE ~scenario.grammar
  <2>1. path' = path /\ ended' = ended /\ refused' = FALSE
    BY <1>1, <1>3, <1>9, <1>11
  <2>2. drafts' \in Seq(scenario'.ids) /\ place' # "check"
    BY <1>3, EmptySeq
  <2>3. GrammarFollows'
    BY <1>4, <1>11 DEF GrammarFollows
  <2>4. path' \in Seq(DOMAIN Rules \cup {Terminated}) /\ path' # <<>> /\ ended' \in BOOLEAN
    BY <1>1, <2>1 DEF Paths, States
  <2> QED
    BY <1>3, <1>4, <1>7, <1>11, <2>1, <2>2, <2>3, <2>4 DEF MatcherFacts
<1> QED
  BY <1>2, <1>10, <1>11

\* A word at a place of a text, place by place.
LEMMA AtIs ==
  ASSUME NEW S, NEW w \in Seq(S), NEW t \in Seq(S), NEW i \in Nat \ {0}
  PROVE  At(w, t, i) <=>
           /\ i + Len(w) - 1 <= Len(t)
           /\ \A j \in 1..Len(w) : t[i + j - 1] = w[j]
<1> DEFINE l == Len(w)
           n == i + l - 1
<1>1. l \in Nat /\ Len(t) \in Nat /\ n \in Int /\ i \in Int
  BY SeqFacts
<1>2. CASE n <= Len(t)
  <2>1. \A j \in i..n : t[j] \in S
    BY <1>1, <1>2, SeqFacts
  <2>2. /\ SubSeq(t, i, n) \in Seq(S)
        /\ Len(SubSeq(t, i, n)) = (IF i <= n THEN n - i + 1 ELSE 0)
        /\ \A j \in 1..(n - i + 1) : SubSeq(t, i, n)[j] = t[i + j - 1]
    BY <1>1, <2>1, SubSeqProperties
  <2>3. Len(SubSeq(t, i, n)) = l
    BY <1>1, <2>2
  <2>4. \A j \in 1..l : SubSeq(t, i, n)[j] = t[i + j - 1]
    BY <1>1, <2>2
  <2>5. SubSeq(t, i, n) = w <=> \A j \in 1..l : t[i + j - 1] = w[j]
    <3>1. ASSUME \A j \in 1..l : t[i + j - 1] = w[j] PROVE SubSeq(t, i, n) = w
      <4>1. \A j \in 1..Len(SubSeq(t, i, n)) : SubSeq(t, i, n)[j] = w[j]
        BY <2>3, <2>4, <3>1
      <4> QED
        BY <2>2, <2>3, <4>1, SeqEqual
    <3>2. ASSUME SubSeq(t, i, n) = w PROVE \A j \in 1..l : t[i + j - 1] = w[j]
      BY <2>4, <3>2
    <3> QED
      BY <3>1, <3>2
  <2> QED
    BY <1>2, <2>5 DEF At
<1>3. CASE ~(n <= Len(t))
  BY <1>3 DEF At
<1> QED
  BY <1>2, <1>3

\* What is wholly in a text is there when more follows, and nothing else is.
LEMMA AtJoined ==
  ASSUME NEW S, NEW w \in Seq(S), NEW t \in Seq(S), NEW u \in Seq(S), NEW i \in Nat \ {0},
         i + Len(w) - 1 <= Len(t)
  PROVE  At(w, t, i) <=> At(w, t \o u, i)
<1> DEFINE v == t \o u
<1>1. /\ v \in Seq(S) /\ Len(v) = Len(t) + Len(u) /\ Len(t) \in Nat /\ Len(u) \in Nat /\ Len(w) \in Nat
      /\ \A j \in 1..Len(t) : v[j] = t[j]
  BY Joined, SeqFacts
<1> HIDE DEF v
<1>2. \A j \in 1..Len(w) : v[i + j - 1] = t[i + j - 1]
  <2> TAKE j \in 1..Len(w)
  <2>1. i + j - 1 \in 1..Len(t)
    BY <1>1
  <2> QED
    BY <1>1, <2>1
<1>3. i + Len(w) - 1 <= Len(v)
  BY <1>1
<1>4. At(w, t, i) <=> \A j \in 1..Len(w) : t[i + j - 1] = w[j]
  BY AtIs
<1>5. At(w, v, i) <=> \A j \in 1..Len(w) : v[i + j - 1] = w[j]
  BY <1>1, <1>3, AtIs
<1> QED
  BY <1>2, <1>4, <1>5 DEF v

\* A search finds the first place, or none.
LEMMA FindFacts ==
  ASSUME NEW w, NEW t, Len(t) \in Nat, NEW from \in Nat \ {0}
  PROVE  /\ Find(w, t, from) \in Nat
         /\ Find(w, t, from) = 0 <=> \A i \in from..Len(t) : ~At(w, t, i)
         /\ Find(w, t, from) # 0 =>
              /\ Find(w, t, from) \in from..Len(t) /\ At(w, t, Find(w, t, from))
              /\ \A i \in from..Len(t) : At(w, t, i) => Find(w, t, from) <= i
<1> DEFINE T == {i \in from..Len(t) : At(w, t, i)}
<1>1. CASE T = {}
  <2>1. Find(w, t, from) = 0
    BY <1>1 DEF Find
  <2> QED
    BY <1>1, <2>1
<1>2. CASE T # {}
  <2>1. T \in SUBSET Nat
    OBVIOUS
  <2>2. \E k \in T : \A l \in T : k <= l
    BY <1>2, <2>1, Least, Zenon
  <2> DEFINE k == CHOOSE i \in T : \A j \in T : i <= j
  <2>3. k \in T /\ \A l \in T : k <= l
    BY <2>2
  <2>4. Find(w, t, from) = k
    BY <1>2, Zenon DEF Find
  <2> HIDE DEF k
  <2>5. k \in from..Len(t) /\ At(w, t, k) /\ k # 0 /\ k \in Nat
    BY <2>3
  <2>6. \A i \in from..Len(t) : At(w, t, i) => k <= i
    BY <2>3
  <2>7. ~(\A i \in from..Len(t) : ~At(w, t, i))
    BY <2>5
  <2> QED
    BY <2>4, <2>5, <2>6, <2>7
<1> QED
  BY <1>1, <1>2

\* The first place, told by its facts.
LEMMA FindIs ==
  ASSUME NEW w, NEW t, Len(t) \in Nat, NEW from \in Nat \ {0}, NEW k \in from..Len(t), At(w, t, k),
         \A i \in from..(k - 1) : ~At(w, t, i)
  PROVE  Find(w, t, from) = k
<1> DEFINE f == Find(w, t, from)
<1>1. /\ f \in Nat
      /\ f = 0 <=> \A i \in from..Len(t) : ~At(w, t, i)
      /\ f # 0 => /\ f \in from..Len(t) /\ At(w, t, f)
                  /\ \A i \in from..Len(t) : At(w, t, i) => f <= i
  BY FindFacts
<1> HIDE DEF f
<1>2. f # 0 /\ f <= k /\ f \in from..Len(t) /\ At(w, t, f)
  BY <1>1
<1>3. ~(f < k)
  <2>1. ASSUME f < k PROVE f \in from..(k - 1)
    BY <1>2, <2>1
  <2> QED
    BY <1>2, <2>1
<1> QED
  BY <1>2, <1>3 DEF f

\* A search may begin at any place before which there is nothing.
LEMMA FindSkips ==
  ASSUME NEW w, NEW t, Len(t) \in Nat, NEW a \in Nat \ {0}, NEW b \in Nat \ {0}, a <= b,
         \A i \in a..(b - 1) : ~(i <= Len(t) /\ At(w, t, i))
  PROVE  Find(w, t, b) = Find(w, t, a)
<1>1. {i \in b..Len(t) : At(w, t, i)} = {i \in a..Len(t) : At(w, t, i)}
  <2>1. ASSUME NEW i \in a..Len(t), At(w, t, i) PROVE i \in b..Len(t)
    <3>1. i \notin a..(b - 1)
      BY <2>1
    <3> QED
      BY <3>1
  <2>2. ASSUME NEW i \in b..Len(t) PROVE i \in a..Len(t)
    OBVIOUS
  <2> QED
    BY <2>1, <2>2
<1> DEFINE First(T) == IF T = {} THEN 0 ELSE CHOOSE i \in T : \A j \in T : i <= j
           A == {i \in a..Len(t) : At(w, t, i)}
           B == {i \in b..Len(t) : At(w, t, i)}
<1>2. Find(w, t, a) = First(A) /\ Find(w, t, b) = First(B)
  BY Zenon DEF Find
<1>3. A = B
  BY <1>1
<1> HIDE DEF First, A, B
<1> QED
  BY <1>2, <1>3

\* A search begins at a place of the text.
LEMMA AtLeast1Is == \A n \in Int : AtLeast1(n) \in Nat \ {0} /\ AtLeast1(n) >= n
                                   /\ \A i \in Nat \ {0} : i >= n => i >= AtLeast1(n)
BY DEF AtLeast1

\* A word found at a place ends in the text.
LEMMA AtEnds ==
  ASSUME NEW w, NEW t, Len(t) \in Nat, Len(w) \in Nat, NEW i \in Nat, At(w, t, i)
  PROVE  i + Len(w) - 1 <= Len(t)
BY DEF At

\* A word that no text held is, in the text with more, where it ends in what came,
\* and the search from there finds the first.
LEMMA FindNew ==
  ASSUME NEW S, NEW w \in Seq(S), Len(w) # 0, NEW t \in Seq(S), NEW u \in Seq(S), NEW from \in Nat \ {0},
         Find(w, t, from) = 0, NEW b, b = AtLeast1(Len(t) - Len(w) + 2)
  PROVE  \A i \in from..Len(t \o u) : At(w, t \o u, i) => i >= b /\ i + Len(w) - 1 > Len(t)
<1> DEFINE v == t \o u
<1>1. /\ v \in Seq(S) /\ Len(v) = Len(t) + Len(u) /\ Len(t) \in Nat /\ Len(u) \in Nat /\ Len(w) \in Nat
  BY Joined, SeqFacts
<1>2. \A i \in from..Len(t) : ~At(w, t, i)
  BY <1>1, FindFacts
<1> HIDE DEF v
<1>3. SUFFICES ASSUME NEW i \in from..Len(v), At(w, v, i) PROVE i >= b /\ i + Len(w) - 1 > Len(t)
  BY DEF v
<1>4. i + Len(w) - 1 > Len(t)
  <2>1. ASSUME ~(i + Len(w) - 1 > Len(t)) PROVE FALSE
    <3>1. i \in from..Len(t) /\ i + Len(w) - 1 <= Len(t) /\ i \in Nat \ {0}
      BY <1>1, <2>1
    <3>2. At(w, t, i)
      BY <1>3, <3>1, AtJoined DEF v
    <3> QED
      BY <1>2, <3>1, <3>2
  <2> QED
    BY <2>1
<1>5. i >= b
  <2>1. i \in Nat \ {0} /\ i >= Len(t) - Len(w) + 2 /\ Len(t) - Len(w) + 2 \in Int
    BY <1>1, <1>4
  <2> QED
    BY <2>1, AtLeast1Is
<1> QED
  BY <1>4, <1>5

\* A word found in a text is found there when more follows.
LEMMA FindOld ==
  ASSUME NEW S, NEW w \in Seq(S), Len(w) # 0, NEW t \in Seq(S), NEW u \in Seq(S), NEW from \in Nat \ {0},
         Find(w, t, from) # 0
  PROVE  Find(w, t \o u, from) = Find(w, t, from)
<1> DEFINE v == t \o u
           k == Find(w, t, from)
<1>1. /\ v \in Seq(S) /\ Len(v) = Len(t) + Len(u) /\ Len(t) \in Nat /\ Len(u) \in Nat /\ Len(w) \in Nat
  BY Joined, SeqFacts
<1>2. k \in from..Len(t) /\ At(w, t, k) /\ \A i \in from..Len(t) : At(w, t, i) => k <= i
  BY <1>1, FindFacts
<1> HIDE DEF v, k
<1>3. k \in Nat \ {0} /\ k + Len(w) - 1 <= Len(t) /\ k \in from..Len(v)
  BY <1>1, <1>2, AtEnds
<1>4. At(w, v, k)
  BY <1>1, <1>2, <1>3, AtJoined DEF v
<1>5. ASSUME NEW i \in from..(k - 1) PROVE ~At(w, v, i)
  <2>1. i \in from..Len(t) /\ ~(k <= i) /\ i \in Nat \ {0} /\ i + Len(w) - 1 <= Len(t)
    BY <1>1, <1>3
  <2>2. ~At(w, t, i)
    BY <1>2, <2>1
  <2> QED
    BY <2>1, <2>2, AtJoined DEF v
<1>6. Find(w, v, from) = k
  BY <1>1, <1>3, <1>4, <1>5, FindIs
<1> QED
  BY <1>6 DEF v, k

\* The strings that are searched for.
LEMMA Marks ==
  ASSUME NEW s \in Scenarios
  PROVE  /\ Text[ThinkEnd] \in Seq(Alphabet) /\ Len(Text[ThinkEnd]) \in Nat \ {0}
         /\ s.stop \in Seq(Alphabet) /\ Len(s.stop) \in Nat /\ (s.stop # <<>> => Len(s.stop) # 0)
<1>1. ThinkEnd \in Ids
  BY ScenarioAssumption, VocabAssumption
<1> QED
  BY <1>1, Decoded, ScenarioFacts, SeqFacts

\* Where the end of the reasoning is, and from where the stop string is searched.
CloseRight(v, o, c, f) ==
  /\ c \in Nat /\ f \in Nat /\ f >= o
  /\ guard /\ ~closed => CloseAt(v, o) = c
  /\ guard /\ ~closed /\ c = 0 => f = Len(v)
  /\ guard /\ ~closed /\ c # 0 => c + Len(Text[ThinkEnd]) - 1 > o /\ f = c + Len(Text[ThinkEnd]) - 1
  /\ guard /\ closed => c = Find(Text[ThinkEnd], text, 1) /\ c # 0 /\ c + Len(Text[ThinkEnd]) - 1 <= o
  /\ ~guard \/ closed => f = o
\* What the detokenizer's search for the end of the reasoning finds in a text that
\* grew, told by what the whole text holds.
LEMMA CloseFacts ==
  ASSUME scenario \in Scenarios, guard \in BOOLEAN, closed \in BOOLEAN, text \in Seq(Alphabet),
         NEW u \in Seq(Alphabet), NEW v, v = text \o u,
         guard => (closed <=> Find(Text[ThinkEnd], text, 1) > 0),
         NEW o, o = Len(text), NEW c, c = Find(Text[ThinkEnd], v, 1), NEW f, f = CheckFrom(v, o)
  PROVE  CloseRight(v, o, c, f)
<1> USE DEF CloseRight
<1> DEFINE w == Text[ThinkEnd]
           e == Len(w)
           old == Find(w, text, 1)
           b == AtLeast1(o - e + 2)
<1>1. w \in Seq(Alphabet) /\ e \in Nat \ {0}
  BY Marks
<1>2. v \in Seq(Alphabet) /\ Len(v) = o + Len(u) /\ o \in Nat /\ Len(u) \in Nat
  BY Joined, SeqFacts
<1>3. /\ c \in Nat
      /\ c # 0 => c \in 1..Len(v) /\ At(w, v, c)
      /\ c = 0 <=> \A i \in 1..Len(v) : ~At(w, v, i)
  <2>1. Len(v) \in Nat /\ 1 \in Nat \ {0}
    BY <1>2
  <2> HIDE DEF w
  <2>2. /\ Find(w, v, 1) \in Nat
        /\ Find(w, v, 1) # 0 => Find(w, v, 1) \in 1..Len(v) /\ At(w, v, Find(w, v, 1))
        /\ Find(w, v, 1) = 0 <=> \A i \in 1..Len(v) : ~At(w, v, i)
    BY <2>1, FindFacts
  <2>3. c = Find(w, v, 1)
    BY DEF w
  <2> QED
    BY <2>2, <2>3
<1>4. /\ old \in Nat
      /\ old # 0 => old \in 1..Len(text) /\ At(w, text, old)
  <2>1. Len(text) \in Nat /\ 1 \in Nat \ {0}
    BY <1>2
  <2> HIDE DEF w
  <2> QED
    BY <2>1, FindFacts
<1>5. b \in Nat \ {0}
  <2>1. o - e + 2 \in Int
    BY <1>1, <1>2
  <2> QED
    BY <2>1, AtLeast1Is
<1>6. CloseAt(v, o) = Find(w, v, b)
  BY DEF CloseAt
<1>7. CASE guard /\ ~closed
  <2>1. old = 0
    BY <1>4, <1>7
  <2>2. \A i \in 1..Len(v) : At(w, v, i) => i >= b /\ i + e - 1 > o
    <3> HIDE DEF w
    <3>1. b = AtLeast1(Len(text) - Len(w) + 2) /\ Find(w, text, 1) = 0 /\ Len(w) # 0
      BY <1>1, <2>1
    <3> HIDE DEF b, old
    <3>2. \A i \in 1..Len(text \o u) : At(w, text \o u, i) => i >= b /\ i + Len(w) - 1 > Len(text)
      BY <1>1, <3>1, FindNew
    <3> QED
      BY <3>2 DEF e
  <2> HIDE DEF w, e, old, b
  <2>3. \A i \in 1..(b - 1) : ~(i <= Len(v) /\ At(w, v, i))
    BY <1>2, <1>5, <2>2
  <2>4. Find(w, v, b) = Find(w, v, 1)
    <3>1. Len(v) \in Nat /\ 1 \in Nat \ {0} /\ 1 <= b
      BY <1>2, <1>5
    <3> QED
      BY <1>5, <2>3, <3>1, FindSkips
  <2>5. CloseAt(v, o) = c
    BY <1>6, <2>4 DEF w
  <2>6. CASE c = 0
    <3>1. f = Len(v)
      BY <1>7, <2>5, <2>6 DEF CheckFrom
    <3> QED
      BY <1>2, <1>7, <2>5, <2>6, <3>1
  <2>7. CASE c # 0
    <3>1. f = Later(o, c + e - 1)
      BY <1>7, <2>5, <2>7 DEF CheckFrom, e, w
    <3>2. c + e - 1 > o
      BY <1>3, <2>2, <2>7
    <3>3. c + e - 1 \in Nat
      BY <1>1, <1>3, <2>7
    <3>4. f = c + e - 1
      BY <1>2, <3>1, <3>2, <3>3 DEF Later
    <3> QED
      BY <1>2, <1>3, <1>7, <2>5, <2>7, <3>2, <3>3, <3>4 DEF e, w
  <2> QED
    BY <2>6, <2>7
<1>8. CASE guard /\ closed
  <2>1. old # 0
    BY <1>4, <1>8
  <2>2. c = old
    BY <1>1, <2>1, FindOld
  <2>3. old + e - 1 <= o
    BY <1>1, <1>2, <1>4, <2>1, AtEnds
  <2>4. f = o
    BY <1>8 DEF CheckFrom
  <2> QED
    BY <1>2, <1>3, <1>8, <2>1, <2>2, <2>3, <2>4
<1>9. CASE ~guard
  <2>1. f = o
    BY <1>9 DEF CheckFrom
  <2> QED
    BY <1>2, <1>3, <1>9, <2>1
<1> QED
  BY <1>7, <1>8, <1>9

\* Where the stop string is, if anywhere.
StopsAt(v, o, c, st) ==
  /\ st \in Nat
  /\ st # 0 => /\ scenario.stop # <<>> /\ st \in 1..Len(v)
               /\ st + Len(scenario.stop) >= o + 2
  /\ guard /\ st # 0 => c # 0 /\ st + Len(scenario.stop) > c + Len(Text[ThinkEnd])
  /\ scenario.stop # <<>> /\ st = 0 =>
       \/ guard /\ c = 0
       \/ Find(scenario.stop, v, IF ~guard THEN 1 ELSE c + Len(Text[ThinkEnd])) = 0
\* And what its search for the stop string finds.
LEMMA StopFacts ==
  ASSUME scenario \in Scenarios, guard \in BOOLEAN, closed \in BOOLEAN, text \in Seq(Alphabet),
         NEW u \in Seq(Alphabet), NEW v, v = text \o u,
         guard => (closed <=> Find(Text[ThinkEnd], text, 1) > 0),
         scenario.stop # <<>> =>
           \/ guard /\ Find(Text[ThinkEnd], text, 1) = 0
           \/ Find(scenario.stop, text, IF ~guard THEN 1
                   ELSE Find(Text[ThinkEnd], text, 1) + Len(Text[ThinkEnd])) = 0,
         NEW c, c = Find(Text[ThinkEnd], v, 1), NEW st, st = StopAt(v, CheckFrom(v, Len(text)))
  PROVE  StopsAt(v, Len(text), c, st)
<1> DEFINE o == Len(text)
           f == CheckFrom(v, o)
           w == scenario.stop
           l == Len(w)
           e == Len(Text[ThinkEnd])
           old == Find(Text[ThinkEnd], text, 1)
           b == AtLeast1(f - l + 2)
<1>1. /\ c \in Nat /\ f \in Nat /\ f >= o
      /\ guard /\ ~closed /\ c = 0 => f = Len(v)
      /\ guard /\ ~closed /\ c # 0 => c + e - 1 > o /\ f = c + e - 1
      /\ guard /\ closed => c = old /\ c # 0 /\ c + e - 1 <= o
      /\ ~guard \/ closed => f = o
  <2>1. CloseRight(v, Len(text), c, CheckFrom(v, Len(text)))
    <3> HIDE DEF o, f, w, l, e, old, b
    <3> QED
      BY CloseFacts, Zenon
  <2> QED
    BY <2>1, Zenon DEF CloseRight
<1>2. e \in Nat \ {0} /\ w \in Seq(Alphabet) /\ l \in Nat /\ (w # <<>> => l # 0)
  BY Marks
<1>3. v \in Seq(Alphabet) /\ Len(v) = o + Len(u) /\ o \in Nat /\ Len(u) \in Nat /\ Len(v) \in Nat
  BY Joined, SeqFacts
<1>4. f - l + 2 \in Int /\ b \in Nat \ {0} /\ b >= f - l + 2 /\ \A i \in Nat \ {0} : i >= f - l + 2 => i >= b
  <2>1. f - l + 2 \in Int
    BY <1>1, <1>2
  <2> HIDE DEF f, l
  <2> QED
    BY <2>1, AtLeast1Is
<1>5. st = IF w = <<>> \/ f >= Len(v) THEN 0 ELSE Find(w, v, b)
  BY DEF StopAt
<1>6. w # <<>> =>
        \/ guard /\ old = 0
        \/ Find(w, text, IF ~guard THEN 1 ELSE old + e) = 0
  OBVIOUS
<1>7. guard => (closed <=> old > 0)
  OBVIOUS
<1> HIDE DEF f, w, l, b, e, old, o
<1>8. /\ Find(w, v, b) \in Nat
      /\ Find(w, v, b) = 0 <=> \A i \in b..Len(v) : ~At(w, v, i)
      /\ Find(w, v, b) # 0 => Find(w, v, b) \in b..Len(v)
  BY <1>3, <1>4, FindFacts
<1>9. st \in Nat
  BY <1>5, <1>8
<1>10. ASSUME st # 0
       PROVE  /\ w # <<>> /\ st \in 1..Len(v) /\ st + l >= f + 2 /\ f < Len(v)
  <2>1. st = Find(w, v, b) /\ w # <<>> /\ f < Len(v)
    BY <1>1, <1>3, <1>5, <1>10
  <2>2. st \in b..Len(v)
    BY <1>8, <1>10, <2>1
  <2> QED
    BY <1>1, <1>2, <1>3, <1>4, <2>1, <2>2
<1>11. st # 0 => w # <<>> /\ st \in 1..Len(v) /\ st + l >= o + 2
  BY <1>1, <1>2, <1>3, <1>10
<1>12. guard /\ st # 0 => c # 0 /\ st + l > c + e
  <2> SUFFICES ASSUME guard, st # 0 PROVE c # 0 /\ st + l > c + e
    OBVIOUS
  <2>1. st + l >= f + 2 /\ f < Len(v) /\ st \in Int
    BY <1>9, <1>10
  <2>2. c \in Nat /\ e \in Nat /\ l \in Nat /\ f \in Nat /\ o \in Nat
    BY <1>1, <1>2, <1>3
  <2>3. c # 0 /\ c + e - 1 <= f
    <3>1. CASE closed
      <4>1. c # 0 /\ c + e - 1 <= o /\ f = o
        BY <1>1, <3>1
      <4> QED
        BY <4>1
    <3>2. CASE ~closed
      <4>1. c # 0
        BY <1>1, <2>1, <2>2, <3>2
      <4>2. f = c + e - 1
        BY <1>1, <3>2, <4>1
      <4> QED
        BY <2>2, <4>1, <4>2
    <3> QED
      BY <3>1, <3>2
  <2> QED
    BY <2>1, <2>2, <2>3
<1>13. ASSUME w # <<>>, st = 0, ~(guard /\ c = 0)
       PROVE  Find(w, v, IF ~guard THEN 1 ELSE c + e) = 0
  <2> DEFINE from == IF ~guard THEN 1 ELSE c + e
  <2>1. from \in Nat \ {0}
    BY <1>1, <1>2
  <2>2. ASSUME NEW i \in from..Len(v), At(w, v, i) PROVE FALSE
    <3>1. i \in Nat \ {0} /\ i + l - 1 <= Len(v) /\ l # 0 /\ l \in Nat
      <4>1. i \in Nat \ {0}
        BY <1>3, <2>1
      <4> HIDE DEF from
      <4>2. i + Len(w) - 1 <= Len(v)
        BY <1>2, <1>3, <2>2, <4>1, AtEnds DEF l
      <4> QED
        BY <1>2, <1>13, <4>1, <4>2 DEF l
    <3>2. i + l - 1 > f
      <4>1. CASE guard /\ ~closed
        <5>1. c # 0 /\ f = c + e - 1 /\ i >= c + e
          BY <1>1, <1>13, <4>1
        <5> QED
          BY <1>1, <1>2, <3>1, <5>1
      <4>2. CASE ~guard \/ closed
        <5>1. f = o
          BY <1>1, <4>2
        <5>2. Find(w, text, from) = 0
          <6>1. CASE guard
            <7>1. c = old /\ old # 0
              BY <1>1, <1>7, <4>2, <6>1
            <7> QED
              BY <1>6, <1>13, <6>1, <7>1
          <6>2. CASE ~guard
            BY <1>6, <1>13, <6>2
          <6> QED
            BY <6>1, <6>2
        <5> HIDE DEF from
        <5>3. Len(w) # 0
          BY <1>2, <1>13 DEF l
        <5>4. \A k \in from..Len(text \o u) : At(w, text \o u, k) =>
                k >= AtLeast1(Len(text) - Len(w) + 2) /\ k + Len(w) - 1 > Len(text)
          BY <1>2, <2>1, <5>2, <5>3, FindNew
        <5>5. i + Len(w) - 1 > Len(text)
          BY <2>2, <5>4
        <5> QED
          BY <5>1, <5>5 DEF l, o
      <4> QED
        BY <4>1, <4>2
    <3>3. i >= b
      <4>1. i >= f - l + 2
        BY <1>1, <1>2, <3>1, <3>2
      <4>2. i \in Nat \ {0}
        BY <3>1
      <4> QED
        BY <1>4, <4>1, <4>2
    <3>4. f < Len(v)
      BY <1>1, <1>3, <3>1, <3>2
    <3>5. Find(w, v, b) = 0
      BY <1>1, <1>3, <1>5, <1>13, <3>4
    <3>6. i \in b..Len(v)
      BY <1>3, <1>4, <3>1, <3>3
    <3> QED
      BY <1>8, <2>2, <3>5, <3>6
  <2> HIDE DEF from
  <2>3. Find(w, v, from) = 0
    BY <1>3, <2>1, <2>2, FindFacts
  <2> QED
    BY <2>3 DEF from
<1> QED
  BY <1>9, <1>11, <1>12, <1>13 DEF StopsAt, w, l, e, o

\* What one id does to the stream.
TakeId(y, id) ==
  LET s == y.s
      start == s.end + Len(Decode(s.run))
  IN IF y.early THEN y
     ELSE IF id \notin Added THEN [y EXCEPT !.s.run = Append(@, id)]
     ELSE [s |-> [s EXCEPT !.run = <<>>, !.end = start + Len(Text[id]),
                           !.spans = IF HasPipe(Text[id]) THEN @ \cup {[at |-> start, id |-> id]} ELSE @],
           early |-> start < s.seen]

\* A stream between the ids of a delta.
Takings == [s : Streams, early : BOOLEAN]

\* Where the stream is among the characters of the ids.
Reached(s) == s.end + Len(Decode(s.run))

\* An ordinary id makes the run longer by its characters.
LEMMA RunGrows ==
  ASSUME NEW r \in Seq(Ids), NEW id \in Ids
  PROVE  /\ Append(r, id) \in Seq(Ids)
         /\ Len(Decode(Append(r, id))) = Len(Decode(r)) + Len(Text[id])
<1>1. <<id>> \in Seq(Ids) /\ Decode(<<id>>) = Text[id]
  BY DecodeOne
<1>2. Append(r, id) = r \o <<id>>
  BY AppendIsConcat
<1>3. r \o <<id>> \in Seq(Ids) /\ Decode(r \o <<id>>) = Decode(r) \o Text[id]
  BY <1>1, DecodeConcat
<1>4. Decode(r) \in Seq(Alphabet) /\ Text[id] \in Seq(Alphabet)
  BY DecodeTyped, Decoded
<1>5. Len(Decode(r) \o Text[id]) = Len(Decode(r)) + Len(Text[id])
  BY <1>4, ConcatProperties
<1> QED
  BY <1>2, <1>3, <1>5

\* One id moves the stream by its characters, unless it came too late.
TakesId(y, id, z) ==
  /\ z.s.seen = y.s.seen /\ (z.s.active <=> y.s.active)
  /\ ~z.early => ~y.early /\ Reached(z.s) = Reached(y.s) + Len(Text[id])

\* It does.
LEMMA TakeIdFacts ==
  \A y \in Takings, id \in Ids : TakeId(y, id) \in Takings /\ TakesId(y, id, TakeId(y, id))
<1> TAKE y \in Takings, id \in Ids
<1> DEFINE s == y.s
           start == s.end + Len(Decode(s.run))
           z == TakeId(y, id)
<1>1. /\ y = [s |-> s, early |-> y.early] /\ y.early \in BOOLEAN
      /\ s \in Streams /\ s.run \in Seq(Ids) /\ s.end \in Nat /\ s.spans \subseteq [at : Nat, id : Ids]
      /\ s.seen \in Nat /\ s.active \in BOOLEAN /\ s.hidden \in BOOLEAN
  BY DEF Takings, Streams
<1>2. start \in Nat /\ Len(Text[id]) \in Nat
  <2>1. Len(Decode(s.run)) \in Nat
    BY <1>1, DecodeTyped
  <2> QED
    BY <1>1, <2>1, Decoded
<1>3. CASE y.early
  <2>1. z = y
    BY <1>3 DEF TakeId
  <2> QED
    BY <1>3, <2>1 DEF TakesId
<1>4. CASE ~y.early /\ id \notin Added
  <2> DEFINE r == [s EXCEPT !.run = Append(s.run, id)]
  <2>1. z = [y EXCEPT !.s = r]
    BY <1>4 DEF TakeId
  <2>2. /\ Append(s.run, id) \in Seq(Ids)
        /\ Len(Decode(Append(s.run, id))) = Len(Decode(s.run)) + Len(Text[id])
    BY <1>1, RunGrows
  <2>3. /\ r \in Streams /\ r.run = Append(s.run, id) /\ r.end = s.end /\ r.seen = s.seen /\ r.active = s.active
    BY <1>1, <2>2 DEF Streams
  <2> HIDE DEF r, s
  <2>4. z \in Takings /\ z.s = r /\ z.early = y.early
    BY <1>1, <2>1, <2>3 DEF Takings
  <2>5. Reached(r) = Reached(s) + Len(Text[id])
    <3>1. Len(Decode(s.run)) \in Nat
      BY <1>1, DecodeTyped
    <3>2. Reached(r) = s.end + (Len(Decode(s.run)) + Len(Text[id]))
      BY <2>2, <2>3, Zenon DEF Reached
    <3>3. s.end \in Nat /\ Len(Text[id]) \in Nat
      BY <1>1, <1>2
    <3>4. Reached(s) = s.end + Len(Decode(s.run))
      BY DEF Reached
    <3> DEFINE d == Len(Decode(s.run))
               m == Len(Text[id])
               k == s.end
    <3> HIDE DEF d, m, k
    <3>5. d \in Nat /\ m \in Nat /\ k \in Nat
      BY <3>1, <3>3 DEF d, m, k
    <3>6. k + (d + m) = (k + d) + m
      BY <3>5
    <3> QED
      BY <3>2, <3>4, <3>6 DEF d, m, k
  <2> QED
    BY <1>4, <2>3, <2>4, <2>5 DEF TakesId, s
<1>5. CASE ~y.early /\ id \in Added
  <2> DEFINE more == IF HasPipe(Text[id]) THEN s.spans \cup {[at |-> start, id |-> id]} ELSE s.spans
             r == [s EXCEPT !.run = <<>>, !.end = start + Len(Text[id]), !.spans = more]
  <2>1. z = [s |-> r, early |-> start < s.seen]
    BY <1>5 DEF TakeId
  <2>2. more \subseteq [at : Nat, id : Ids]
    BY <1>1, <1>2
  <2> HIDE DEF more
  <2>3. start + Len(Text[id]) \in Nat /\ <<>> \in Seq(Ids)
    BY <1>2, EmptySeq
  <2> HIDE DEF start
  <2>4. /\ r \in Streams /\ r.run = <<>> /\ r.end = start + Len(Text[id]) /\ r.seen = s.seen /\ r.active = s.active
    BY <1>1, <2>2, <2>3 DEF Streams
  <2> HIDE DEF r, s
  <2>5. z \in Takings /\ z.s = r
    BY <2>1, <2>4 DEF Takings
  <2>6. Reached(r) = start + Len(Text[id])
    <3>1. Decode(<<>>) = <<>> /\ Len(<<>>) = 0
      BY DecodeNone, EmptySeq
    <3> QED
      BY <1>2, <2>4, <3>1 DEF Reached
  <2>7. Reached(s) = start
    BY DEF Reached, start, s
  <2> QED
    BY <1>5, <2>4, <2>5, <2>6, <2>7 DEF TakesId, s
<1> QED
  BY <1>1, <1>3, <1>4, <1>5

\* A delta's ids are taken one by one.
LEMMA TakeIdsSteps ==
  ASSUME NEW s0 \in Streams, NEW q \in Seq(Ids)
  PROVE  \E g \in [0..Len(q) -> Takings] :
           /\ g[0] = [s |-> s0, early |-> FALSE] /\ g[Len(q)] = TakeIds(s0, q)
           /\ \A i \in 1..Len(q) : g[i] = TakeId(g[i - 1], q[i])
<1> DEFINE n == Len(q)
           A == Takings
           a == [s |-> s0, early |-> FALSE]
           Body(f, i) == IF i = 0 THEN a ELSE TakeId(f[i - 1], q[i])
           G == [i \in 1..n |-> [y \in A |-> TakeId(y, q[i])]]
           g == CHOOSE f : f = [i \in 0..n |-> Body(f, i)]
<1>1. n \in Nat /\ a \in A /\ \A i \in 1..n : q[i] \in Ids
  BY SeqFacts DEF Takings
<1>2. G \in [1..n -> [A -> A]]
  <2>1. ASSUME NEW i \in 1..n, NEW y \in A PROVE TakeId(y, q[i]) \in A
    BY <1>1, TakeIdFacts
  <2> QED
    BY <2>1
<1>3. PICK f \in [0..n -> A] : f[0] = a /\ \A i \in 1..n : f[i] = G[i][f[i - 1]]
  <2> HIDE DEF G, n, A, a
  <2>1. \E f \in [0..n -> A] : Iterates(f, n, a, G)
    BY <1>1, <1>2, Iterated
  <2> QED
    BY <2>1 DEF Iterates
<1>4. \A i \in 0..n : f[i] = Body(f, i)
  <2> TAKE i \in 0..n
  <2>1. CASE i = 0
    BY <1>3, <2>1
  <2>2. CASE i # 0
    <3>1. i \in 1..n /\ i - 1 \in 0..n
      BY <1>1, <2>2
    <3>2. f[i] = G[i][f[i - 1]] /\ f[i - 1] \in A
      BY <1>3, <3>1
    <3> QED
      BY <2>2, <3>1, <3>2
  <2> QED
    BY <2>1, <2>2
<1>5. TakeIds(s0, q) = g[n]
  BY Zenon DEF TakeIds, TakeId
<1> HIDE DEF G, Body, a
<1>6. g = [i \in 0..n |-> Body(g, i)]
  <2>1. f = [i \in 0..n |-> Body(f, i)]
    BY <1>4
  <2> QED
    BY <2>1
<1> HIDE DEF g
<1>7. g[0] = a /\ \A i \in 1..n : g[i] = TakeId(g[i - 1], q[i])
  <2>1. \A i \in 0..n : g[i] = Body(g, i)
    BY <1>6
  <2>2. 0 \in 0..n /\ \A i \in 1..n : i \in 0..n /\ i # 0
    BY <1>1
  <2>3. g[0] = a
    BY <2>1, <2>2 DEF Body
  <2>4. ASSUME NEW i \in 1..n PROVE g[i] = TakeId(g[i - 1], q[i])
    BY <2>1, <2>2, Zenon DEF Body
  <2> QED
    BY <2>3, <2>4
<1>8. \A i \in 0..n : i \in {j \in 0..n : g[j] \in A}
  <2> DEFINE P == {j \in 0..n : g[j] \in A}
  <2>1. 0 \in P
    <3>1. 0 \in 0..n
      BY <1>1
    <3> QED
      BY <1>1, <1>7, <3>1, Zenon
  <2>2. ASSUME NEW i \in 0..(n - 1), i \in P PROVE i + 1 \in P
    <3>1. i + 1 \in 1..n /\ (i + 1) - 1 = i /\ i + 1 \in 0..n
      BY <1>1
    <3>2. TakeId(g[i], q[i + 1]) \in A
      BY <1>1, <2>2, <3>1, TakeIdFacts
    <3> QED
      BY <1>7, <3>1, <3>2
  <2> HIDE DEF P, n
  <2>3. \A i \in 0..n : i \in P
    BY <1>1, <2>1, <2>2, Induction
  <2> QED
    BY <2>3 DEF P
<1>9. g \in [0..n -> A]
  BY <1>6, <1>8
<1> QED
  BY <1>5, <1>7, <1>9 DEF a

\* A stream that could place every id has counted the characters of all.
LEMMA TakeIdsFacts ==
  ASSUME NEW s0 \in Streams, NEW q \in Seq(Ids), NEW t, t = TakeIds(s0, q)
  PROVE  /\ t \in Takings /\ t.s.seen = s0.seen /\ (t.s.active <=> s0.active)
         /\ ~t.early => Reached(t.s) = Reached(s0) + Len(Decode(q))
<1> DEFINE n == Len(q)
<1>1. n \in Nat /\ \A i \in 1..n : q[i] \in Ids
  BY SeqFacts
<1>2. PICK g \in [0..n -> Takings] :
        /\ g[0] = [s |-> s0, early |-> FALSE] /\ g[n] = t
        /\ \A i \in 1..n : g[i] = TakeId(g[i - 1], q[i])
  BY TakeIdsSteps
<1>3. PICK d \in [0..n -> Seq(Alphabet)] : Decodes(d, q)
  BY DecodeSteps
<1>4. d[0] = <<>> /\ d[n] = Decode(q) /\ \A i \in 1..n : d[i] = d[i - 1] \o Text[q[i]]
  BY <1>3 DEF Decodes
<1> HIDE DEF n
<1>5. Reached(s0) \in Nat
  <2>1. s0.end \in Nat /\ s0.run \in Seq(Ids)
    BY DEF Streams
  <2>2. Len(Decode(s0.run)) \in Nat
    BY <2>1, DecodeTyped
  <2> QED
    BY <2>1, <2>2 DEF Reached
<1> DEFINE Q(y, i) == /\ y.s.seen = s0.seen /\ (y.s.active <=> s0.active)
                      /\ ~y.early => Reached(y.s) = Reached(s0) + Len(d[i])
<1>6. \A i \in 0..n : i \in {j \in 0..n : Q(g[j], j)}
  <2> DEFINE P == {j \in 0..n : Q(g[j], j)}
  <2>1. 0 \in P
    <3>1. g[0].s = s0 /\ Len(d[0]) = 0
      BY <1>2, <1>4, EmptySeq
    <3>2. Reached(s0) = Reached(s0) + 0
      BY <1>5
    <3>3. Q(g[0], 0)
      BY <3>1, <3>2
    <3> HIDE DEF Q
    <3> QED
      BY <1>1, <3>3
  <2>2. ASSUME NEW i \in 0..(n - 1), i \in P PROVE i + 1 \in P
    <3> DEFINE k == i + 1
               y == g[i]
               z == g[k]
               m == Len(Text[q[k]])
    <3>1. k \in 1..n /\ k - 1 = i /\ k \in 0..n /\ i \in 0..n
      BY <1>1
    <3>2. z = TakeId(y, q[k]) /\ y \in Takings /\ q[k] \in Ids
      BY <1>1, <1>2, <3>1
    <3>3. Q(y, i)
      BY <2>2
    <3>4. Len(d[k]) = Len(d[i]) + m /\ Len(d[i]) \in Nat /\ m \in Nat
      <4>1. d[k] = d[i] \o Text[q[k]] /\ d[i] \in Seq(Alphabet)
        BY <1>3, <1>4, <3>1
      <4>2. Text[q[k]] \in Seq(Alphabet)
        BY <3>2, Decoded
      <4> QED
        BY <4>1, <4>2, Joined
    <3> HIDE DEF y, z, k, m
    <3>5. TakesId(y, q[k], z)
      BY <3>2, TakeIdFacts, Zenon
    <3>6. z.s.seen = s0.seen /\ (z.s.active <=> s0.active)
      BY <3>3, <3>5 DEF TakesId
    <3>7. ASSUME ~z.early PROVE Reached(z.s) = Reached(s0) + Len(d[k])
      <4>1. Reached(z.s) = Reached(y.s) + m /\ Reached(y.s) = Reached(s0) + Len(d[i])
        BY <3>3, <3>5, <3>7 DEF TakesId, m
      <4> DEFINE a == Reached(s0)
                 b == Len(d[i])
      <4> HIDE DEF a, b
      <4>2. a \in Nat /\ b \in Nat /\ m \in Nat
        BY <1>5, <3>4 DEF a, b
      <4>3. (a + b) + m = a + (b + m)
        BY <4>2
      <4> QED
        BY <3>4, <4>1, <4>3 DEF a, b
    <3>8. Q(z, k)
      BY <3>6, <3>7
    <3> HIDE DEF Q
    <3> QED
      BY <3>1, <3>8 DEF z, k
  <2> HIDE DEF P
  <2>3. \A i \in 0..n : i \in P
    BY <1>1, <2>1, <2>2, Induction
  <2> QED
    BY <2>3 DEF P
<1>7. n \in 0..n
  BY <1>1
<1>8. Q(g[n], n)
  BY <1>6, <1>7
<1> QED
  BY <1>2, <1>4, <1>7, <1>8

\* A delta is passed on whole, and a stream that goes on has counted it.
LEMMA HideFacts ==
  ASSUME NEW s0 \in Streams, NEW d \in Seq(Alphabet), NEW q \in Seq(Ids), NEW h, h = HideDelta(s0, d, q)
  PROVE  /\ h.stream \in Streams /\ h.stream.seen = s0.seen + Len(d)
         /\ h.text \in Seq(Alphabet \cup {Hide}) /\ Len(h.text) = Len(d) /\ h.asIs \in BOOLEAN
         /\ h.stream.active => s0.active /\ Reached(h.stream) = Reached(s0) + Len(Decode(q))
<1> DEFINE t == TakeIds(s0, q)
           from == s0.seen
           upto == s0.seen + Len(d)
           s == [t.s EXCEPT !.seen = upto]
           real == RealPlaces(s.spans, from, upto)
           fake == {i \in DOMAIN d : d[i] = Pipe /\ i \notin real}
           kept == [s EXCEPT !.spans = StillDue(s.spans, upto)]
           some == [kept EXCEPT !.hidden = kept.hidden \/ fake # {}]
           masked == [i \in DOMAIN d |-> IF i \in fake THEN Hide ELSE d[i]]
<1>1. h = IF ~s0.active \/ t.early \/ OutOfPlace(s.spans, from, d)
          THEN [stream |-> Stopped(s), text |-> d, asIs |-> TRUE]
          ELSE IF Held(s.spans, upto) THEN [stream |-> kept, text |-> d, asIs |-> TRUE]
          ELSE [stream |-> some, text |-> masked, asIs |-> FALSE]
  BY DEF HideDelta
<1>2. /\ t \in Takings /\ t.s.seen = s0.seen /\ (t.s.active <=> s0.active)
      /\ ~t.early => Reached(t.s) = Reached(s0) + Len(Decode(q))
  BY TakeIdsFacts
<1>3. upto \in Nat /\ Len(d) \in Nat /\ DOMAIN d = 1..Len(d) /\ \A i \in 1..Len(d) : d[i] \in Alphabet
  <2>1. s0.seen \in Nat
    BY DEF Streams
  <2> QED
    BY <2>1, SeqFacts
<1>4. d \in Seq(Alphabet \cup {Hide})
  BY SeqMonotonic
<1>5. masked \in Seq(Alphabet \cup {Hide}) /\ Len(masked) = Len(d)
  <2> HIDE DEF fake
  <2>1. masked \in [1..Len(d) -> Alphabet \cup {Hide}]
    BY <1>3
  <2> HIDE DEF masked
  <2> QED
    BY <1>3, <2>1, FunSeq, Zenon
<1> HIDE DEF t, upto, fake, real, masked
<1>6. t.s \in Streams /\ t.early \in BOOLEAN
  BY <1>2 DEF Takings
<1>7. s \in Streams /\ s.seen = upto /\ s.end = t.s.end /\ s.run = t.s.run /\ s.active = t.s.active
  BY <1>3, <1>6 DEF Streams
<1> HIDE DEF s
<1>8. StillDue(s.spans, upto) \subseteq s.spans /\ s.spans \subseteq [at : Nat, id : Ids]
  BY <1>7 DEF StillDue, Streams
<1>9. /\ kept \in Streams /\ kept.seen = upto /\ kept.end = s.end /\ kept.run = s.run /\ kept.active = s.active
  BY <1>7, <1>8 DEF Streams
<1> HIDE DEF kept
<1>10. /\ some \in Streams /\ some.seen = upto /\ some.end = s.end /\ some.run = s.run /\ some.active = s.active
  <2>1. (kept.hidden \/ fake # {}) \in BOOLEAN
    OBVIOUS
  <2> QED
    BY <1>9, <2>1 DEF Streams
<1> HIDE DEF some
<1>11. /\ Stopped(s) \in Streams /\ Stopped(s).seen = upto /\ ~Stopped(s).active
  <2>1. <<>> \in Seq(Ids)
    BY EmptySeq
  <2> QED
    BY <1>7, <2>1 DEF Stopped, Streams
<1>12. Reached(kept) = Reached(t.s) /\ Reached(some) = Reached(t.s)
  BY <1>7, <1>9, <1>10, Zenon DEF Reached
<1>13. CASE ~s0.active \/ t.early \/ OutOfPlace(s.spans, from, d)
  <2>1. h = [stream |-> Stopped(s), text |-> d, asIs |-> TRUE]
    BY <1>1, <1>13
  <2>2. h.stream = Stopped(s) /\ h.text = d /\ h.asIs = TRUE
    BY <2>1
  <2> QED
    BY <1>4, <1>11, <2>2 DEF upto
<1>14. CASE ~(~s0.active \/ t.early \/ OutOfPlace(s.spans, from, d)) /\ Held(s.spans, upto)
  <2>1. h = [stream |-> kept, text |-> d, asIs |-> TRUE]
    BY <1>1, <1>14
  <2>2. h.stream = kept /\ h.text = d /\ h.asIs = TRUE
    BY <2>1
  <2>3. ~t.early /\ s0.active
    BY <1>14
  <2> QED
    BY <1>2, <1>4, <1>9, <1>12, <2>2, <2>3 DEF upto
<1>15. CASE ~(~s0.active \/ t.early \/ OutOfPlace(s.spans, from, d)) /\ ~Held(s.spans, upto)
  <2>1. h = [stream |-> some, text |-> masked, asIs |-> FALSE]
    BY <1>1, <1>15
  <2>2. h.stream = some /\ h.text = masked /\ h.asIs = FALSE
    BY <2>1
  <2>3. ~t.early /\ s0.active
    BY <1>15
  <2> QED
    BY <1>2, <1>5, <1>10, <1>12, <2>2, <2>3 DEF upto
<1> QED
  BY <1>13, <1>14, <1>15

\* What the client gets of a delta is as long as the delta.
LEMMA UnhideFacts ==
  ASSUME NEW s, NEW x \in Seq(Alphabet \cup {Hide})
  PROVE  Unhide(s, x) \in Seq(Alphabet \cup {Hide, Pipe}) /\ Len(Unhide(s, x)) = Len(x)
<1> DEFINE more == [i \in DOMAIN x |-> IF x[i] = Hide THEN Pipe ELSE x[i]]
<1>1. Len(x) \in Nat /\ DOMAIN x = 1..Len(x) /\ \A i \in 1..Len(x) : x[i] \in Alphabet \cup {Hide}
  BY SeqFacts
<1>2. more \in [1..Len(x) -> Alphabet \cup {Hide, Pipe}]
  BY <1>1
<1> HIDE DEF more
<1>3. more \in Seq(Alphabet \cup {Hide, Pipe}) /\ Len(more) = Len(x)
  BY <1>1, <1>2, FunSeq, Zenon
<1>4. x \in Seq(Alphabet \cup {Hide, Pipe})
  <2>1. Alphabet \cup {Hide} \subseteq Alphabet \cup {Hide, Pipe}
    OBVIOUS
  <2> QED
    BY <2>1, SeqMonotonic
<1>5. Unhide(s, x) = IF s.hidden THEN more ELSE x
  BY DEF Unhide, more
<1> QED
  BY <1>3, <1>4, <1>5

\* What was said, without the stop token.
SaidOf(s) == IF s # <<>> /\ Last(s) = Eos /\ ~scenario.ignoreEos THEN Front(s) ELSE s

\* A chunk adds what it says to what was said.
LEMMA SaidGrows ==
  ASSUME NEW a \in Seq(Ids), NEW b \in Seq(Ids), b # <<>>
  PROVE  Said1(b) \in Seq(Ids) /\ SaidOf(a \o b) = a \o Said1(b)
<1> DEFINE s == a \o b
           l == Len(a)
           m == Len(b)
<1>1. /\ s \in Seq(Ids) /\ Len(s) = l + m /\ l \in Nat /\ m \in Nat
      /\ \A i \in 1..m : s[l + i] = b[i]
  BY Joined
<1>2. m # 0
  BY SeqFacts
<1>3. Last(s) = Last(b)
  <2>1. s[l + m] = b[m]
    BY <1>1, <1>2
  <2> QED
    BY <1>1, <2>1 DEF Last
<1>4. s # <<>>
  BY <1>1, <1>2, SeqFacts
<1>5. Front(b) \in Seq(Ids)
  <2>1. m - 1 \in 0..Len(b)
    BY <1>1, <1>2
  <2>2. SubSeq(b, 1, m - 1) \in Seq(Ids)
    BY <2>1, CutInTwo
  <2> QED
    BY <2>2 DEF Front
<1>6. Front(s) = a \o Front(b)
  <2>1. m - 1 \in 0..Len(b) /\ l + (m - 1) \in 0..Len(s)
    BY <1>1, <1>2
  <2> DEFINE k == m - 1
             f == SubSeq(s, 1, l + k)
             g == a \o SubSeq(b, 1, k)
  <2>2. k \in Nat /\ l + k = Len(s) - 1
    BY <1>1, <1>2
  <2>3. f \in Seq(Ids) /\ Len(f) = l + k /\ \A i \in 1..(l + k) : f[i] = s[i]
    <3>1. f \in Seq(Ids) /\ Len(f) = l + k
      BY <1>1, <2>1, CutInTwo
    <3>2. \A i \in 1..(l + k) : s[i] \in Ids
      BY <1>1, <2>1, SeqFacts
    <3>3. 1 \in Int /\ l + k \in Int
      BY <1>1, <2>2
    <3>4. \A i \in 1..((l + k) - 1 + 1) : SubSeq(s, 1, l + k)[i] = s[1 + i - 1]
      BY <3>2, <3>3, SubSeqProperties
    <3>5. ASSUME NEW i \in 1..(l + k) PROVE f[i] = s[i]
      <4>1. i \in 1..((l + k) - 1 + 1) /\ 1 + i - 1 = i
        BY <3>3
      <4> QED
        BY <3>4, <4>1
    <3> QED
      BY <3>1, <3>5
  <2>4. SubSeq(b, 1, k) \in Seq(Ids) /\ Len(SubSeq(b, 1, k)) = k /\ \A i \in 1..k : SubSeq(b, 1, k)[i] = b[i]
    <3>1. SubSeq(b, 1, k) \in Seq(Ids) /\ Len(SubSeq(b, 1, k)) = k
      BY <1>1, <2>1, CutInTwo
    <3>2. \A i \in 1..k : b[i] \in Ids
      BY <1>1, <2>1, SeqFacts
    <3>3. \A i \in 1..(k - 1 + 1) : SubSeq(b, 1, k)[i] = b[1 + i - 1]
      BY <2>2, <3>2, SubSeqProperties
    <3>4. ASSUME NEW i \in 1..k PROVE SubSeq(b, 1, k)[i] = b[i]
      <4>1. i \in 1..(k - 1 + 1) /\ 1 + i - 1 = i
        BY <2>2
      <4> QED
        BY <3>3, <4>1
    <3> QED
      BY <3>1, <3>4
  <2> HIDE DEF f
  <2>5. /\ g \in Seq(Ids) /\ Len(g) = l + k
        /\ \A i \in 1..l : g[i] = a[i]
        /\ \A i \in 1..k : g[l + i] = SubSeq(b, 1, k)[i]
    BY <2>4, Joined
  <2> HIDE DEF g
  <2>6. \A i \in 1..l : s[i] = a[i]
    BY Joined
  <2> HIDE DEF s, k
  <2>7. ASSUME NEW i \in 1..(l + k) PROVE f[i] = g[i]
    <3>1. CASE i <= l
      BY <1>1, <2>3, <2>5, <2>6, <3>1
    <3>2. CASE i > l
      <4>1. i - l \in 1..k /\ l + (i - l) = i /\ i - l \in 1..m
        BY <1>1, <2>1, <2>2, <3>2 DEF k
      <4>2. f[i] = s[l + (i - l)]
        BY <2>3, <4>1
      <4>3. s[l + (i - l)] = b[i - l]
        BY <1>1, <4>1
      <4>4. g[l + (i - l)] = b[i - l]
        BY <2>4, <2>5, <4>1
      <4> QED
        BY <4>1, <4>2, <4>3, <4>4
    <3> QED
      BY <1>1, <2>2, <3>1, <3>2
  <2>8. f = g
    BY <2>3, <2>5, <2>7, SeqEqual
  <2>9. Front(s) = f /\ a \o Front(b) = g
    BY <2>2, Zenon DEF Front, f, g, k
  <2> QED
    BY <2>8, <2>9
<1> QED
  BY <1>3, <1>4, <1>5, <1>6 DEF SaidOf, Said1, StopsAtEos

\* What a chunk makes of the text, and what is found in it.
LEMMA NewTextFacts ==
  ASSUME TextFacts, StopRight, place # "finished", NEW tokens \in Seq(scenario.ids), tokens # <<>>,
         NEW v, v = NewText(tokens), NEW c, c = Find(Text[ThinkEnd], v, 1)
  PROVE  /\ tokens \in Seq(Ids) /\ ids \in Seq(Ids) /\ text \in Seq(Alphabet) /\ text = Decode(ids)
         /\ v = Decode(SaidOf(ids \o tokens)) /\ v \in Seq(Alphabet) /\ Len(v) >= Len(text)
         /\ CloseRight(v, Len(text), c, CheckFrom(v, Len(text)))
         /\ StopsAt(v, Len(text), c, StopIn(tokens))
<1>1. scenario \in Scenarios /\ ids \in Seq(scenario.ids) /\ guard \in BOOLEAN /\ closed \in BOOLEAN
  BY DEF TextFacts
<1>2. tokens \in Seq(Ids) /\ ids \in Seq(Ids)
  BY <1>1, ScenarioFacts
<1>3. Said = ids /\ cut = 0 /\ (guard => (closed <=> Closing > 0)) /\ text = Whole0
  BY DEF TextFacts
<1>4. text = Decode(ids) /\ Whole0 = text
  BY <1>3 DEF Whole0
<1>5. text \in Seq(Alphabet)
  BY <1>2, <1>4, DecodeTyped
<1> DEFINE u == Decode(Said1(tokens))
<1>6. Said1(tokens) \in Seq(Ids) /\ SaidOf(ids \o tokens) = ids \o Said1(tokens)
  BY <1>2, SaidGrows
<1>7. u \in Seq(Alphabet) /\ v = text \o u /\ Decode(ids \o Said1(tokens)) = Decode(ids) \o u
  BY <1>2, <1>6, DecodeTyped, DecodeConcat DEF NewText
<1> HIDE DEF u
<1>8. v \in Seq(Alphabet) /\ Len(v) >= Len(text)
  BY <1>5, <1>7, Joined
<1>9. guard => (closed <=> Find(Text[ThinkEnd], text, 1) > 0)
  BY <1>3, <1>4 DEF Closing
<1>10. scenario.stop # <<>> =>
           \/ guard /\ Find(Text[ThinkEnd], text, 1) = 0
           \/ Find(scenario.stop, text, IF ~guard THEN 1
                   ELSE Find(Text[ThinkEnd], text, 1) + Len(Text[ThinkEnd])) = 0
  BY <1>3, <1>4, Zenon DEF StopRight, StopNotMissed, Closing
<1>11. CloseRight(v, Len(text), c, CheckFrom(v, Len(text)))
  BY <1>1, <1>5, <1>7, <1>9, CloseFacts, Zenon
<1>12. StopIn(tokens) = StopAt(v, CheckFrom(v, Len(text)))
  BY DEF StopIn
<1>13. StopsAt(v, Len(text), c, StopIn(tokens))
  BY <1>1, <1>5, <1>7, <1>9, <1>10, <1>12, StopFacts, Zenon
<1> QED
  BY <1>2, <1>4, <1>5, <1>6, <1>7, <1>8, <1>11, <1>13

\* A request begins with no text.
LEMMA TextInit == RequestInit => TextFacts /\ StopRight
<1> SUFFICES ASSUME RequestInit PROVE TextFacts /\ StopRight
  OBVIOUS
<1> USE DEF RequestInit
<1>1. /\ scenario \in Scenarios /\ ids = <<>> /\ text = <<>> /\ cut = 0 /\ closed = FALSE
      /\ guard = Armed(scenario.stop, prompt)
  OBVIOUS
<1>2. <<>> \in Seq(scenario.ids) /\ Len(<<>>) = 0
  BY EmptySeq
<1>3. Said = <<>> /\ Whole0 = <<>>
  BY DecodeNone DEF Said, Whole0
<1>4. ASSUME NEW w PROVE Find(w, <<>>, 1) = 0
  <2>1. Len(<<>>) \in Nat /\ 1 \in Nat \ {0} /\ 1..Len(<<>>) = {}
    BY <1>2
  <2>2. \A i \in 1..Len(<<>>) : ~At(w, <<>>, i)
    BY <2>1, Zenon
  <2> QED
    BY <2>1, <2>2, FindFacts
<1>5. Closing = 0
  BY <1>3, <1>4 DEF Closing
<1>6. guard \in BOOLEAN
  BY <1>1 DEF Armed
<1>7. TextFacts
  <2> HIDE DEF RequestInit
  <2>1. ids \in Seq(scenario.ids) /\ {guard, closed} \subseteq BOOLEAN
    BY <1>1, <1>2, <1>6
  <2>2. Said = ids /\ (guard => (closed <=> Closing > 0)) /\ text = Whole0
    BY <1>1, <1>3, <1>5
  <2> QED
    BY <1>1, <2>1, <2>2, Zenon DEF TextFacts
<1>8. StopDormant
  BY <1>1 DEF StopDormant
<1>9. StopNotMissed
  <2>1. Find(scenario.stop, Whole0, 1) = 0
    BY <1>3, <1>4
  <2> QED
    BY <1>5, <1>6, <2>1 DEF StopNotMissed
<1> QED
  BY <1>7, <1>8, <1>9 DEF StopRight

\* Steps that leave the text leave what is known of it.
LEMMA TextKept ==
  ASSUME TextFacts, StopRight,
         scenario' = scenario, ids' = ids, text' = text, cut' = cut, guard' = guard, closed' = closed,
         place' # "finished" => place # "finished"
  PROVE  TextFacts' /\ StopRight'
<1>1. Said' = Said
  BY DEF Said
<1>2. Whole0' = Whole0
  BY <1>1 DEF Whole0
<1>3. Closing' = Closing
  BY <1>2 DEF Closing
<1>4. TextFacts'
  BY <1>1, <1>2, <1>3 DEF TextFacts
<1>5. StopDormant'
  BY <1>3 DEF StopRight, StopDormant
<1>6. StopNotMissed'
  BY <1>2, <1>3 DEF StopRight, StopNotMissed
<1> QED
  BY <1>4, <1>5, <1>6 DEF StopRight

\* A sampled chunk keeps it: the text grows to all that was said, or is cut there.
LEMMA TextSample ==
  ASSUME TextFacts, StopRight, Sample
  PROVE  TextFacts' /\ StopRight'
<1>1. place = "sample" /\ scenario' = scenario /\ guard' = guard
  BY DEF Sample
<1>2. scenario \in Scenarios /\ ids \in Seq(scenario.ids) /\ guard \in BOOLEAN /\ closed \in BOOLEAN
      /\ scenario.chunk \in Nat
  BY ScenarioFacts DEF TextFacts
<1>3. PICK tokens \in Sequences(scenario.ids, scenario.chunk) :
        /\ tokens # <<>>
        /\ ids' = ids \o tokens /\ text' = OutText(tokens) /\ cut' = StopIn(tokens)
        /\ closed' = (closed \/ (guard /\ CloseAt(NewText(tokens), Len(text)) > 0))
        /\ place' = IF Finishes(tokens) THEN "finished" ELSE "draft"
  BY SampleFacts
<1>4. tokens \in Seq(scenario.ids)
  BY <1>2, SequencesFacts
<1> DEFINE v == NewText(tokens)
           c == Find(Text[ThinkEnd], v, 1)
           st == StopIn(tokens)
           o == Len(text)
           f == CheckFrom(v, o)
<1>5. /\ tokens \in Seq(Ids) /\ ids \in Seq(Ids)
      /\ v = Decode(SaidOf(ids \o tokens)) /\ v \in Seq(Alphabet)
      /\ CloseRight(v, o, c, f) /\ StopsAt(v, o, c, st)
  BY <1>1, <1>3, <1>4, NewTextFacts, Zenon
<1>6. Said' = SaidOf(ids \o tokens)
  BY <1>1, <1>3 DEF Said, SaidOf
<1>7. Whole0' = v
  BY <1>5, <1>6 DEF Whole0
<1>8. Closing' = c
  BY <1>7 DEF Closing
<1>9. ids' \in Seq(scenario.ids)
  BY <1>2, <1>3, <1>4, ConcatProperties
<1>10. text' = IF st > 0 THEN SubSeq(v, 1, st - 1) ELSE v
  BY <1>3 DEF OutText
<1> HIDE DEF v, c, st, o, f
<1>11. /\ c \in Nat
       /\ guard /\ ~closed => CloseAt(v, o) = c
       /\ guard /\ closed => c # 0
  BY <1>5 DEF CloseRight
<1>12. /\ st \in Nat
       /\ st # 0 => st \in 1..Len(v)
       /\ guard /\ st # 0 => c # 0 /\ st + Len(scenario.stop) > c + Len(Text[ThinkEnd])
       /\ scenario.stop # <<>> /\ st = 0 =>
            \/ guard /\ c = 0
            \/ Find(scenario.stop, v, IF ~guard THEN 1 ELSE c + Len(Text[ThinkEnd])) = 0
  BY <1>5 DEF StopsAt
<1>13. closed' \in BOOLEAN /\ (guard => (closed' <=> c > 0))
  <2>1. closed' = (closed \/ (guard /\ CloseAt(v, o) > 0))
    BY <1>3 DEF v, o
  <2> QED
    BY <1>2, <1>11, <2>1
<1>14. place' # "finished" => Said' = ids' /\ cut' = 0
  <2> SUFFICES ASSUME place' # "finished" PROVE Said' = ids' /\ cut' = 0
    OBVIOUS
  <2>1. ~StopsAtEos(tokens) /\ ~(StopIn(tokens) > 0)
    BY <1>3 DEF Finishes
  <2>2. SaidOf(ids \o tokens) = ids \o tokens
    <3>1. Said1(tokens) = tokens
      BY <2>1 DEF Said1
    <3> QED
      BY <1>3, <1>5, <3>1, SaidGrows
  <2> QED
    BY <1>3, <1>6, <1>12, <2>1, <2>2 DEF st
<1>15. cut' = st
  BY <1>3 DEF st
<1>16. TextFacts'
  <2>1. IF cut' = 0 THEN text' = Whole0'
        ELSE cut' \in 1..Len(Whole0') /\ text' = SubSeq(Whole0', 1, cut' - 1)
    <3>1. CASE st = 0
      BY <1>7, <1>10, <1>15, <3>1
    <3>2. CASE st # 0
      <4>1. st > 0
        BY <1>12, <3>2
      <4> QED
        BY <1>7, <1>10, <1>12, <1>15, <3>2, <4>1
    <3> QED
      BY <3>1, <3>2
  <2>2. scenario' \in Scenarios /\ ids' \in Seq(scenario'.ids) /\ {guard', closed'} \subseteq BOOLEAN
    BY <1>1, <1>2, <1>9, <1>13
  <2>3. guard' => (closed' <=> Closing' > 0)
    BY <1>1, <1>8, <1>13
  <2> QED
    BY <1>14, <2>1, <2>2, <2>3 DEF TextFacts
<1>17. StopDormant'
  BY <1>1, <1>8, <1>11, <1>12, <1>15 DEF StopDormant
<1>18. StopNotMissed'
  <2> SUFFICES ASSUME scenario.stop # <<>>, st = 0
               PROVE  (guard /\ c = 0) \/ Find(scenario.stop, v, IF ~guard THEN 1 ELSE c + Len(Text[ThinkEnd])) = 0
    BY <1>1, <1>7, <1>8, <1>15 DEF StopNotMissed
  <2> QED
    BY <1>12
<1> QED
  BY <1>16, <1>17, <1>18 DEF StopRight

\* A request begins with nothing streamed.
LEMMA SentInit == RequestInit => SentFacts
<1> SUFFICES ASSUME RequestInit PROVE SentFacts
  OBVIOUS
<1>1. /\ ids = <<>> /\ text = <<>> /\ sent = 0 /\ fed = <<>> /\ shown = <<>> /\ asIs = FALSE
      /\ stream = NewStream
  BY DEF RequestInit
<1>2. <<>> \in Seq(Ids) /\ Len(<<>>) = 0 /\ Decode(<<>>) = <<>>
      /\ <<>> \in Seq(Alphabet \cup {Hide}) /\ <<>> \in Seq(Alphabet \cup {Hide, Pipe})
  BY EmptySeq, DecodeNone
<1>3. stream \in Streams /\ stream.seen = 0 /\ stream.end = 0 /\ stream.run = <<>>
  BY <1>1, <1>2 DEF NewStream, Streams
<1>4. stream.end + Len(Decode(stream.run)) = Len(Decode(ids))
  BY <1>1, <1>2, <1>3
<1>5. sent \in Nat /\ sent <= Len(text) /\ asIs \in BOOLEAN
  <2>1. Len(text) = 0
    BY <1>1, <1>2
  <2>2. sent = 0 /\ asIs \in BOOLEAN
    BY <1>1
  <2> QED
    BY <2>1, <2>2
<1>6. fed \in Seq(Alphabet \cup {Hide}) /\ shown \in Seq(Alphabet \cup {Hide, Pipe})
      /\ Len(fed) = sent /\ Len(shown) = sent
  BY <1>1, <1>2
<1>7. sent = 0 /\ stream.seen = sent
  BY <1>1, <1>3
<1> QED
  BY <1>3, <1>4, <1>5, <1>6, <1>7, Zenon DEF SentFacts

\* Steps that leave the output leave what is known of the stream.
LEMMA SentKept ==
  ASSUME SentFacts, UNCHANGED output, scenario' = scenario, place' # "finished" => place # "finished"
  PROVE  SentFacts'
<1>1. /\ ids' = ids /\ text' = text /\ sent' = sent /\ fed' = fed /\ shown' = shown /\ asIs' = asIs
      /\ stream' = stream
  BY DEF output
<1>2. Buffer' = Buffer
  BY DEF Buffer
<1> QED
  BY <1>1, <1>2 DEF SentFacts

\* How far a chunk's delta reaches.
LEMMA UptoFacts ==
  ASSUME TextFacts, StopRight, SentFacts, place # "finished", NEW tokens \in Seq(scenario.ids), tokens # <<>>,
         NEW out, out = OutText(tokens), NEW upto, upto = Upto(tokens)
  PROVE  /\ out \in Seq(Alphabet) /\ upto \in Nat /\ sent <= upto /\ upto <= Len(out)
         /\ ~Finishes(tokens) => upto = 0 \/ upto <= Len(out) - Buffer
<1> DEFINE v == NewText(tokens)
           c == Find(Text[ThinkEnd], v, 1)
           st == StopIn(tokens)
           o == Len(text)
           l == Len(scenario.stop)
<1>1. /\ v \in Seq(Alphabet) /\ text \in Seq(Alphabet) /\ Len(v) >= o /\ StopsAt(v, o, c, st)
  BY NewTextFacts, Zenon
<1>2. sent \in Nat /\ sent <= o /\ (sent = 0 \/ sent <= o - Buffer)
  BY DEF SentFacts
<1>3. l \in Nat /\ (scenario.stop # <<>> => l # 0)
  BY Marks DEF TextFacts
<1>4. Buffer = IF scenario.stop = <<>> THEN 0 ELSE l - 1
  BY DEF Buffer
<1>5. Buffer \in Nat
  BY <1>3, <1>4
<1>6. out = IF st > 0 THEN SubSeq(v, 1, st - 1) ELSE v
  BY DEF OutText
<1>7. upto = IF Finishes(tokens) THEN Len(out) ELSE Later(sent, Len(out) - Buffer)
  BY DEF Upto
<1>8. o \in Nat /\ Len(v) \in Nat
  BY <1>1, SeqFacts
<1> HIDE DEF v, c, st, o, l
<1>9. /\ st \in Nat
      /\ st # 0 => scenario.stop # <<>> /\ st \in 1..Len(v) /\ st + l >= o + 2
  BY <1>1 DEF StopsAt, l
<1>10. CASE st # 0
  <2>1. st > 0
    BY <1>9, <1>10
  <2>2. st - 1 \in 0..Len(v)
    BY <1>8, <1>9, <1>10
  <2>3. out \in Seq(Alphabet) /\ Len(out) = st - 1
    BY <1>1, <1>6, <2>1, <2>2, CutInTwo
  <2>4. Finishes(tokens)
    BY <2>1 DEF Finishes, st
  <2>5. upto = st - 1
    BY <1>7, <2>3, <2>4
  <2>6. sent <= st - 1
    <3>1. st - 1 >= o - (l - 1) /\ Buffer = l - 1
      BY <1>3, <1>4, <1>8, <1>9, <1>10
    <3> QED
      BY <1>2, <1>3, <1>8, <1>9, <1>10, <3>1
  <2> QED
    BY <1>9, <1>10, <2>3, <2>4, <2>5, <2>6
<1>11. CASE st = 0
  <2>1. out = v
    BY <1>6, <1>11
  <2>2. CASE Finishes(tokens)
    <3>1. upto = Len(v)
      BY <1>7, <2>1, <2>2
    <3> QED
      BY <1>1, <1>2, <1>8, <2>1, <2>2, <3>1
  <2>3. CASE ~Finishes(tokens)
    <3>1. upto = Later(sent, Len(v) - Buffer)
      BY <1>7, <2>1, <2>3
    <3>2. Len(v) >= o
      BY <1>1 DEF o
    <3>3. CASE sent < Len(v) - Buffer
      <4>1. upto = Len(v) - Buffer
        BY <3>1, <3>3 DEF Later
      <4> QED
        BY <1>1, <1>2, <1>5, <1>8, <2>1, <3>3, <4>1
    <3>4. CASE ~(sent < Len(v) - Buffer)
      <4>1. upto = sent
        BY <3>1, <3>4 DEF Later
      <4> QED
        BY <1>1, <1>2, <1>5, <1>8, <2>1, <3>2, <3>4, <4>1
    <3> QED
      BY <3>3, <3>4
  <2> QED
    BY <2>2, <2>3
<1> QED
  BY <1>10, <1>11

\* A sampled chunk keeps it: the delta is passed on whole.
LEMMA SentSample ==
  ASSUME TextFacts, StopRight, SentFacts, Sample
  PROVE  SentFacts'
<1>1. place = "sample" /\ scenario' = scenario
  BY DEF Sample
<1>2. scenario \in Scenarios /\ scenario.chunk \in Nat /\ ids \in Seq(scenario.ids)
  BY ScenarioFacts DEF TextFacts
<1>3. PICK tokens \in Sequences(scenario.ids, scenario.chunk) :
        /\ tokens # <<>>
        /\ ids' = ids \o tokens /\ text' = OutText(tokens)
        /\ stream' = Hiding(tokens).stream /\ sent' = Upto(tokens)
        /\ fed' = fed \o Hiding(tokens).text
        /\ shown' = shown \o Unhide(Hiding(tokens).stream, Hiding(tokens).text)
        /\ asIs' = (asIs \/ Hiding(tokens).asIs)
        /\ place' = IF Finishes(tokens) THEN "finished" ELSE "draft"
  BY SampleFacts
<1>4. tokens \in Seq(scenario.ids)
  BY <1>2, SequencesFacts
<1>5. tokens \in Seq(Ids) /\ ids \in Seq(Ids)
  BY <1>2, <1>4, ScenarioFacts
<1> DEFINE out == OutText(tokens)
           upto == Upto(tokens)
           d == SubSeq(out, sent + 1, upto)
           h == Hiding(tokens)
<1>6. /\ out \in Seq(Alphabet) /\ upto \in Nat /\ sent <= upto /\ upto <= Len(out)
      /\ ~Finishes(tokens) => upto = 0 \/ upto <= Len(out) - Buffer
  BY <1>1, <1>3, <1>4, UptoFacts, Zenon
<1>7. h = HideDelta(stream, d, tokens)
  BY DEF Hiding
<1> HIDE DEF out, upto, h
<1>8. sent \in Nat /\ stream \in Streams /\ stream.seen = sent /\ asIs \in BOOLEAN
      /\ fed \in Seq(Alphabet \cup {Hide}) /\ shown \in Seq(Alphabet \cup {Hide, Pipe})
      /\ Len(fed) = sent /\ Len(shown) = sent
  BY DEF SentFacts
<1>9. d \in Seq(Alphabet) /\ Len(d) = upto - sent
  <2>1. \A i \in (sent + 1)..upto : out[i] \in Alphabet
    <3>1. Len(out) \in Nat /\ \A i \in 1..Len(out) : out[i] \in Alphabet
      BY <1>6, SeqFacts
    <3> QED
      BY <1>6, <1>8, <3>1
  <2>2. sent + 1 \in Int /\ upto \in Int
    BY <1>6, <1>8
  <2>3. d \in Seq(Alphabet) /\ Len(d) = (IF sent + 1 <= upto THEN upto - (sent + 1) + 1 ELSE 0)
    BY <2>1, <2>2, SubSeqProperties
  <2> QED
    BY <1>6, <1>8, <2>3
<1> HIDE DEF d
<1>10. /\ h.stream \in Streams /\ h.stream.seen = stream.seen + Len(d)
       /\ h.text \in Seq(Alphabet \cup {Hide}) /\ Len(h.text) = Len(d) /\ h.asIs \in BOOLEAN
       /\ h.stream.active => stream.active /\ Reached(h.stream) = Reached(stream) + Len(Decode(tokens))
  BY <1>5, <1>7, <1>8, <1>9, HideFacts
<1> DEFINE un == Unhide(h.stream, h.text)
<1>11. un \in Seq(Alphabet \cup {Hide, Pipe}) /\ Len(un) = Len(d)
  BY <1>10, UnhideFacts
<1> HIDE DEF un
<1>12. /\ stream' = h.stream /\ sent' = upto /\ fed' = fed \o h.text /\ shown' = shown \o un
       /\ asIs' = (asIs \/ h.asIs) /\ text' = out
  BY <1>3 DEF h, un, upto, out
<1>13. /\ fed' \in Seq(Alphabet \cup {Hide}) /\ Len(fed') = Len(fed) + Len(h.text)
       /\ shown' \in Seq(Alphabet \cup {Hide, Pipe}) /\ Len(shown') = Len(shown) + Len(un)
  <2>1. fed \o h.text \in Seq(Alphabet \cup {Hide}) /\ Len(fed \o h.text) = Len(fed) + Len(h.text)
    <3>1. fed \in Seq(Alphabet \cup {Hide}) /\ h.text \in Seq(Alphabet \cup {Hide})
      BY <1>8, <1>10
    <3> QED
      BY <3>1, ConcatProperties
  <2>2. shown \o un \in Seq(Alphabet \cup {Hide, Pipe}) /\ Len(shown \o un) = Len(shown) + Len(un)
    <3>1. shown \in Seq(Alphabet \cup {Hide, Pipe}) /\ un \in Seq(Alphabet \cup {Hide, Pipe})
      BY <1>8, <1>11
    <3> QED
      BY <3>1, ConcatProperties
  <2> QED
    BY <1>12, <2>1, <2>2
<1>14. Len(fed') = sent' /\ Len(shown') = sent' /\ stream'.seen = sent'
  <2>1. sent + (upto - sent) = upto
    BY <1>6, <1>8
  <2> QED
    BY <1>8, <1>9, <1>10, <1>11, <1>12, <1>13, <2>1
<1>15. stream'.active => stream'.end + Len(Decode(stream'.run)) = Len(Decode(ids'))
  <2> SUFFICES ASSUME h.stream.active PROVE Reached(h.stream) = Len(Decode(ids \o tokens))
    BY <1>3, <1>12 DEF Reached
  <2>1. Reached(stream) = Len(Decode(ids))
    BY <1>10 DEF SentFacts, Reached
  <2>2. Decode(ids \o tokens) = Decode(ids) \o Decode(tokens)
    BY <1>5, DecodeConcat
  <2>3. Len(Decode(ids) \o Decode(tokens)) = Len(Decode(ids)) + Len(Decode(tokens))
    BY <1>5, DecodeTyped, ConcatProperties
  <2> QED
    BY <1>10, <2>1, <2>2, <2>3
<1>16. Buffer' = Buffer
  BY <1>1 DEF Buffer
<1>17. place' # "finished" => sent' = 0 \/ sent' <= Len(text') - Buffer'
  BY <1>3, <1>6, <1>12, <1>16
<1>18. sent' \in Nat /\ sent' <= Len(text') /\ asIs' \in BOOLEAN /\ stream' \in Streams
  BY <1>6, <1>8, <1>10, <1>12
<1> QED
  BY <1>13, <1>14, <1>15, <1>17, <1>18 DEF SentFacts

\* The invariant holds at first,
LEMMA RequestInitial == RequestInit => RequestInv
<1>1. RequestInit => place \in {"draft", "check", "sample", "finished"}
  BY DEF RequestInit
<1> QED
  BY <1>1, TextInit, SentInit, MatcherInit DEF RequestInv

\* and every step keeps it.
LEMMA RequestStep ==
  ASSUME RequestInv, [RequestNext]_rvars
  PROVE  RequestInv'
<1>1. TextFacts /\ StopRight /\ SentFacts /\ MatcherFacts
  BY DEF RequestInv
<1>2. CASE Draft
  <2>1. /\ scenario' = scenario /\ ids' = ids /\ text' = text /\ cut' = cut /\ guard' = guard /\ closed' = closed
        /\ UNCHANGED output /\ place = "draft" /\ place' = "check"
    BY <1>2 DEF Draft, output
  <2>2. TextFacts' /\ StopRight'
    BY <1>1, <2>1, TextKept
  <2>3. SentFacts'
    BY <1>1, <2>1, SentKept
  <2>4. MatcherFacts'
    BY <1>1, <1>2, MatcherDraft
  <2> QED
    BY <2>1, <2>2, <2>3, <2>4 DEF RequestInv
<1>3. CASE Check
  <2>1. /\ scenario' = scenario /\ ids' = ids /\ text' = text /\ cut' = cut /\ guard' = guard /\ closed' = closed
        /\ UNCHANGED output /\ place = "check" /\ place' = "sample"
    BY <1>3 DEF Check, output
  <2>2. TextFacts' /\ StopRight'
    BY <1>1, <2>1, TextKept
  <2>3. SentFacts'
    BY <1>1, <2>1, SentKept
  <2>4. MatcherFacts'
    BY <1>1, <1>3, MatcherCheck
  <2> QED
    BY <2>1, <2>2, <2>3, <2>4 DEF RequestInv
<1>4. CASE Sample
  <2>1. place' \in {"draft", "check", "sample", "finished"}
    <3>1. PICK tokens \in Sequences(scenario.ids, scenario.chunk) :
            place' = IF Finishes(tokens) THEN "finished" ELSE "draft"
      BY <1>4, SampleFacts
    <3> QED
      BY <3>1
  <2>2. TextFacts' /\ StopRight'
    BY <1>1, <1>4, TextSample
  <2>3. SentFacts'
    BY <1>1, <1>4, SentSample
  <2>4. MatcherFacts'
    BY <1>1, <1>4, MatcherSample
  <2> QED
    BY <2>1, <2>2, <2>3, <2>4 DEF RequestInv
<1>5. CASE UNCHANGED rvars
  <2>1. /\ scenario' = scenario /\ ids' = ids /\ text' = text /\ cut' = cut /\ guard' = guard /\ closed' = closed
        /\ UNCHANGED output /\ UNCHANGED grammar /\ place' = place
    BY <1>5 DEF rvars, output
  <2>2. TextFacts' /\ StopRight'
    BY <1>1, <2>1, TextKept
  <2>3. SentFacts'
    BY <1>1, <2>1, SentKept
  <2>4. /\ reasoning' = reasoning /\ path' = path /\ ended' = ended /\ drafts' = drafts /\ refused' = refused
    BY <2>1 DEF grammar
  <2>5. Spoken' = Spoken
    BY <2>1 DEF Spoken
  <2>6. MatcherFacts'
    <3>1. GrammarFollows'
      BY <1>1, <2>1, <2>4, <2>5 DEF MatcherFacts, GrammarFollows
    <3> QED
      BY <1>1, <2>1, <2>4, <2>5, <3>1 DEF MatcherFacts
  <2> QED
    BY <2>1, <2>2, <2>3, <2>6 DEF RequestInv
<1> QED
  BY <1>2, <1>3, <1>4, <1>5 DEF RequestNext

\* The text is the beginning of what was said.
LEMMA PrefixCut ==
  ASSUME TextFacts
  PROVE  IsPrefix(text, Whole0)
<1>1. Whole0 \in Seq(Alphabet)
  <2>1. ids \in Seq(Ids)
    BY ScenarioFacts DEF TextFacts
  <2>2. Said \in Seq(Ids)
    <3>1. CASE Said = ids
      BY <2>1, <3>1
    <3>2. CASE ids # <<>> /\ Said = Front(ids)
      <4>1. Len(ids) - 1 \in 0..Len(ids)
        BY <2>1, <3>2, SeqFacts
      <4> QED
        BY <2>1, <3>2, <4>1, CutInTwo DEF Front
    <3> QED
      BY <3>1, <3>2 DEF Said
  <2> QED
    BY <2>2, DecodeTyped DEF Whole0
<1>2. Len(Whole0) \in Nat
  BY <1>1, SeqFacts
<1>3. CASE cut = 0
  <2>1. text = Whole0
    BY <1>3 DEF TextFacts
  <2> QED
    BY <1>2, <2>1 DEF IsPrefix
<1>4. CASE cut # 0
  <2>1. cut \in 1..Len(Whole0) /\ text = SubSeq(Whole0, 1, cut - 1)
    BY <1>4 DEF TextFacts
  <2>2. cut - 1 \in 0..Len(Whole0)
    BY <1>2, <2>1
  <2>3. text \in Seq(Alphabet) /\ Len(text) = cut - 1
    BY <1>1, <2>1, <2>2, CutInTwo
  <2>4. SubSeq(text, 1, Len(text)) = text
    BY <2>3, SubSeqFull
  <2> QED
    BY <1>2, <2>1, <2>2, <2>3, <2>4 DEF IsPrefix
<1> QED
  BY <1>3, <1>4

\* What the runs check follows from it.
LEMMA RequestTyped ==
  ASSUME RequestInv
  PROVE  StopRight /\ GrammarRight
<1> USE DEF RequestInv
<1>1. IsPrefix(text, Whole0)
  BY PrefixCut
<1>2. {reasoning, ended, refused, guard, closed, asIs} \subseteq BOOLEAN
  BY DEF TextFacts, SentFacts, MatcherFacts
<1>3. RequestTypes
  BY <1>1, <1>2, Zenon DEF RequestTypes, TextFacts, SentFacts
<1> QED
  BY <1>3 DEF GrammarRight, NeverRefused, MatcherFacts

\* Every state of a request has what makes the next two inductive: its text is what was
\* said, a possible beginning of a stop string is not passed on, and the matcher took all
\* that was said after the reasoning.
THEOREM RequestInvariant == RequestSpec => []RequestInv
<1>1. RequestInv /\ [RequestNext]_rvars => RequestInv'
  BY RequestStep
<1> QED
  BY <1>1, RequestInitial, PTL DEF RequestSpec

\* A request that starts in its reasoning is not cut before it closed, and no stop string
\* after it goes by, wherever the chunks split it: patch_suppress_stops_in_reasoning.py.
THEOREM StopsAreRight == RequestSpec => []StopRight
<1>1. RequestInv => StopRight
  BY RequestTyped
<1> QED
  BY <1>1, RequestInvariant, PTL

\* No token ever fails to advance the grammar, and between steps the matcher stands where
\* the tokens after the reasoning lead it: patch_xgrammar_termination.py.
THEOREM GrammarIsRight == RequestSpec => []GrammarRight
<1>1. RequestInv => GrammarRight
  BY RequestTyped
<1> QED
  BY <1>1, RequestInvariant, PTL

\* The longest word at a place of a text, or none.
LEMMA MatchFacts ==
  ASSUME NEW t \in Seq(Alphabet), NEW i \in 1..Len(t)
  PROVE  /\ Match(t, i) = <<>> => \A w \in Words : ~At(w, t, i)
         /\ Match(t, i) # <<>> => /\ Match(t, i) \in Words /\ At(Match(t, i), t, i)
                                  /\ \A w \in Words : At(w, t, i) => Len(w) <= Len(Match(t, i))
<1> DEFINE found == {w \in Words : At(w, t, i)}
           T == {Len(t) - Len(w) : w \in found}
<1>1. Len(t) \in Nat
  BY SeqFacts
<1>2. \A w \in Words : w # <<>> /\ Len(w) \in Nat
  BY Decoded, VocabAssumption DEF Words
<1>3. CASE found = {}
  <2>1. Match(t, i) = <<>>
    BY <1>3 DEF Match
  <2> QED
    BY <1>3, <2>1
<1>4. CASE found # {}
  <2>1. ASSUME NEW w \in found PROVE Len(t) - Len(w) \in Nat
    <3>1. Len(w) \in Nat /\ i + Len(w) - 1 <= Len(t)
      BY <1>2 DEF At
    <3> QED
      BY <1>1, <3>1
  <2>2. T \in SUBSET Nat /\ T # {}
    BY <1>4, <2>1
  <2>3. PICK k \in T : \A l \in T : k <= l
    BY <2>2, Least, Zenon
  <2>4. PICK w \in found : k = Len(t) - Len(w)
    BY <2>3
  <2>5. ASSUME NEW v \in found PROVE Len(v) <= Len(w)
    <3>1. Len(t) - Len(v) \in T
      OBVIOUS
    <3>2. Len(t) - Len(w) <= Len(t) - Len(v)
      BY <2>3, <2>4, <3>1
    <3>3. Len(v) \in Nat /\ Len(w) \in Nat
      BY <1>2
    <3> QED
      BY <1>1, <3>2, <3>3
  <2> DEFINE longest == CHOOSE x \in found : \A v \in found : Len(v) <= Len(x)
  <2>6. longest \in found /\ \A v \in found : Len(v) <= Len(longest)
    BY <2>5
  <2>7. Match(t, i) = longest
    BY <1>4, Zenon DEF Match
  <2> HIDE DEF longest
  <2>8. longest \in Words /\ longest # <<>>
    BY <1>2, <2>6
  <2> QED
    BY <2>6, <2>7, <2>8
<1> QED
  BY <1>3, <1>4

\* A function defined from its end by jumps forward.
Jumps(f, n, hd, nx) == f = [i \in 1..(n + 1) |-> IF i > n THEN <<>> ELSE hd[i] \o f[nx[i]]]
LEMMA Descends ==
  ASSUME NEW S, NEW n \in Nat, NEW hd \in [1..n -> Seq(S)], NEW nx \in [1..n -> Nat],
         \A i \in 1..n : nx[i] \in (i + 1)..(n + 1)
  PROVE  \E f \in [1..(n + 1) -> Seq(S)] : Jumps(f, n, hd, nx)
<1> DEFINE D == 1..(n + 1)
           A == [D -> Seq(S)]
           a == [i \in D |-> <<>>]
           Body(f, i) == IF i > n THEN <<>> ELSE hd[i] \o f[nx[i]]
           G == [k \in 1..n |-> [y \in A |-> [y EXCEPT ![n + 1 - k] = Body(y, n + 1 - k)]]]
<1>1. a \in A
  BY EmptySeq
<1>2. ASSUME NEW y \in A, NEW i \in D PROVE Body(y, i) \in Seq(S)
  <2>1. CASE i > n
    BY <2>1, EmptySeq
  <2>2. CASE ~(i > n)
    <3>1. i \in 1..n /\ nx[i] \in D
      BY <2>2
    <3>2. hd[i] \in Seq(S) /\ y[nx[i]] \in Seq(S)
      BY <3>1
    <3>3. hd[i] \o y[nx[i]] \in Seq(S)
      BY <3>2, ConcatProperties
    <3> QED
      BY <2>2, <3>3
  <2> QED
    BY <2>1, <2>2
<1>3. G \in [1..n -> [A -> A]]
  <2>1. ASSUME NEW k \in 1..n, NEW y \in A PROVE [y EXCEPT ![n + 1 - k] = Body(y, n + 1 - k)] \in A
    <3>1. n + 1 - k \in D
      OBVIOUS
    <3>2. Body(y, n + 1 - k) \in Seq(S)
      BY <1>2, <3>1
    <3> HIDE DEF Body
    <3> QED
      BY <3>1, <3>2
  <2> HIDE DEF Body, A
  <2> QED
    BY <2>1
<1>4. PICK F \in [0..n -> A] : F[0] = a /\ \A k \in 1..n : F[k] = G[k][F[k - 1]]
  <2> HIDE DEF G, A, a
  <2>1. \E f \in [0..n -> A] : Iterates(f, n, a, G)
    BY <1>1, <1>3, Iterated
  <2> QED
    BY <2>1 DEF Iterates
<1>5. \A k \in 1..n : F[k] = [F[k - 1] EXCEPT ![n + 1 - k] = Body(F[k - 1], n + 1 - k)]
  <2> HIDE DEF Body, A, a
  <2> TAKE k \in 1..n
  <2>1. F[k - 1] \in A
    <3>1. k - 1 \in 0..n
      OBVIOUS
    <3> QED
      BY <1>4, <3>1
  <2> QED
    BY <1>4, <2>1
<1> HIDE DEF G
<1> DEFINE P == {k \in 0..n : \A i \in (n + 1 - k)..(n + 1) : F[k][i] = Body(F[k], i)}
<1>6. 0 \in P
  <2>1. F[0] = a /\ a[n + 1] = <<>>
    BY <1>4
  <2>2. ASSUME NEW i \in (n + 1 - 0)..(n + 1) PROVE F[0][i] = Body(F[0], i)
    <3>1. i = n + 1 /\ i > n
      OBVIOUS
    <3> HIDE DEF a
    <3> QED
      BY <2>1, <3>1
  <2> QED
    BY <2>2
<1>7. ASSUME NEW k \in 0..(n - 1), k \in P PROVE k + 1 \in P
  <2> DEFINE y == F[k]
             z == F[k + 1]
             p == n - k
  <2>1. k + 1 \in 1..n /\ (k + 1) - 1 = k /\ n + 1 - (k + 1) = p /\ k \in 0..n /\ k + 1 \in 0..n
        /\ p \in 1..n /\ n + 1 - k = p + 1 /\ p \in Nat
    OBVIOUS
  <2>2. y \in A /\ z = [y EXCEPT ![p] = Body(y, p)]
    <3> HIDE DEF A, Body
    <3> QED
      BY <1>4, <1>5, <2>1
  <2>3. \A i \in (p + 1)..(n + 1) : y[i] = Body(y, i)
    BY <1>7, <2>1
  <2> HIDE DEF y, z, p, P
  <2>4. \A i \in D : i # p => z[i] = y[i]
    <3> HIDE DEF Body
    <3> QED
      BY <2>2
  <2>5. z[p] = Body(y, p)
    <3> HIDE DEF Body
    <3>1. p \in D
      BY <2>1
    <3> QED
      BY <2>2, <3>1
  <2>6. ASSUME NEW i \in p..(n + 1) PROVE Body(z, i) = Body(y, i)
    <3>1. CASE i > n
      BY <3>1
    <3>2. CASE ~(i > n)
      <4>1. i \in 1..n
        BY <2>1, <3>2
      <4>2. nx[i] \in (i + 1)..(n + 1)
        BY <4>1
      <4>3. nx[i] \in D /\ nx[i] # p
        <5>1. nx[i] \in Nat /\ i \in Nat /\ p <= i
          <6>1. nx[i] \in Nat
            BY <4>1
          <6>2. i \in Nat /\ p <= i
            BY <2>1, <4>1
          <6> QED
            BY <6>1, <6>2
        <5>2. i + 1 <= nx[i] /\ nx[i] <= n + 1
          BY <4>2
        <5> DEFINE v == nx[i]
        <5>3. v \in Nat /\ i + 1 <= v /\ v <= n + 1
          BY <5>1, <5>2
        <5> HIDE DEF v
        <5>4. v \in D /\ v # p
          BY <2>1, <5>1, <5>3
        <5> QED
          BY <5>4 DEF v
      <4>4. z[nx[i]] = y[nx[i]]
        BY <2>4, <4>3
      <4> QED
        BY <3>2, <4>4
    <3> QED
      BY <3>1, <3>2
  <2>7. ASSUME NEW i \in p..(n + 1) PROVE z[i] = Body(z, i)
    <3> HIDE DEF Body
    <3>1. CASE i = p
      BY <2>5, <2>6, <3>1
    <3>2. CASE i # p
      <4>1. i \in (p + 1)..(n + 1) /\ i \in D
        BY <2>1, <3>2
      <4> QED
        BY <2>3, <2>4, <2>6, <3>2, <4>1
    <3> QED
      BY <3>1, <3>2
  <2> HIDE DEF Body
  <2> QED
    BY <2>1, <2>7 DEF P, z
<1>8. n \in P
  <2> HIDE DEF P
  <2>1. \A k \in 0..n : k \in P
    BY <1>6, <1>7, Induction
  <2> QED
    BY <2>1
<1>9. F[n] \in A /\ \A i \in D : F[n][i] = Body(F[n], i)
  <2>1. n + 1 - n = 1 /\ n \in 0..n
    OBVIOUS
  <2> HIDE DEF A, Body
  <2> QED
    BY <1>4, <1>8, <2>1
<1>10. F[n] = [i \in D |-> Body(F[n], i)]
  <2> HIDE DEF Body
  <2> QED
    BY <1>9
<1>11. Jumps(F[n], n, hd, nx)
  BY <1>10 DEF Jumps
<1> QED
  BY <1>9, <1>11

\* The id HF's encode puts for what begins at a place, and the place it goes on at.
HeadId(t, i) ==
  IF Match(t, i) # <<>> THEN CHOOSE id \in Added : Text[id] = Match(t, i)
  ELSE CHOOSE id \in Ids \ Added : Text[id] = <<t[i]>>
NextPlace(t, i) == IF Match(t, i) # <<>> THEN i + Len(Match(t, i)) ELSE i + 1

\* A character has an id of the base vocabulary.
LEMMA BaseId ==
  \A c \in Alphabet : LET b == CHOOSE id \in Ids \ Added : Text[id] = <<c>>
                      IN b \in Ids /\ b \notin Added /\ Text[b] = <<c>>
<1> TAKE c \in Alphabet
<1> DEFINE b == CHOOSE id \in Ids \ Added : Text[id] = <<c>>
<1>1. \E id \in Ids \ Added : Text[id] = <<c>>
  BY VocabAssumption
<1>2. b \in Ids \ Added /\ Text[b] = <<c>>
  BY <1>1
<1> QED
  BY <1>2

\* That id is one, and that place is further on.
LEMMA Heads ==
  ASSUME NEW t \in Seq(Alphabet), NEW i \in 1..Len(t)
  PROVE  HeadId(t, i) \in Ids /\ NextPlace(t, i) \in (i + 1)..(Len(t) + 1)
<1>1. Len(t) \in Nat /\ t[i] \in Alphabet /\ i \in Nat /\ i <= Len(t)
  BY SeqFacts
<1>2. CASE Match(t, i) = <<>>
  <2>1. HeadId(t, i) \in Ids
    BY <1>1, <1>2, BaseId, Zenon DEF HeadId
  <2>2. NextPlace(t, i) = i + 1
    BY <1>2 DEF NextPlace
  <2> QED
    BY <1>1, <2>1, <2>2
<1>3. CASE Match(t, i) # <<>>
  <2> DEFINE w == Match(t, i)
  <2>1. w \in Words /\ At(w, t, i)
    BY <1>3, MatchFacts, Zenon
  <2>2. NextPlace(t, i) = i + Len(w) /\ HeadId(t, i) = CHOOSE id \in Added : Text[id] = w
    BY <1>3 DEF NextPlace, HeadId
  <2> HIDE DEF w
  <2>3. PICK id \in Added : Text[id] = w
    BY <2>1 DEF Words
  <2>4. Len(w) \in Nat \ {0} /\ HeadId(t, i) \in Added
    BY <2>2, <2>3, Decoded, VocabAssumption
  <2>5. i + Len(w) - 1 <= Len(t)
    BY <2>1 DEF At
  <2>6. NextPlace(t, i) \in (i + 1)..(Len(t) + 1)
    <3>1. i + Len(w) \in (i + 1)..(Len(t) + 1)
      BY <1>1, <2>4, <2>5
    <3> QED
      BY <2>2, <3>1
  <2> QED
    BY <2>4, <2>6, VocabAssumption
<1> QED
  BY <1>2, <1>3

\* HF's encode goes from a place to the next.
Flattens(g, t) ==
  /\ g[1] = FlatEncode(t) /\ g[Len(t) + 1] = <<>>
  /\ \A i \in 1..Len(t) : g[i] = <<HeadId(t, i)>> \o g[NextPlace(t, i)]
LEMMA FlatSteps ==
  ASSUME NEW t \in Seq(Alphabet)
  PROVE  \E g : Flattens(g, t)
<1> DEFINE n == Len(t)
           hd == [i \in 1..n |-> <<HeadId(t, i)>>]
           nx == [i \in 1..n |-> NextPlace(t, i)]
           Body(f, i) == IF i > Len(t) THEN <<>>
                         ELSE LET w == Match(t, i)
                              IN IF w # <<>> THEN <<CHOOSE id \in Added : Text[id] = w>> \o f[i + Len(w)]
                                 ELSE <<CHOOSE id \in Ids \ Added : Text[id] = <<t[i]>> >> \o f[i + 1]
           g == CHOOSE f : f = [i \in 1..Len(t) + 1 |-> Body(f, i)]
<1>1. n \in Nat /\ \A i \in 1..n : HeadId(t, i) \in Ids /\ NextPlace(t, i) \in (i + 1)..(n + 1)
  BY SeqFacts, Heads
<1>2. \A f, i : Body(f, i) = IF i > n THEN <<>> ELSE <<HeadId(t, i)>> \o f[NextPlace(t, i)]
  <2> TAKE f, i
  <2>1. CASE Match(t, i) = <<>>
    BY <2>1 DEF HeadId, NextPlace
  <2>2. CASE Match(t, i) # <<>>
    BY <2>2 DEF HeadId, NextPlace
  <2> QED
    BY <2>1, <2>2
<1>3. FlatEncode(t) = g[1]
  BY DEF FlatEncode
<1> HIDE DEF Body
<1>4. PICK F \in [1..(n + 1) -> Seq(Ids)] : F = [i \in 1..(n + 1) |-> IF i > n THEN <<>> ELSE hd[i] \o F[nx[i]]]
  <2>1. hd \in [1..n -> Seq(Ids)]
    BY <1>1
  <2>2. nx \in [1..n -> Nat] /\ \A i \in 1..n : nx[i] \in (i + 1)..(n + 1)
    BY <1>1
  <2>3. n \in Nat
    BY <1>1
  <2> HIDE DEF hd, nx, n
  <2>4. \E f \in [1..(n + 1) -> Seq(Ids)] : Jumps(f, n, hd, nx)
    BY <2>1, <2>2, <2>3, Descends, Zenon
  <2> QED
    BY <2>4, Zenon DEF Jumps
<1>5. F = [i \in 1..(n + 1) |-> Body(F, i)]
  <2>1. ASSUME NEW i \in 1..(n + 1)
        PROVE  (IF i > n THEN <<>> ELSE hd[i] \o F[nx[i]]) = Body(F, i)
    <3>1. CASE i > n
      BY <1>2, <3>1
    <3>2. CASE ~(i > n)
      <4>1. i \in 1..n
        BY <1>1, <3>2
      <4>2. hd[i] = <<HeadId(t, i)>> /\ nx[i] = NextPlace(t, i)
        BY <4>1
      <4> HIDE DEF hd, nx
      <4> QED
        BY <1>2, <3>2, <4>2
    <3> QED
      BY <3>1, <3>2
  <2> HIDE DEF hd, nx
  <2> QED
    BY <1>4, <2>1
<1>6. g = [i \in 1..(n + 1) |-> Body(g, i)]
  BY <1>5
<1> HIDE DEF g
<1>7. \A i \in 1..(n + 1) : g[i] = IF i > n THEN <<>> ELSE <<HeadId(t, i)>> \o g[NextPlace(t, i)]
  BY <1>2, <1>6
<1>8. g[n + 1] = <<>>
  <2>1. n + 1 \in 1..(n + 1) /\ n + 1 > n
    BY <1>1
  <2> QED
    BY <1>7, <2>1
<1>9. ASSUME NEW i \in 1..n PROVE g[i] = <<HeadId(t, i)>> \o g[NextPlace(t, i)]
  <2>1. i \in 1..(n + 1) /\ ~(i > n)
    BY <1>1
  <2> QED
    BY <1>7, <2>1, Zenon
<1> QED
  BY <1>3, <1>8, <1>9 DEF Flattens

\* Before a token of the template nothing of a clean text is a control token, not even
\* with the token's beginning.
LEMMA CleanBefore ==
  ASSUME NEW c \in Seq(Alphabet), ~Quotes(c), NEW tail \in {Think, ThinkEnd}, NEW i \in 1..Len(c)
  PROVE  Match(c \o Text[tail], i) = <<>>
<1> DEFINE e == Text[tail]
           t == c \o e
<1>1. tail \in Ids /\ e \in Seq(Alphabet) /\ Len(e) \in Nat \ {0}
  BY ScenarioAssumption, VocabAssumption, Decoded
<1> HIDE DEF e
<1>2. /\ t \in Seq(Alphabet) /\ Len(t) = Len(c) + Len(e) /\ Len(c) \in Nat
      /\ \A k \in 1..Len(e) : t[Len(c) + k] = e[k]
  BY <1>1, Joined
<1>3. i \in Nat \ {0} /\ i <= Len(c) /\ i \in 1..Len(t)
  BY <1>1, <1>2
<1>4. Match(c, i) = <<>>
  <2>1. i \in DOMAIN c
    BY SeqFacts
  <2> QED
    BY <2>1 DEF Quotes
<1>5. \A w \in Words : ~At(w, c, i)
  BY <1>4, MatchFacts
<1>6. ASSUME NEW w \in Words, At(w, t, i) PROVE FALSE
  <2>1. PICK a \in Added : w = Text[a]
    BY DEF Words
  <2>2. w \in Seq(Alphabet) /\ Len(w) \in Nat
    BY <2>1, Decoded, VocabAssumption
  <2>3. CASE i + Len(w) - 1 <= Len(c)
    <3>1. At(w, c, i) <=> At(w, t, i)
      BY <1>1, <1>3, <2>2, <2>3, AtJoined
    <3> QED
      BY <1>5, <1>6, <3>1
  <2>4. CASE ~(i + Len(w) - 1 <= Len(c))
    <3> DEFINE k == Len(c) + 2 - i
    <3>1. k \in 2..Len(w) /\ k \in 1..Len(w) /\ i + k - 1 = Len(c) + 1
      BY <1>2, <1>3, <2>2, <2>4
    <3>2. \A j \in 1..Len(w) : t[i + j - 1] = w[j]
      <4> HIDE DEF t
      <4> QED
        BY <1>2, <1>3, <1>6, <2>2, AtIs
    <3>3. t[Len(c) + 1] = e[1]
      BY <1>1, <1>2
    <3> HIDE DEF k, t
    <3>4. w[k] = e[1]
      BY <3>1, <3>2, <3>3
    <3>5. Text[a][k] # Text[tail][1]
      BY <2>1, <3>1, TemplateAssumption
    <3> QED
      BY <2>1, <3>4, <3>5 DEF e
  <2> QED
    BY <2>3, <2>4
<1>7. Match(t, i) # <<>> => Match(t, i) \in Words /\ At(Match(t, i), t, i)
  <2> HIDE DEF t
  <2> QED
    BY <1>2, <1>3, MatchFacts
<1> QED
  BY <1>6, <1>7 DEF e

\* A token of the template is found where it is.
LEMMA TailFound ==
  ASSUME NEW c \in Seq(Alphabet), NEW tail \in {Think, ThinkEnd}
  PROVE  Match(c \o Text[tail], Len(c) + 1) = Text[tail]
<1> DEFINE e == Text[tail]
           t == c \o e
           i == Len(c) + 1
           w == Match(t, i)
<1>1. tail \in Added /\ e \in Words /\ e \in Seq(Alphabet) /\ Len(e) \in Nat \ {0}
  BY ScenarioAssumption, VocabAssumption, Decoded DEF Words
<1> HIDE DEF e
<1>2. /\ t \in Seq(Alphabet) /\ Len(t) = Len(c) + Len(e) /\ Len(c) \in Nat
      /\ \A k \in 1..Len(e) : t[Len(c) + k] = e[k]
  BY <1>1, Joined
<1> HIDE DEF t
<1>3. i \in Nat \ {0} /\ i \in 1..Len(t) /\ i + Len(e) - 1 <= Len(t) /\ \A k \in 1..Len(e) : i + k - 1 = Len(c) + k
  BY <1>1, <1>2
<1> HIDE DEF i
<1>4. At(e, t, i)
  <2>1. \A k \in 1..Len(e) : t[i + k - 1] = e[k]
    BY <1>2, <1>3
  <2> QED
    BY <1>1, <1>2, <1>3, <2>1, AtIs
<1>5. w \in Words /\ At(w, t, i) /\ Len(e) <= Len(w)
  BY <1>1, <1>2, <1>3, <1>4, MatchFacts
<1> HIDE DEF w
<1>6. w \in Seq(Alphabet) /\ Len(w) \in Nat
  BY <1>5, Decoded, VocabAssumption DEF Words
<1>7. i + Len(w) - 1 <= Len(t) /\ \A k \in 1..Len(w) : t[i + k - 1] = w[k]
  BY <1>2, <1>3, <1>5, <1>6, AtIs
<1>8. Len(w) = Len(e)
  <2>1. Len(w) <= Len(e)
    BY <1>1, <1>2, <1>6, <1>7 DEF i
  <2> QED
    BY <1>1, <1>5, <1>6, <2>1
<1>9. \A k \in 1..Len(w) : w[k] = e[k]
  BY <1>2, <1>3, <1>7, <1>8
<1>10. w = e
  BY <1>1, <1>6, <1>8, <1>9, SeqEqual
<1> QED
  BY <1>10 DEF w, t, i, e

\* What the base vocabulary encodes decodes to what it was, without a control token.
LEMMA BaseFacts ==
  ASSUME NEW c \in Seq(Alphabet)
  PROVE  /\ BaseEncode(c) \in Seq(Ids) /\ Len(BaseEncode(c)) = Len(c)
         /\ \A i \in 1..Len(c) : BaseEncode(c)[i] \notin Added /\ Text[BaseEncode(c)[i]] = <<c[i]>>
<1>1. Len(c) \in Nat /\ DOMAIN c = 1..Len(c) /\ \A i \in 1..Len(c) : c[i] \in Alphabet
  BY SeqFacts
<1> DEFINE b(i) == CHOOSE id \in Ids \ Added : Text[id] = <<c[i]>>
<1>2. \A i \in 1..Len(c) : b(i) \in Ids /\ b(i) \notin Added /\ Text[b(i)] = <<c[i]>>
  <2> TAKE i \in 1..Len(c)
  <2>1. c[i] \in Alphabet
    BY <1>1
  <2> QED
    BY <2>1, BaseId, Zenon
<1>3. BaseEncode(c) = [i \in 1..Len(c) |-> b(i)]
  BY <1>1, Zenon DEF BaseEncode
<1> HIDE DEF b
<1>4. BaseEncode(c) \in [1..Len(c) -> Ids] /\ \A i \in 1..Len(c) : BaseEncode(c)[i] = b(i)
  BY <1>2, <1>3
<1>5. BaseEncode(c) \in Seq(Ids) /\ Len(BaseEncode(c)) = Len(c)
  BY <1>1, <1>4
<1> QED
  BY <1>2, <1>4, <1>5

\* The base ids of a text decode to it.
LEMMA BaseDecoded ==
  ASSUME NEW c \in Seq(Alphabet)
  PROVE  Decode(BaseEncode(c)) = c
<1> DEFINE n == Len(c)
           b == BaseEncode(c)
           p(k) == SubSeq(c, 1, k)
<1>1. n \in Nat /\ b \in Seq(Ids) /\ Len(b) = n /\ (\A i \in 1..n : Text[b[i]] = <<c[i]>> /\ c[i] \in Alphabet)
  BY BaseFacts, SeqFacts
<1> HIDE DEF b
<1>2. PICK g \in [0..Len(b) -> Seq(Alphabet)] : Decodes(g, b)
  BY <1>1, DecodeSteps
<1>3. /\ g[0] = <<>> /\ g[n] = Decode(b)
      /\ \A i \in 1..n : g[i] = g[i - 1] \o <<c[i]>>
  <2>1. \A i \in 1..n : g[i] = g[i - 1] \o Text[b[i]]
    BY <1>1, <1>2 DEF Decodes
  <2> QED
    BY <1>1, <1>2, <2>1 DEF Decodes
<1> DEFINE P == {k \in 0..n : g[k] \in Seq(Alphabet) /\ Len(g[k]) = k /\ \A j \in 1..k : g[k][j] = c[j]}
<1>4. 0 \in P
  <2>1. 0 \in 0..n /\ <<>> \in Seq(Alphabet) /\ Len(<<>>) = 0
    BY <1>1, EmptySeq
  <2>2. g[0] \in Seq(Alphabet) /\ Len(g[0]) = 0
    BY <1>3, <2>1, Zenon
  <2>3. \A j \in 1..0 : g[0][j] = c[j]
    OBVIOUS
  <2> QED
    BY <2>1, <2>2, <2>3
<1>5. ASSUME NEW k \in 0..(n - 1), k \in P PROVE k + 1 \in P
  <2> DEFINE y == g[k]
             z == g[k + 1]
             u == <<c[k + 1]>>
  <2>1. k + 1 \in 1..n /\ k + 1 \in 0..n /\ (k + 1) - 1 = k /\ k \in Nat
    BY <1>1
  <2>2. y \in Seq(Alphabet) /\ Len(y) = k /\ (\A j \in 1..k : y[j] = c[j])
    BY <1>5
  <2>3. u \in Seq(Alphabet) /\ Len(u) = 1 /\ u[1] = c[k + 1] /\ z = y \o u
    BY <1>1, <1>3, <2>1
  <2> HIDE DEF y, z, u
  <2>4. /\ z \in Seq(Alphabet) /\ Len(z) = k + 1
        /\ \A j \in 1..k : z[j] = y[j]
        /\ z[k + 1] = u[1]
    <3>1. /\ y \o u \in Seq(Alphabet) /\ Len(y \o u) = Len(y) + Len(u)
          /\ \A j \in 1..Len(y) : (y \o u)[j] = y[j]
          /\ \A j \in 1..Len(u) : (y \o u)[Len(y) + j] = u[j]
      <4>1. y \in Seq(Alphabet) /\ u \in Seq(Alphabet)
        BY <2>2, <2>3
      <4> QED
        BY <4>1, Joined
    <3>2. 1 \in 1..Len(u)
      BY <2>3
    <3> QED
      BY <2>2, <2>3, <3>1, <3>2
  <2>5. ASSUME NEW j \in 1..(k + 1) PROVE z[j] = c[j]
    <3>1. CASE j = k + 1
      BY <2>3, <2>4, <3>1
    <3>2. CASE j # k + 1
      <4>1. j \in 1..k
        BY <2>1, <3>2
      <4> QED
        BY <2>2, <2>4, <4>1
    <3> QED
      BY <3>1, <3>2
  <2> QED
    BY <2>1, <2>4, <2>5 DEF z
<1>6. n \in P
  <2> HIDE DEF P
  <2>1. \A k \in 0..n : k \in P
    BY <1>1, <1>4, <1>5, Induction
  <2> QED
    BY <1>1, <2>1
<1>7. g[n] = c
  BY <1>6, SeqEqual
<1> QED
  BY <1>3, <1>7 DEF b

\* HF's encode of a clean text before a token of the template: the characters one by
\* one, and the token.
LEMMA CleanEncodes ==
  ASSUME NEW c \in Seq(Alphabet), ~Quotes(c), NEW tail \in {Think, ThinkEnd}
  PROVE  FlatEncode(c \o Text[tail]) = BaseEncode(c) \o <<tail>>
<1> DEFINE e == Text[tail]
           t == c \o e
           m == Len(c)
           b == BaseEncode(c)
           E(j) == [k \in 1..(j + 1) |-> IF k <= j THEN b[m - j + k] ELSE tail]
<1>1. tail \in Ids /\ tail \in Added /\ e \in Seq(Alphabet) /\ Len(e) \in Nat \ {0} /\ e # <<>>
  BY ScenarioAssumption, VocabAssumption, Decoded
<1>2. \A i \in 1..m : Match(t, i) = <<>>
  BY CleanBefore
<1>3. Match(t, m + 1) = e
  BY TailFound
<1>4. b \in Seq(Ids) /\ Len(b) = m /\ m \in Nat
  BY BaseFacts, SeqFacts
<1>5. \A i \in 1..m : (CHOOSE id \in Ids \ Added : Text[id] = <<c[i]>>) = b[i]
  <2> TAKE i \in 1..m
  <2>1. DOMAIN c = 1..m
    BY SeqFacts
  <2> QED
    BY <2>1 DEF BaseEncode
<1> HIDE DEF e, b
<1>6. /\ t \in Seq(Alphabet) /\ Len(t) = m + Len(e)
      /\ \A i \in 1..m : t[i] = c[i]
  BY <1>1, Joined
<1> HIDE DEF t
<1>7. \A i \in 1..m : HeadId(t, i) = b[i] /\ NextPlace(t, i) = i + 1
  <2> TAKE i \in 1..m
  <2>1. Match(t, i) = <<>> /\ t[i] = c[i]
    BY <1>2, <1>6
  <2>2. (CHOOSE id \in Ids \ Added : Text[id] = <<t[i]>>) = b[i]
    BY <1>5, <2>1
  <2> QED
    BY <2>1, <2>2 DEF HeadId, NextPlace
<1>8. HeadId(t, m + 1) = tail /\ NextPlace(t, m + 1) = Len(t) + 1
  <2>1. \A a \in Added : Text[a] = e => a = tail
    BY TemplateAssumption DEF e
  <2>2. (CHOOSE a \in Added : Text[a] = e) = tail
    <3>1. tail \in Added /\ Text[tail] = e
      BY <1>1 DEF e
    <3> QED
      BY <2>1, <3>1
  <2>3. HeadId(t, m + 1) = tail /\ NextPlace(t, m + 1) = m + 1 + Len(e)
    BY <1>1, <1>3, <2>2 DEF HeadId, NextPlace
  <2>4. m + 1 + Len(e) = Len(t) + 1
    BY <1>1, <1>4, <1>6
  <2> QED
    BY <2>3, <2>4
<1>9. PICK g : Flattens(g, t)
  BY <1>6, FlatSteps
<1>10. /\ g[1] = FlatEncode(t) /\ g[Len(t) + 1] = <<>>
       /\ \A i \in 1..Len(t) : g[i] = <<HeadId(t, i)>> \o g[NextPlace(t, i)]
  BY <1>9 DEF Flattens
<1>11. m + 1 \in 1..Len(t) /\ \A i \in 1..m : i \in 1..Len(t)
  BY <1>1, <1>4, <1>6
<1>12. g[m + 1] = <<tail>>
  <2>1. g[m + 1] = <<tail>> \o <<>>
    BY <1>8, <1>10, <1>11
  <2>2. <<tail>> \o <<>> = <<tail>>
    OBVIOUS
  <2> QED
    BY <2>1, <2>2
<1>13. \A i \in 1..m : g[i] = <<b[i]>> \o g[i + 1]
  BY <1>7, <1>10, <1>11
<1>14. \A i \in 1..m : b[i] \in Ids
  BY <1>4, SeqFacts
<1>15. \A j \in 0..m : E(j) \in Seq(Ids) /\ Len(E(j)) = j + 1
  <2> TAKE j \in 0..m
  <2>1. j + 1 \in Nat
    BY <1>4
  <2>2. ASSUME NEW k \in 1..(j + 1) PROVE (IF k <= j THEN b[m - j + k] ELSE tail) \in Ids
    <3>1. CASE k <= j
      <4>1. m - j + k \in 1..m
        BY <1>4, <3>1
      <4> QED
        BY <1>14, <3>1, <4>1
    <3>2. CASE ~(k <= j)
      BY <1>1, <3>2
    <3> QED
      BY <3>1, <3>2
  <2>3. E(j) \in [1..(j + 1) -> Ids]
    BY <2>2
  <2> HIDE DEF E
  <2>4. E(j) \in Seq(Ids)
    BY <2>1, <2>3
  <2>5. Len(E(j)) = j + 1
    BY <2>1, <2>3, <2>4
  <2> QED
    BY <2>4, <2>5
<1> DEFINE P == {j \in 0..m : g[m + 1 - j] = E(j)}
<1>16. 0 \in P
  <2>1. 0 \in 0..m /\ m + 1 - 0 = m + 1 /\ 0 + 1 = 1
    BY <1>4
  <2>2. Len(E(0)) = 1 /\ E(0) \in Seq(Ids)
    BY <1>15, <2>1
  <2>3. E(0)[1] = tail
    OBVIOUS
  <2> HIDE DEF E
  <2>4. <<tail>> \in Seq(Ids) /\ Len(<<tail>>) = 1 /\ <<tail>>[1] = tail
    BY <1>1
  <2> DEFINE s == <<tail>>
  <2>5. s \in Seq(Ids) /\ Len(s) = 1 /\ s[1] = tail
    BY <2>4
  <2> HIDE DEF s
  <2>6. \A k \in 1..Len(s) : s[k] = E(0)[k]
    BY <2>3, <2>5
  <2>7. s = E(0)
    BY <2>2, <2>5, <2>6, SeqEqual
  <2> QED
    BY <1>12, <2>1, <2>7 DEF s
<1>17. ASSUME NEW j \in 0..(m - 1), j \in P PROVE j + 1 \in P
  <2>1. j \in Nat /\ j \in 0..m /\ j + 1 \in 0..m /\ m - j \in 1..m /\ (m - j) + 1 = m + 1 - j
        /\ m + 1 - (j + 1) = m - j
    BY <1>4
  <2>2. g[m + 1 - j] = E(j)
    BY <1>17
  <2> DEFINE u == <<b[m - j]>>
             x == E(j)
             y == E(j + 1)
  <2>3. g[m - j] = u \o x
    BY <1>13, <2>1, <2>2
  <2>4. u \in Seq(Ids) /\ Len(u) = 1 /\ u[1] = b[m - j]
    BY <1>14, <2>1
  <2>5. x \in Seq(Ids) /\ Len(x) = j + 1 /\ y \in Seq(Ids) /\ Len(y) = j + 2
    <3> HIDE DEF E
    <3>1. (j + 1) + 1 = j + 2
      BY <2>1
    <3> QED
      BY <1>15, <2>1, <3>1
  <2>6. \A k \in 1..(j + 1) : x[k] = IF k <= j THEN b[m - j + k] ELSE tail
    OBVIOUS
  <2>7. \A k \in 1..(j + 2) : y[k] = IF k <= j + 1 THEN b[m - (j + 1) + k] ELSE tail
    OBVIOUS
  <2> HIDE DEF u, x, y, E
  <2>8. /\ u \o x \in Seq(Ids) /\ Len(u \o x) = Len(u) + Len(x)
        /\ \A k \in 1..Len(u) : (u \o x)[k] = u[k]
        /\ \A k \in 1..Len(x) : (u \o x)[Len(u) + k] = x[k]
    <3>1. u \in Seq(Ids) /\ x \in Seq(Ids)
      BY <2>4, <2>5
    <3> QED
      BY <3>1, Joined
  <2> DEFINE z == u \o x
  <2>9. z \in Seq(Ids) /\ Len(z) = j + 2 /\ z[1] = b[m - j] /\ \A k \in 1..(j + 1) : z[1 + k] = x[k]
    BY <2>1, <2>4, <2>5, <2>8
  <2> HIDE DEF z
  <2>10. ASSUME NEW k \in 1..(j + 2) PROVE z[k] = y[k]
    <3>1. CASE k = 1
      <4>1. 1 <= j + 1 /\ m - (j + 1) + 1 = m - j
        BY <1>4, <2>1
      <4>2. y[k] = b[m - j]
        BY <2>7, <3>1, <4>1
      <4> QED
        BY <2>9, <3>1, <4>2
    <3>2. CASE k # 1
      <4> DEFINE l == k - 1
      <4>1. l \in 1..(j + 1) /\ k = 1 + l /\ (k <= j + 1 <=> l <= j) /\ m - (j + 1) + k = m - j + l
        BY <1>4, <2>1, <3>2
      <4> HIDE DEF l
      <4>2. z[k] = x[l]
        BY <2>9, <4>1
      <4>3. y[k] = x[l]
        BY <2>6, <2>7, <4>1
      <4> QED
        BY <4>2, <4>3
    <3> QED
      BY <3>1, <3>2
  <2>11. z = y
    BY <2>5, <2>9, <2>10, SeqEqual
  <2>12. g[m + 1 - (j + 1)] = E(j + 1)
    BY <2>1, <2>3, <2>11 DEF z, y
  <2> QED
    BY <2>1, <2>12
<1>18. g[1] = E(m)
  <2> HIDE DEF P
  <2>1. \A j \in 0..m : j \in P
    BY <1>4, <1>16, <1>17, Induction
  <2>2. m \in 0..m /\ m + 1 - m = 1
    BY <1>4
  <2>3. m \in P
    BY <2>1, <2>2
  <2> HIDE DEF E
  <2> QED
    BY <2>2, <2>3 DEF P
<1>19. E(m) = b \o <<tail>>
  <2> DEFINE u == <<tail>>
             x == E(m)
  <2>1. u \in Seq(Ids) /\ Len(u) = 1 /\ u[1] = tail
    BY <1>1
  <2>2. x \in Seq(Ids) /\ Len(x) = m + 1
    <3>1. m \in 0..m
      BY <1>4
    <3> HIDE DEF E
    <3> QED
      BY <1>15, <3>1
  <2>3. \A k \in 1..(m + 1) : x[k] = IF k <= m THEN b[m - m + k] ELSE tail
    OBVIOUS
  <2> HIDE DEF u, x, E
  <2>4. /\ b \o u \in Seq(Ids) /\ Len(b \o u) = Len(b) + Len(u)
        /\ \A k \in 1..Len(b) : (b \o u)[k] = b[k]
        /\ \A k \in 1..Len(u) : (b \o u)[Len(b) + k] = u[k]
    <3>1. b \in Seq(Ids) /\ u \in Seq(Ids)
      BY <1>4, <2>1
    <3> QED
      BY <3>1, Joined
  <2> DEFINE z == b \o u
  <2>5. z \in Seq(Ids) /\ Len(z) = m + 1 /\ z[m + 1] = tail /\ \A k \in 1..m : z[k] = b[k]
    BY <1>4, <2>1, <2>4
  <2> HIDE DEF z
  <2>6. ASSUME NEW k \in 1..(m + 1) PROVE z[k] = x[k]
    <3>1. CASE k = m + 1
      BY <1>4, <2>3, <2>5, <3>1
    <3>2. CASE k # m + 1
      <4>1. k \in 1..m /\ k <= m /\ m - m + k = k
        BY <1>4, <3>2
      <4> QED
        BY <2>3, <2>5, <4>1
    <3> QED
      BY <3>1, <3>2
  <2>7. z = x
    BY <2>2, <2>5, <2>6, SeqEqual
  <2> QED
    BY <2>7 DEF z, x, u
<1> HIDE DEF E
<1> QED
  BY <1>10, <1>18, <1>19 DEF t, e, b

\* What the marked render splits a prompt into, and the string it is.
LEMMA TwoTexts ==
  ASSUME NEW c, NEW d, NEW id
  PROVE  /\ EncodeSegments(<<c, d>>, <<id>>) = (BaseEncode(c) \o <<id>>) \o BaseEncode(d)
         /\ Rendered(<<c, d>>, <<id>>) = (c \o Text[id]) \o d
<1> DEFINE texts == <<c, d>>
           tokens == <<id>>
<1>1. Len(texts) = 2 /\ texts[1] = c /\ texts[2] = d /\ tokens[1] = id
  OBVIOUS
<1>2. 1..Len(texts) = {1, 2}
  BY <1>1
<1> HIDE DEF texts, tokens
<1>3. EncodeSegments(texts, tokens) = (BaseEncode(c) \o <<id>>) \o BaseEncode(d)
  <2> DEFINE Body(f, i) == IF i = 1 THEN BaseEncode(texts[1])
                           ELSE f[i - 1] \o <<tokens[i - 1]>> \o BaseEncode(texts[i])
             g == CHOOSE f : f = [i \in 1..Len(texts) |-> Body(f, i)]
             a == BaseEncode(c)
             F == [i \in 1..Len(texts) |-> IF i = 1 THEN a ELSE (a \o <<id>>) \o BaseEncode(d)]
  <2>1. EncodeSegments(texts, tokens) = g[Len(texts)]
    BY DEF EncodeSegments
  <2>2. \A f : Body(f, 1) = a
    BY <1>1
  <2>3. \A f : Body(f, 2) = (f[1] \o <<id>>) \o BaseEncode(d)
    BY <1>1
  <2>4. F[1] = a /\ F[2] = (a \o <<id>>) \o BaseEncode(d)
    BY <1>2
  <2> HIDE DEF Body, a
  <2>5. \A i \in 1..Len(texts) : F[i] = Body(F, i)
    <3> HIDE DEF F
    <3>1. F[1] = Body(F, 1)
      BY <2>2, <2>4
    <3>2. F[2] = Body(F, 2)
      BY <2>3, <2>4
    <3> QED
      BY <1>2, <3>1, <3>2
  <2>6. F = [i \in 1..Len(texts) |-> Body(F, i)]
    BY <2>5
  <2> HIDE DEF F
  <2>7. g = [i \in 1..Len(texts) |-> Body(g, i)]
    BY <2>6
  <2> HIDE DEF g
  <2>8. g[1] = Body(g, 1) /\ g[2] = Body(g, 2)
    BY <1>2, <2>7
  <2>9. g[2] = (a \o <<id>>) \o BaseEncode(d)
    BY <2>2, <2>3, <2>8
  <2> QED
    BY <1>1, <2>1, <2>9 DEF a
<1>4. Rendered(texts, tokens) = (c \o Text[id]) \o d
  <2> DEFINE Body(f, i) == IF i = 1 THEN texts[1] ELSE f[i - 1] \o Text[tokens[i - 1]] \o texts[i]
             g == CHOOSE f : f = [i \in 1..Len(texts) |-> Body(f, i)]
             F == [i \in 1..Len(texts) |-> IF i = 1 THEN c ELSE (c \o Text[id]) \o d]
  <2>1. Rendered(texts, tokens) = g[Len(texts)]
    BY DEF Rendered
  <2>2. \A f : Body(f, 1) = c
    BY <1>1
  <2>3. \A f : Body(f, 2) = (f[1] \o Text[id]) \o d
    <3>1. 2 # 1 /\ 2 - 1 = 1
      OBVIOUS
    <3>2. \A f : Body(f, 2) = (f[1] \o Text[tokens[1]]) \o texts[2]
      BY <3>1
    <3> QED
      BY <1>1, <3>2
  <2>4. F[1] = c /\ F[2] = (c \o Text[id]) \o d
    BY <1>2
  <2> HIDE DEF Body
  <2>5. \A i \in 1..Len(texts) : F[i] = Body(F, i)
    <3> HIDE DEF F
    <3>1. F[1] = Body(F, 1)
      BY <2>2, <2>4
    <3>2. F[2] = Body(F, 2)
      BY <2>3, <2>4
    <3> QED
      BY <1>2, <3>1, <3>2
  <2>6. F = [i \in 1..Len(texts) |-> Body(F, i)]
    BY <2>5
  <2> HIDE DEF F
  <2>7. g = [i \in 1..Len(texts) |-> Body(g, i)]
    BY <2>6
  <2> HIDE DEF g
  <2>8. g[1] = Body(g, 1) /\ g[2] = Body(g, 2)
    BY <1>2, <2>7
  <2>9. g[2] = (c \o Text[id]) \o d
    BY <2>2, <2>3, <2>8
  <2> QED
    BY <1>1, <2>1, <2>9
<1> QED
  BY <1>3, <1>4 DEF texts, tokens

\* Nothing after a token of the template changes nothing, and encodes to nothing.
LEMMA NothingAfter ==
  /\ BaseEncode(<<>>) = <<>>
  /\ \A s \in Seq(Ids) : s \o <<>> = s
  /\ \A t \in Seq(Alphabet) : t \o <<>> = t
<1>1. <<>> \in Seq(Alphabet) /\ Len(<<>>) = 0
  BY EmptySeq
<1>2. BaseEncode(<<>>) \in Seq(Ids) /\ Len(BaseEncode(<<>>)) = 0
  BY <1>1, BaseFacts
<1>3. BaseEncode(<<>>) = <<>>
  BY <1>2, SeqFacts
<1> QED
  BY <1>3

\* However it is encoded, a prompt is its content's characters, then the template's
\* token.
LEMMA Encoded ==
  ASSUME NEW c \in Seq(Alphabet), NEW tail \in {Think, ThinkEnd}
  PROVE  EncodePrompt(Texts(c), <<tail>>) = BaseEncode(c) \o <<tail>>
<1>1. tail \in Ids /\ Text[tail] \in Seq(Alphabet) /\ BaseEncode(c) \in Seq(Ids) /\ <<tail>> \in Seq(Ids)
  <2>1. tail \in Ids /\ Text[tail] \in Seq(Alphabet)
    BY ScenarioAssumption, VocabAssumption
  <2>2. BaseEncode(c) \in Seq(Ids)
    BY BaseFacts
  <2> QED
    BY <2>1, <2>2
<1>2. BaseEncode(c) \o <<tail>> \in Seq(Ids) /\ c \o Text[tail] \in Seq(Alphabet)
  BY <1>1, ConcatProperties
<1> DEFINE none == <<>>
           texts == <<c, none>>
           tokens == <<tail>>
<1>3. /\ EncodeSegments(texts, tokens) = (BaseEncode(c) \o tokens) \o BaseEncode(none)
      /\ Rendered(texts, tokens) = (c \o Text[tail]) \o none
  <2> HIDE DEF none
  <2> QED
    BY TwoTexts, ZenonT(60)
<1>4. Texts(c) = texts
  BY DEF Texts
<1>5. BaseEncode(none) = none /\ (\A s \in Seq(Ids) : s \o none = s) /\ \A t \in Seq(Alphabet) : t \o none = t
  BY NothingAfter, Zenon
<1> HIDE DEF none, texts, tokens
<1>6. EncodeSegments(texts, tokens) = BaseEncode(c) \o tokens /\ Rendered(texts, tokens) = c \o Text[tail]
  <2>1. BaseEncode(c) \o tokens \in Seq(Ids)
    BY <1>2 DEF tokens
  <2> QED
    BY <1>2, <1>3, <1>5, <2>1
<1>7. EncodePrompt(texts, tokens) = IF \E i \in DOMAIN texts : Quotes(texts[i]) THEN EncodeSegments(texts, tokens)
                                   ELSE FlatEncode(Rendered(texts, tokens))
  BY Zenon DEF EncodePrompt
<1>8. CASE \E i \in DOMAIN texts : Quotes(texts[i])
  BY <1>4, <1>6, <1>7, <1>8 DEF tokens
<1>9. CASE ~\E i \in DOMAIN texts : Quotes(texts[i])
  <2>1. 1 \in DOMAIN texts /\ texts[1] = c
    BY DEF texts
  <2>2. ~Quotes(c)
    BY <1>9, <2>1
  <2>3. FlatEncode(c \o Text[tail]) = BaseEncode(c) \o <<tail>>
    BY <2>2, CleanEncodes
  <2> QED
    BY <1>4, <1>6, <1>7, <1>9, <2>3 DEF tokens
<1> QED
  BY <1>8, <1>9

\* Such a prompt says its content, and its one control token is the template's.
LEMMA EncodedRight ==
  ASSUME NEW c \in Seq(Alphabet), NEW tail \in {Think, ThinkEnd}
  PROVE  LET s == BaseEncode(c) \o <<tail>>
         IN /\ Decode(s) = c \o Text[tail]
            /\ {i \in DOMAIN s : s[i] \in Added} = {Len(s)} /\ Last(s) = tail
<1> DEFINE b == BaseEncode(c)
           u == <<tail>>
           s == b \o u
           n == Len(c)
<1>1. /\ tail \in Ids /\ tail \in Added /\ b \in Seq(Ids) /\ Len(b) = n /\ u \in Seq(Ids)
      /\ Len(u) = 1 /\ u[1] = tail /\ n \in Nat /\ \A i \in 1..n : b[i] \notin Added
  <2>1. tail \in Ids /\ tail \in Added
    BY ScenarioAssumption, VocabAssumption
  <2>2. b \in Seq(Ids) /\ Len(b) = n /\ n \in Nat /\ \A i \in 1..n : b[i] \notin Added
    BY BaseFacts, SeqFacts
  <2> HIDE DEF b
  <2>3. u \in Seq(Ids) /\ Len(u) = 1 /\ u[1] = tail
    BY <2>1
  <2> QED
    BY <2>1, <2>2, <2>3
<1>2. Decode(b) = c /\ Decode(u) = Text[tail]
  BY <1>1, BaseDecoded, DecodeOne
<1>3. Decode(s) = c \o Text[tail]
  <2> HIDE DEF b, u
  <2>1. Decode(b \o u) = Decode(b) \o Decode(u)
    BY <1>1, DecodeConcat
  <2> QED
    BY <1>2, <2>1
<1> HIDE DEF b, u
<1>4. /\ b \o u \in Seq(Ids) /\ Len(b \o u) = Len(b) + Len(u)
      /\ \A k \in 1..Len(b) : (b \o u)[k] = b[k]
      /\ \A k \in 1..Len(u) : (b \o u)[Len(b) + k] = u[k]
  <2>1. b \in Seq(Ids) /\ u \in Seq(Ids)
    BY <1>1
  <2> QED
    BY <2>1, Joined
<1>5. /\ s \in Seq(Ids) /\ Len(s) = n + 1 /\ s[n + 1] = tail /\ (\A k \in 1..n : s[k] \notin Added)
  BY <1>1, <1>4
<1> HIDE DEF s
<1>6. DOMAIN s = 1..(n + 1)
  BY <1>5, SeqFacts
<1>7. {i \in DOMAIN s : s[i] \in Added} = {Len(s)}
  <2>1. n + 1 \in DOMAIN s /\ s[n + 1] \in Added
    BY <1>1, <1>5, <1>6
  <2>2. ASSUME NEW i \in DOMAIN s, s[i] \in Added PROVE i = n + 1
    <3>1. i \in 1..(n + 1)
      BY <1>6
    <3>2. i \notin 1..n
      BY <1>5, <2>2
    <3> QED
      BY <1>1, <3>1, <3>2
  <2> QED
    BY <1>5, <2>1, <2>2
<1>8. Last(s) = tail
  BY <1>5 DEF Last
<1> QED
  BY <1>3, <1>7, <1>8 DEF s, b, u

\* The prompt of a request says what its user and its template say, and its control
\* tokens are the template's: patch_control_token_injection.py.
THEOREM PromptIsFaithful == RequestSpec => []PromptFaithful
<1>1. RequestInit => PromptFaithful
  <2> SUFFICES ASSUME RequestInit PROVE PromptFaithful
    OBVIOUS
  <2>1. content \in Seq(Alphabet) /\ Tail1 \in {Think, ThinkEnd}
    BY ScenarioAssumption DEF RequestInit, Tail1
  <2>2. prompt = BaseEncode(content) \o <<Tail1>>
    <3>1. prompt = EncodePrompt(Texts(content), <<Tail1>>)
      BY DEF RequestInit
    <3> HIDE DEF Tail1
    <3> QED
      BY <2>1, <3>1, Encoded
  <2> QED
    BY <2>1, <2>2, EncodedRight, Zenon DEF PromptFaithful
<1>2. PromptFaithful /\ [RequestNext]_rvars => PromptFaithful'
  <2> SUFFICES ASSUME PromptFaithful, [RequestNext]_rvars PROVE PromptFaithful'
    OBVIOUS
  <2>1. scenario' = scenario /\ content' = content /\ prompt' = prompt
    BY DEF RequestNext, Draft, Check, Sample, rvars
  <2> QED
    BY <2>1 DEF PromptFaithful, Tail1
<1> QED
  BY <1>1, <1>2, PTL DEF RequestSpec

\* What is hidden from the parser is restored for the client.
LEMMA HideUndone ==
  ASSUME NEW s0 \in Streams, NEW d \in Seq(Alphabet), NEW q \in Seq(Ids), NEW h, h = HideDelta(s0, d, q)
  PROVE  Unhide(h.stream, h.text) = d
<1> DEFINE t == TakeIds(s0, q)
           from == s0.seen
           upto == s0.seen + Len(d)
           s == [t.s EXCEPT !.seen = upto]
           real == RealPlaces(s.spans, from, upto)
           fake == {i \in DOMAIN d : d[i] = Pipe /\ i \notin real}
           kept == [s EXCEPT !.spans = StillDue(s.spans, upto)]
           some == [kept EXCEPT !.hidden = kept.hidden \/ fake # {}]
           masked == [i \in DOMAIN d |-> IF i \in fake THEN Hide ELSE d[i]]
<1>1. h = IF ~s0.active \/ t.early \/ OutOfPlace(s.spans, from, d)
          THEN [stream |-> Stopped(s), text |-> d, asIs |-> TRUE]
          ELSE IF Held(s.spans, upto) THEN [stream |-> kept, text |-> d, asIs |-> TRUE]
          ELSE [stream |-> some, text |-> masked, asIs |-> FALSE]
  BY DEF HideDelta
<1>2. DOMAIN d = 1..Len(d) /\ d = [i \in DOMAIN d |-> d[i]] /\ \A i \in DOMAIN d : d[i] \in Alphabet
  BY SeqFacts
<1>3. \A i \in DOMAIN d : d[i] # Hide
  BY <1>2, VocabAssumption
<1>4. ASSUME NEW z PROVE Unhide(z, d) = d
  <2>1. [i \in DOMAIN d |-> IF d[i] = Hide THEN Pipe ELSE d[i]] = d
    BY <1>2, <1>3
  <2> QED
    BY <2>1 DEF Unhide
<1>5. t.s \in Streams
  BY TakeIdsFacts DEF Takings
<1>6. upto \in Nat
  BY SeqFacts DEF Streams
<1>7. kept \in Streams
  <2> HIDE DEF t, upto
  <2>1. s \in Streams
    BY <1>5, <1>6 DEF Streams
  <2> HIDE DEF s
  <2>2. StillDue(s.spans, upto) \subseteq s.spans /\ s.spans \subseteq [at : Nat, id : Ids]
    BY <2>1 DEF StillDue, Streams
  <2> QED
    BY <2>1, <2>2 DEF Streams
<1> HIDE DEF kept
<1>8. some.hidden <=> (kept.hidden \/ fake # {})
  <2> HIDE DEF fake
  <2> QED
    BY <1>7 DEF Streams
<1> HIDE DEF some, t, upto, real, s
<1>9. Unhide(some, masked) = d
  <2>1. DOMAIN masked = DOMAIN d
    OBVIOUS
  <2>2. ASSUME NEW i \in DOMAIN d PROVE (IF masked[i] = Hide THEN Pipe ELSE masked[i]) = d[i]
    <3>1. CASE i \in fake
      <4>1. masked[i] = Hide /\ d[i] = Pipe
        BY <3>1
      <4> QED
        BY <4>1
    <3>2. CASE i \notin fake
      <4>1. masked[i] = d[i] /\ d[i] # Hide
        BY <1>3, <3>2
      <4> QED
        BY <4>1
    <3> QED
      BY <3>1, <3>2
  <2>3. fake = {} => masked = d
    BY <1>2
  <2> HIDE DEF masked, fake
  <2>4. CASE some.hidden
    <3>1. Unhide(some, masked) = [i \in DOMAIN masked |-> IF masked[i] = Hide THEN Pipe ELSE masked[i]]
      BY <2>4 DEF Unhide
    <3> QED
      BY <1>2, <2>1, <2>2, <3>1
  <2>5. CASE ~some.hidden
    <3>1. Unhide(some, masked) = masked
      BY <2>5 DEF Unhide
    <3> QED
      BY <1>8, <2>3, <2>5, <3>1
  <2> QED
    BY <2>4, <2>5
<1> HIDE DEF masked
<1>10. \/ h.text = d
       \/ h.stream = some /\ h.text = masked
  BY <1>1
<1> QED
  BY <1>4, <1>9, <1>10

\* Two pieces of a sequence, the second from where the first ends.
LEMMA PiecesJoin ==
  ASSUME NEW S, NEW s \in Seq(S), NEW m \in Nat, NEW n \in Nat, m <= n, n <= Len(s)
  PROVE  SubSeq(s, 1, m) \o SubSeq(s, m + 1, n) = SubSeq(s, 1, n)
<1> DEFINE r == SubSeq(s, 1, n)
<1>1. n \in 0..Len(s) /\ Len(s) \in Nat
  BY SeqFacts
<1>2. r \in Seq(S) /\ Len(r) = n
  BY <1>1, CutInTwo
<1>3. m \in 0..Len(r)
  BY <1>2
<1>4. r = SubSeq(r, 1, m) \o SubSeq(r, m + 1, Len(r))
  <2> HIDE DEF r
  <2> QED
    BY <1>2, <1>3, CutInTwo
<1>5. SubSeq(r, 1, m) = SubSeq(s, 1, m) /\ SubSeq(r, m + 1, n) = SubSeq(s, m + 1, n)
  <2>1. ASSUME NEW a \in Nat \ {0}, NEW b \in Nat, b <= n PROVE SubSeq(r, a, b) = SubSeq(s, a, b)
    <3> DEFINE l == IF a <= b THEN b - a + 1 ELSE 0
               x == SubSeq(r, a, b)
               y == SubSeq(s, a, b)
    <3>1. a \in Int /\ b \in Int /\ \A i \in a..b : i \in 1..n /\ i \in 1..Len(s)
      BY <1>1, <2>1
    <3>2. \A i \in 1..n : r[i] = s[i] /\ r[i] \in S
      <4>1. \A i \in 1..n : s[i] \in S
        BY <1>1, SeqFacts
      <4>2. \A i \in 1..(n - 1 + 1) : SubSeq(s, 1, n)[i] = s[1 + i - 1]
        BY <4>1, SubSeqProperties
      <4>3. ASSUME NEW i \in 1..n PROVE r[i] = s[i]
        <5>1. i \in 1..(n - 1 + 1) /\ 1 + i - 1 = i
          OBVIOUS
        <5> QED
          BY <4>2, <5>1
      <4> QED
        BY <4>1, <4>3
    <3>3. (\A i \in a..b : r[i] \in S) /\ (\A i \in a..b : s[i] \in S)
      BY <3>1, <3>2, SeqFacts
    <3> HIDE DEF r
    <3>4. /\ x \in Seq(S) /\ Len(x) = l
          /\ \A i \in 1..(b - a + 1) : x[i] = r[a + i - 1]
      BY <3>1, <3>3, SubSeqProperties
    <3>5. /\ y \in Seq(S) /\ Len(y) = l
          /\ \A i \in 1..(b - a + 1) : y[i] = s[a + i - 1]
      BY <3>1, <3>3, SubSeqProperties
    <3>6. ASSUME NEW i \in 1..l PROVE x[i] = y[i]
      <4>1. i \in 1..(b - a + 1) /\ a + i - 1 \in 1..n
        BY <2>1
      <4> HIDE DEF x, y
      <4> QED
        BY <3>2, <3>4, <3>5, <4>1
    <3> HIDE DEF x, y, l
    <3>7. x = y
      BY <3>4, <3>5, <3>6, SeqEqual
    <3> QED
      BY <3>7 DEF x, y
  <2> HIDE DEF r
  <2>2. 1 \in Nat \ {0} /\ m + 1 \in Nat \ {0} /\ n <= n
    OBVIOUS
  <2>3. SubSeq(r, 1, m) = SubSeq(s, 1, m)
    BY <2>1, <2>2, Zenon
  <2>4. SubSeq(r, m + 1, n) = SubSeq(s, m + 1, n)
    BY <2>1, <2>2, Zenon
  <2> QED
    BY <2>3, <2>4
<1> QED
  BY <1>2, <1>4, <1>5

\* A chunk's text begins with all that was streamed.
LEMMA StreamedKept ==
  ASSUME TextFacts, StopRight, SentFacts, place # "finished", NEW tokens \in Seq(scenario.ids), tokens # <<>>
  PROVE  SubSeq(OutText(tokens), 1, sent) = SubSeq(text, 1, sent)
<1> DEFINE v == NewText(tokens)
           out == OutText(tokens)
           w == Decode(Said1(tokens))
<1>1. v \in Seq(Alphabet) /\ text \in Seq(Alphabet) /\ Len(v) >= Len(text)
  BY NewTextFacts, Zenon
<1>2. out \in Seq(Alphabet) /\ Upto(tokens) \in Nat /\ sent <= Upto(tokens) /\ Upto(tokens) <= Len(out)
  BY UptoFacts, Zenon
<1>3. sent \in Nat /\ sent <= Len(text)
  BY DEF SentFacts
<1>4. sent <= Len(out) /\ Len(out) \in Nat /\ Len(v) \in Nat /\ Len(text) \in Nat
  BY <1>1, <1>2, <1>3, SeqFacts
<1>5. \A i \in 1..Len(text) : v[i] = text[i]
  <2>1. tokens \in Seq(Ids) /\ ids \in Seq(Ids)
    BY NewTextFacts, Zenon
  <2>2. w \in Seq(Alphabet)
    BY <2>1, SaidGrows, DecodeTyped
  <2>3. v = text \o w
    BY DEF NewText
  <2> HIDE DEF v, w
  <2> QED
    BY <1>1, <2>2, <2>3, Joined
<1>6. \A i \in 1..sent : out[i] = v[i]
  <2> DEFINE st == StopIn(tokens)
  <2>1. out = IF st > 0 THEN SubSeq(v, 1, st - 1) ELSE v
    BY DEF OutText
  <2>2. CASE st > 0
    <3>1. StopsAt(v, Len(text), Find(Text[ThinkEnd], v, 1), st)
      BY NewTextFacts, Zenon
    <3>2. st \in 1..Len(v)
      BY <2>2, <3>1 DEF StopsAt
    <3> HIDE DEF v, out, st
    <3>3. \A i \in 1..(st - 1) : v[i] \in Alphabet
      BY <1>1, <1>4, <3>2, SeqFacts
    <3>4. /\ Len(out) = (IF 1 <= st - 1 THEN st - 1 - 1 + 1 ELSE 0)
          /\ \A i \in 1..(st - 1 - 1 + 1) : out[i] = v[1 + i - 1]
      <4>1. 1 \in Int /\ st - 1 \in Int
        BY <3>2
      <4>2. out = SubSeq(v, 1, st - 1)
        BY <2>1, <2>2
      <4> QED
        BY <3>3, <4>1, <4>2, SubSeqProperties
    <3>5. ASSUME NEW i \in 1..sent PROVE out[i] = v[i]
      <4>1. i \in 1..(st - 1 - 1 + 1) /\ 1 + i - 1 = i
        BY <1>3, <1>4, <3>2, <3>4
      <4> QED
        BY <3>4, <4>1
    <3> QED
      BY <3>5
  <2>3. CASE ~(st > 0)
    BY <2>1, <2>3
  <2> QED
    BY <2>2, <2>3
<1> HIDE DEF v, out
<1>7. \A i \in 1..sent : out[i] = text[i]
  BY <1>3, <1>4, <1>5, <1>6
<1> DEFINE x == SubSeq(out, 1, sent)
           y == SubSeq(text, 1, sent)
<1>8. sent \in 0..Len(out) /\ sent \in 0..Len(text)
  BY <1>3, <1>4
<1>9. x \in Seq(Alphabet) /\ Len(x) = sent /\ y \in Seq(Alphabet) /\ Len(y) = sent
  BY <1>1, <1>2, <1>8, CutInTwo
<1>10. (\A i \in 1..sent : out[i] \in Alphabet) /\ (\A i \in 1..sent : text[i] \in Alphabet)
  BY <1>1, <1>2, <1>8, SeqFacts
<1>11. ASSUME NEW i \in 1..sent PROVE x[i] = y[i]
  <2>1. \A j \in 1..(sent - 1 + 1) : x[j] = out[1 + j - 1] /\ y[j] = text[1 + j - 1]
    <3>1. 1 \in Int /\ sent \in Int
      BY <1>3
    <3> QED
      BY <1>10, <3>1, SubSeqProperties
  <2>2. i \in 1..(sent - 1 + 1) /\ 1 + i - 1 = i
    BY <1>3
  <2> HIDE DEF x, y
  <2> QED
    BY <1>7, <2>1, <2>2
<1> HIDE DEF x, y
<1>12. x = y
  BY <1>9, <1>11, SeqEqual
<1> QED
  BY <1>12 DEF x, y, out

\* A sampled chunk adds its delta to what the client reads.
LEMMA RestoredStep ==
  ASSUME RequestInv, StreamRestored, Sample
  PROVE  StreamRestored'
<1> USE DEF RequestInv
<1>1. place = "sample" /\ scenario' = scenario
  BY DEF Sample
<1>2. scenario \in Scenarios /\ scenario.chunk \in Nat /\ ids \in Seq(scenario.ids)
  BY ScenarioFacts DEF TextFacts
<1>3. PICK tokens \in Sequences(scenario.ids, scenario.chunk) :
        /\ tokens # <<>> /\ text' = OutText(tokens) /\ sent' = Upto(tokens)
        /\ shown' = shown \o Unhide(Hiding(tokens).stream, Hiding(tokens).text)
  BY SampleFacts
<1>4. tokens \in Seq(scenario.ids)
  BY <1>2, SequencesFacts
<1>5. tokens \in Seq(Ids)
  BY <1>2, <1>4, ScenarioFacts
<1> DEFINE out == OutText(tokens)
           upto == Upto(tokens)
           d == SubSeq(out, sent + 1, upto)
           h == Hiding(tokens)
<1>6. out \in Seq(Alphabet) /\ upto \in Nat /\ sent <= upto /\ upto <= Len(out)
  BY <1>1, <1>3, <1>4, UptoFacts, Zenon
<1>7. h = HideDelta(stream, d, tokens)
  BY DEF Hiding
<1>8. SubSeq(out, 1, sent) = SubSeq(text, 1, sent)
  BY <1>1, <1>3, <1>4, StreamedKept
<1> HIDE DEF out, upto, h
<1>9. sent \in Nat /\ stream \in Streams
  BY DEF SentFacts
<1>10. d \in Seq(Alphabet)
  <2>1. Len(out) \in Nat /\ \A i \in 1..Len(out) : out[i] \in Alphabet
    BY <1>6, SeqFacts
  <2>2. \A i \in (sent + 1)..upto : out[i] \in Alphabet
    BY <1>6, <1>9, <2>1
  <2>3. sent + 1 \in Int /\ upto \in Int
    BY <1>6, <1>9
  <2> QED
    BY <2>2, <2>3, SubSeqProperties
<1>11. Unhide(h.stream, h.text) = d
  BY <1>5, <1>7, <1>9, <1>10, HideUndone
<1>12. SubSeq(out, 1, sent) \o d = SubSeq(out, 1, upto)
  BY <1>6, <1>9, PiecesJoin
<1>13. shown' = SubSeq(text, 1, sent) \o d
  BY <1>3, <1>11 DEF StreamRestored, h
<1> QED
  BY <1>3, <1>8, <1>12, <1>13 DEF StreamRestored, out, upto

\* Whatever was hidden from the parser, the client of a stream reads the text:
\* _OutputTokenStream.unhide of patch_output_token_split.py.
THEOREM StreamIsRestored == RequestSpec => []StreamRestored
<1>1. RequestInit => StreamRestored
  <2> SUFFICES ASSUME RequestInit PROVE StreamRestored
    OBVIOUS
  <2>1. shown = <<>> /\ text = <<>> /\ sent = 0
    BY DEF RequestInit
  <2>2. <<>> \in Seq(Alphabet) /\ 0 \in 0..Len(<<>>)
    BY EmptySeq
  <2>3. SubSeq(<<>>, 1, 0) \in Seq(Alphabet) /\ Len(SubSeq(<<>>, 1, 0)) = 0
    BY <2>2, CutInTwo
  <2>4. SubSeq(<<>>, 1, 0) = <<>>
    BY <2>3, SeqFacts
  <2> QED
    BY <2>1, <2>4 DEF StreamRestored
<1>2. RequestInv /\ StreamRestored /\ [RequestNext]_rvars => StreamRestored'
  <2> SUFFICES ASSUME RequestInv, StreamRestored, [RequestNext]_rvars PROVE StreamRestored'
    OBVIOUS
  <2>1. CASE Sample
    BY <2>1, RestoredStep
  <2>2. CASE Draft \/ Check \/ UNCHANGED rvars
    <3>1. shown' = shown /\ text' = text /\ sent' = sent
      BY <2>2 DEF Draft, Check, rvars, output
    <3> QED
      BY <3>1 DEF StreamRestored
  <2> QED
    BY <2>1, <2>2 DEF RequestNext
<1> QED
  BY <1>1, <1>2, RequestInvariant, PTL DEF RequestSpec
==============================================================================
