---------------------------- MODULE RowStorePool ----------------------------
(***************************************************************************)
(* The process-wide thread pool of overlay/row_store.cpp and its entry     *)
(* point row_store_lookup.  One step stands for one access to state that   *)
(* another thread can observe: drain() reads next_, chunks_ and remaining_ *)
(* without the mutex, so run() publishes them in separate steps; what is   *)
(* only ever touched under mutex_ (job_, generation_, active_) moves with  *)
(* the critical section it belongs to.                                     *)
(*                                                                         *)
(* Serving one id (serve, fetch_row) is one step here; RowStoreCache opens *)
(* it up.  A condition-variable wait is a program counter value that only  *)
(* a notification or a spurious wakeup leaves.  ~Pool is left out: pool()  *)
(* never deletes the instance, so stop_ stays false.                       *)
(***************************************************************************)
EXTENDS Integers, FiniteSets

CONSTANTS Callers,      \* threads that call row_store_lookup (stream callbacks)
          Workers,      \* the pool's threads; {} is pool() = nullptr
          NoOne,        \* an unowned mutex, a null Work*
          MaxCount,     \* bound on Work.count
          kSerialBelow, \* 8 in the code
          GenMod        \* 2^64 in the code: generation_ wraps

Threads == Callers \cup Workers

ASSUME PoolAssumption ==
  /\ IsFiniteSet(Workers)
  /\ Callers \cap Workers = {}
  /\ NoOne \notin Threads
  /\ MaxCount \in Nat
  /\ kSerialBelow \in Nat
  /\ GenMod \in Nat \ {0, 1}

VARIABLES
  pc,          \* where each thread is
  work,        \* the Work* a thread drains, named by the caller that owns it
  ticket,      \* the ticket a draining thread holds (0 outside its scope)
  seen,        \* loop()'s local: last generation a worker has seen
  count,       \* Work.count of each caller's latest call
  rows,        \* output indices serve() has written for that call
  caller_, mutex_,
  job_, next_, chunks_, remaining_, active_, generation_

shared == <<caller_, mutex_, job_, next_, chunks_, remaining_, active_,
            generation_>>
vars == <<pc, work, ticket, seen, count, rows, shared>>

kChunk == 1
Chunks(n) == (n + kChunk - 1) \div kChunk

\* The program points of drain(), and of run() while it owns caller_.
Draining == {"claim", "bound", "serve", "finish", "notify"}
Publishing == {"publish", "chunks", "remaining", "wake"}
Waiting == {"check_done", "block", "wait_done"}
InRun == Publishing \cup Draining \cup Waiting \cup {"unlock"}

CallerPC == {"idle", "serial", "enter"} \cup InRun
WorkerPC == {"check", "wait_ready", "leave"} \cup Draining

Goto(t, l) == pc' = [pc EXCEPT ![t] = l]

Init ==
  /\ pc = [t \in Threads |-> IF t \in Callers THEN "idle" ELSE "check"]
  /\ work = [t \in Threads |-> NoOne]
  /\ ticket = [t \in Threads |-> 0]
  /\ seen = [w \in Workers |-> 0]
  /\ count = [c \in Callers |-> 0]
  /\ rows = [c \in Callers |-> {}]
  /\ caller_ = NoOne /\ mutex_ = NoOne /\ job_ = NoOne
  /\ next_ = 0 /\ chunks_ = 0 /\ remaining_ = 0 /\ active_ = 0
  /\ generation_ = 0
-----------------------------------------------------------------------------
(* row_store_lookup: below kSerialBelow ids, or without a pool, the caller  *)
(* serves everything itself.                                                *)
Lookup(c) ==
  /\ pc[c] = "idle"
  /\ \E n \in 0..MaxCount :
       /\ count' = [count EXCEPT ![c] = n]
       /\ Goto(c, IF Workers = {} \/ n < kSerialBelow THEN "serial" ELSE "enter")
  /\ rows' = [rows EXCEPT ![c] = {}]
  /\ UNCHANGED <<work, ticket, seen, shared>>

ServeSerially(c) ==
  /\ pc[c] = "serial"
  /\ rows[c] # 0..(count[c] - 1)
  /\ rows' = [rows EXCEPT ![c] = @ \cup 0..(count[c] - 1)]
  /\ UNCHANGED <<pc, work, ticket, seen, count, shared>>

ReturnSerial(c) ==
  /\ pc[c] = "serial"
  /\ rows[c] = 0..(count[c] - 1)
  /\ Goto(c, "idle")
  /\ UNCHANGED <<work, ticket, seen, count, rows, shared>>
-----------------------------------------------------------------------------
\* Mutant: run() without the caller_ mutex.
SerializeCallersNot(c) ==
  /\ pc[c] = "enter"
  /\ caller_' = c
  /\ Goto(c, "publish")
  /\ UNCHANGED <<work, ticket, seen, count, rows, mutex_, job_, next_, chunks_,
                 remaining_, active_, generation_>>

(* Pool::run *)
SerializeCallers(c) ==
  /\ pc[c] = "enter"
  /\ caller_ = NoOne
  /\ caller_' = c
  /\ Goto(c, "publish")
  /\ UNCHANGED <<work, ticket, seen, count, rows, mutex_, job_, next_, chunks_,
                 remaining_, active_, generation_>>

PublishJob(c) ==
  /\ pc[c] = "publish"
  /\ mutex_ = NoOne
  /\ mutex_' = c
  /\ job_' = c
  /\ next_' = 0
  /\ Goto(c, "chunks")
  /\ UNCHANGED <<work, ticket, seen, count, rows, caller_, chunks_, remaining_,
                 active_, generation_>>

PublishChunks(c) ==
  /\ pc[c] = "chunks"
  /\ chunks_' = Chunks(count[c])
  /\ Goto(c, "remaining")
  /\ UNCHANGED <<work, ticket, seen, count, rows, caller_, mutex_, job_, next_,
                 remaining_, active_, generation_>>

PublishRemaining(c) ==
  /\ pc[c] = "remaining"
  /\ remaining_' = Chunks(count[c])
  /\ generation_' = (generation_ + 1) % GenMod
  /\ mutex_' = NoOne
  /\ Goto(c, "wake")
  /\ UNCHANGED <<work, ticket, seen, count, rows, caller_, job_, next_, chunks_,
                 active_>>

\* ready_.notify_all(), then the caller enters drain(work) itself.
NotifyReady(c) ==
  /\ pc[c] = "wake"
  /\ pc' = [t \in Threads |-> IF t = c THEN "claim"
                              ELSE IF pc[t] = "wait_ready" THEN "check"
                              ELSE pc[t]]
  /\ work' = [work EXCEPT ![c] = c]
  /\ UNCHANGED <<ticket, seen, count, rows, shared>>

\* done_.wait: evaluate the predicate under mutex_; if it fails the wait gives
\* the mutex up in a second step, so that a notification can fall in between.
CheckDone(c) ==
  /\ pc[c] = "check_done"
  /\ mutex_ = NoOne
  /\ IF remaining_ = 0 /\ active_ = 0
     THEN /\ job_' = NoOne
          /\ Goto(c, "unlock")
          /\ UNCHANGED mutex_
     ELSE /\ mutex_' = c
          /\ Goto(c, "block")
          /\ UNCHANGED job_
  /\ UNCHANGED <<work, ticket, seen, count, rows, caller_, next_, chunks_,
                 remaining_, active_, generation_>>

BlockOnDone(c) ==
  /\ pc[c] = "block"
  /\ mutex_' = NoOne
  /\ Goto(c, "wait_done")
  /\ UNCHANGED <<work, ticket, seen, count, rows, caller_, job_, next_, chunks_,
                 remaining_, active_, generation_>>

ReturnRun(c) ==
  /\ pc[c] = "unlock"
  /\ caller_' = NoOne
  /\ work' = [work EXCEPT ![c] = NoOne]
  /\ Goto(c, "idle")
  /\ UNCHANGED <<ticket, seen, count, rows, mutex_, job_, next_, chunks_,
                 remaining_, active_, generation_>>
-----------------------------------------------------------------------------
(* Pool::drain, by the caller and by the workers alike *)
\* done_.notify_one(): at most the one caller that owns caller_ waits on done_.
NotifyDone(t, l) ==
  pc' = [u \in Threads |-> IF u = t THEN l
                           ELSE IF pc[u] = "wait_done" THEN "check_done"
                           ELSE pc[u]]

ClaimTicket(t) ==
  /\ pc[t] = "claim"
  /\ ticket' = [ticket EXCEPT ![t] = next_]
  /\ next_' = next_ + 1
  /\ Goto(t, "bound")
  /\ UNCHANGED <<work, seen, count, rows, caller_, mutex_, job_, chunks_,
                 remaining_, active_, generation_>>

TestTicket(t) ==
  /\ pc[t] = "bound"
  /\ IF ticket[t] < chunks_
     THEN Goto(t, "serve") /\ UNCHANGED ticket
     ELSE /\ Goto(t, IF t \in Callers THEN "check_done" ELSE "leave")
          /\ ticket' = [ticket EXCEPT ![t] = 0]
  /\ UNCHANGED <<work, seen, count, rows, shared>>

ServeTicket(t) ==
  /\ pc[t] = "serve"
  /\ rows' = [rows EXCEPT ![work[t]] =
                @ \cup {i \in 0..(count[work[t]] - 1) : i \div kChunk = ticket[t]}]
  /\ Goto(t, "finish")
  /\ UNCHANGED <<work, ticket, seen, count, shared>>

FinishTicket(t) ==
  /\ pc[t] = "finish"
  /\ remaining_' = remaining_ - 1
  /\ Goto(t, IF remaining_ = 1 THEN "notify" ELSE "claim")
  /\ ticket' = [ticket EXCEPT ![t] = 0]
  /\ UNCHANGED <<work, seen, count, rows, caller_, mutex_, job_, next_,
                 chunks_, active_, generation_>>

NotifyFinished(t) ==
  /\ pc[t] = "notify"
  /\ mutex_ = NoOne
  /\ NotifyDone(t, "claim")
  /\ UNCHANGED <<work, ticket, seen, count, rows, shared>>
-----------------------------------------------------------------------------
\* Mutant: a worker that finds no job is counted as active all the same.
TakeJobAlwaysActive(w) ==
  /\ pc[w] = "check"
  /\ mutex_ = NoOne
  /\ generation_ # seen[w]
  /\ seen' = [seen EXCEPT ![w] = generation_]
  /\ work' = [work EXCEPT ![w] = job_]
  /\ active_' = active_ + 1
  /\ IF job_ # NoOne THEN Goto(w, "claim") ELSE UNCHANGED pc
  /\ UNCHANGED <<ticket, count, rows, caller_, mutex_, job_, next_, chunks_,
                 remaining_, generation_>>

(* Pool::loop *)
\* The predicate of ready_.wait changes only under mutex_, so testing it and
\* blocking are one step.
TakeJob(w) ==
  /\ pc[w] = "check"
  /\ mutex_ = NoOne
  /\ generation_ # seen[w]
  /\ seen' = [seen EXCEPT ![w] = generation_]
  /\ work' = [work EXCEPT ![w] = job_]
  /\ IF job_ # NoOne
     THEN active_' = active_ + 1 /\ Goto(w, "claim")
     ELSE UNCHANGED <<active_, pc>>
  /\ UNCHANGED <<ticket, count, rows, caller_, mutex_, job_, next_, chunks_,
                 remaining_, generation_>>

BlockOnReady(w) ==
  /\ pc[w] = "check"
  /\ mutex_ = NoOne
  /\ generation_ = seen[w]
  /\ Goto(w, "wait_ready")
  /\ UNCHANGED <<work, ticket, seen, count, rows, shared>>

\* Mutant: active_ is decremented and done_ notified without mutex_.
LeaveDrainUnlocked(w) ==
  /\ pc[w] = "leave"
  /\ active_' = active_ - 1
  /\ work' = [work EXCEPT ![w] = NoOne]
  /\ NotifyDone(w, "check")
  /\ UNCHANGED <<ticket, seen, count, rows, caller_, mutex_, job_, next_,
                 chunks_, remaining_, generation_>>

LeaveDrain(w) ==
  /\ pc[w] = "leave"
  /\ mutex_ = NoOne
  /\ active_' = active_ - 1
  /\ work' = [work EXCEPT ![w] = NoOne]
  /\ NotifyDone(w, "check")
  /\ UNCHANGED <<ticket, seen, count, rows, caller_, mutex_, job_, next_,
                 chunks_, remaining_, generation_>>

\* std::condition_variable may wake a waiter that nobody notified.
SpuriousWakeup(t) ==
  /\ pc[t] \in {"wait_ready", "wait_done"}
  /\ Goto(t, IF pc[t] = "wait_ready" THEN "check" ELSE "check_done")
  /\ UNCHANGED <<work, ticket, seen, count, rows, shared>>
-----------------------------------------------------------------------------
drain(t) == \/ ClaimTicket(t) \/ TestTicket(t) \/ ServeTicket(t)
            \/ FinishTicket(t) \/ NotifyFinished(t)

run(c) == \/ PublishJob(c) \/ PublishChunks(c) \/ PublishRemaining(c)
          \/ NotifyReady(c) \/ CheckDone(c) \/ BlockOnDone(c) \/ ReturnRun(c)

row_store_lookup(c) == \/ Lookup(c) \/ ServeSerially(c) \/ ReturnSerial(c)
                       \/ SerializeCallers(c)

loop(w) == TakeJob(w) \/ BlockOnReady(w) \/ LeaveDrain(w)

Next == \/ \E c \in Callers : row_store_lookup(c) \/ run(c)
        \/ \E w \in Workers : loop(w)
        \/ \E t \in Threads : drain(t) \/ SpuriousWakeup(t)

Spec == Init /\ [][Next]_vars

(* A thread that can run does run, and one that asks for mutex_ gets it if  *)
(* it is free again and again (spurious wakeups may take it in between).    *)
(* Nothing is assumed of TakeJob: "progress never depends on a wakeup".     *)
Fairness ==
  /\ \A c \in Callers : WF_vars(run(c)) /\ WF_vars(ServeSerially(c) \/ ReturnSerial(c))
  /\ \A t \in Threads : WF_vars(drain(t)) /\ SF_vars(NotifyFinished(t))
  /\ \A w \in Workers : SF_vars(LeaveDrain(w))

FairSpec == Spec /\ Fairness
-----------------------------------------------------------------------------
(* One type invariant for the module. *)
TypeOK ==
  /\ pc \in [Threads -> CallerPC \cup WorkerPC]
  /\ \A c \in Callers : pc[c] \in CallerPC
  /\ \A w \in Workers : pc[w] \in WorkerPC
  /\ work \in [Threads -> Callers \cup {NoOne}]
  /\ ticket \in [Threads -> Nat]
  /\ seen \in [Workers -> 0..(GenMod - 1)]
  /\ count \in [Callers -> 0..MaxCount]
  /\ rows \in [Callers -> SUBSET (0..(MaxCount - 1))]
  /\ caller_ \in Callers \cup {NoOne}
  /\ mutex_ \in Callers \cup {NoOne}
  /\ job_ \in Callers \cup {NoOne}
  /\ next_ \in Nat /\ chunks_ \in Nat /\ remaining_ \in Int /\ active_ \in Int
  /\ generation_ \in 0..(GenMod - 1)

(* From the end of publication to the end of the wait on done_.             *)
InJob == {"wake"} \cup Draining \cup Waiting

(* Tickets of the current job that are not yet subtracted from remaining_:  *)
(* the unserved ones, and those served by a thread about to subtract.       *)
Outstanding ==
  {i \in 0..(chunks_ - 1) :
     \/ i \notin rows[job_]
     \/ \E t \in Threads : pc[t] = "finish" /\ ticket[t] = i}

(* Workers that have taken the job and not yet left it.                     *)
ActiveWorkers == {w \in Workers : pc[w] \in Draining \cup {"leave"}}

(* No thread is inside drain() on a job other than the one whose caller is  *)
(* still in run(): by the time run() returns, or the next job resets the    *)
(* ticket counter, every worker has left (comment at "Wait for the chunks   *)
(* *and* for every worker to leave drain()").                               *)
NoDrainOutsideRun ==
  \A t \in Threads : pc[t] \in Draining \cup {"leave"} =>
    /\ work[t] # NoOne
    /\ job_ = work[t] /\ caller_ = work[t]
    /\ pc[work[t]] \in InJob

(* No id is served twice: a thread about to serve a ticket is the only one  *)
(* holding it, and its row has not been written yet in this call.           *)
TicketsExclusive ==
  \A t \in Threads : pc[t] = "serve" =>
    /\ ticket[t] \in (0..(count[work[t]] - 1)) \ rows[work[t]]
    /\ \A u \in Threads \ {t} :
         pc[u] \in {"serve", "finish"} => ticket[u] # ticket[t]

(* remaining_ counts exactly the outstanding tickets while the job is being *)
(* drained, so it reaches zero once and never wraps below it, and active_   *)
(* counts exactly the workers that have taken the job and not left.         *)
ActiveExact == active_ = Cardinality(ActiveWorkers)
RemainingExact ==
  \A c \in Callers : pc[c] \in InJob => remaining_ = Cardinality(Outstanding)
CountersExact == ActiveExact /\ RemainingExact

(* The pool keeps row_store_lookup's promise: see RowLookup.                *)
Promise == INSTANCE RowLookup WITH busy <- [c \in Callers |-> pc[c] # "idle"]
LookupPromise == Promise!Spec

(* A caller that owns the pool gets out of run(), although no worker need   *)
(* ever take the job and every worker that took it must be waited for.      *)
RunCompletes == \A c \in Callers : pc[c] \in InRun ~> pc[c] = "idle"
-----------------------------------------------------------------------------
(* The inductive invariant behind the safety properties.                    *)
\* Who owns the two mutexes.
LockInv ==
  /\ \A c \in Callers : caller_ = c <=> pc[c] \in InRun
  /\ \A c \in Callers : mutex_ = c <=> pc[c] \in {"chunks", "remaining", "block"}

\* job_ points at the caller that is publishing or waiting, if any.
JobInv ==
  \A c \in Callers : job_ = c <=> pc[c] \in {"chunks", "remaining"} \cup InJob

\* Every drainer drains the current job, and the job is fully published.
DrainInv ==
  /\ \A c \in Callers :
       pc[c] \in Draining \cup Waiting \cup {"unlock"} => work[c] = c
  /\ \A w \in ActiveWorkers : work[w] # NoOne /\ work[w] = job_
                              /\ pc[job_] \in InJob

\* What a call has written so far.
RowsInv ==
  \A c \in Callers :
    /\ rows[c] \subseteq 0..(count[c] - 1)
    /\ pc[c] \in {"enter", "publish", "chunks", "remaining"} => rows[c] = {}
    /\ pc[c] \in {"remaining"} \cup InJob => chunks_ = count[c]
    /\ pc[c] = "serial" => rows[c] \in {{}, 0..(count[c] - 1)}
    /\ pc[c] = "unlock" => rows[c] = 0..(count[c] - 1)

\* Tickets handed out lie below next_ and no two threads hold the same one.
TicketInv ==
  /\ \A c \in Callers : pc[c] \in {"chunks", "remaining"} => next_ = 0
  /\ \A c \in Callers : pc[c] \in InJob => \A i \in rows[c] : i < next_
  /\ \A t \in Threads : pc[t] \in {"bound", "serve", "finish"} => ticket[t] < next_
  /\ \A t \in Threads : pc[t] \in {"serve", "finish"} => ticket[t] < chunks_
  /\ \A t \in Threads : pc[t] \in {"bound", "serve"} => ticket[t] \notin rows[job_]
  /\ \A t \in Threads : pc[t] = "finish" => ticket[t] \in rows[job_]
  /\ \A t, u \in Threads :
       /\ t # u
       /\ pc[t] \in {"bound", "serve", "finish"}
       /\ pc[u] \in {"bound", "serve", "finish"}
       => ticket[t] # ticket[u]

IInv == TypeOK /\ LockInv /\ JobInv /\ DrainInv /\ RowsInv /\ TicketInv /\ CountersExact
=============================================================================
