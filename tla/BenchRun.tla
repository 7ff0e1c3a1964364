------------------------------- MODULE BenchRun -------------------------------
(***************************************************************************)
(* scripts/deepinfer_bench.py: a resumable benchmark over a shared server.   *)
(*                                                                         *)
(* The main thread (run_loop) harvests dead rollouts, checks the budgets,    *)
(* polls for foreign use, starts a rollout, sleeps.  Each rollout is a       *)
(* thread that streams one completion and may be aborted.  An invocation     *)
(* ends when nothing is left, at a budget, by Ctrl-C or by a crash; the next *)
(* one resumes from raw.jsonl and meta.json.                                 *)
(*                                                                         *)
(* Time is a choice: how long the engine was quiet or busy, and when the     *)
(* time budget is over.  The texts are left out; of a row its key, status    *)
(* and tokens remain.                                                        *)
(***************************************************************************)
EXTENDS Integers, FiniteSets, SequencesExt

CONSTANTS Calls,        \* what a command line plans: records of tasks (a sequence), efforts,
                        \* n, concurrency (1 or 2), yields, a BOOLEAN, and
                        \* what the engine has served already, and three bounds: length, the
                        \* chunks of a rollout, one token each; foreign, the prompt tokens of
                        \* other users; lost, those that engine restarts take off the counter
          PromptTokens, \* of each request
          Budget,       \* --budget-tokens
          MaxErrors,    \* --max-errors
          MaxCalls,     \* bound: invocations
          MaxAttempts    \* bound: nobody makes an invocation yield after so many rollouts

ASSUME BenchAssumption ==
  /\ \A c \in Calls : /\ c.tasks \in Seq(ToSet(c.tasks)) /\ IsInjective(c.tasks)
                      /\ c.n \in Nat \ {0} /\ IsFiniteSet(c.efforts)
                      /\ c.concurrency \in {1, 2} /\ c.yields \in BOOLEAN /\ c.length \in Nat \ {0}
                      /\ {c.foreign, c.served, c.lost} \subseteq Nat
  /\ PromptTokens \in Nat \ {0} /\ Budget \in Nat
  /\ MaxErrors \in Nat \ {0} /\ MaxCalls \in Nat /\ MaxAttempts \in Nat

Statuses == {"done", "yielded", "budget", "error", "interrupted"}
Keys == UNION {{<<t, e, s>> : t \in ToSet(c.tasks), e \in c.efforts, s \in 0..(c.n - 1)} : c \in Calls}

VARIABLES
  \* on disk
  rows,      \* raw.jsonl: how many rows of each key say done; the others are only counted
  torn,      \* its last line is incomplete
  meta,      \* meta.json: tasks, efforts and n_sample, merged
  \* the main thread
  pc,        \* "off", "loop", "harvest", "write", "account", "budget", "poll", "start", "launch"
             \* or "interrupt"
  set,       \* the command line of the invocation
  todo,      \* the keys this invocation was to run
  failed,    \* those whose last attempt was an error
  pending, inflight, spent, errorsInRow, stop,
  quiet,     \* the poll found the engine quiet for long enough, since the last row too
  harvested, \* the row between its removal from inflight and its accounting
  late,      \* the time budget is over
  exit,      \* how the last invocation ended: "none", "ok", "interrupted", "raised" or "killed"
  \* the rollouts, and the engine's side
  ro, calls,
  attempts, recorded,  \* rollouts started, and rows written, by this invocation
  \* ForeignDetector, the engine's counter it reads, and what a reader cannot see
  polled,    \* prev is not None: a poll was answered
  prev, credit, counter,
  ours,      \* prompt tokens of our requests that the engine took
  foreign,   \* those of others since the first answered poll,
  lost,      \* and what restarts of the engine took off the counter since then
  flagged    \* tokens that were called foreign
disk == <<rows, torn, meta>>
main == <<pc, set, todo, failed, pending, inflight, spent, errorsInRow, stop, quiet, harvested, late, exit>>
detector == <<polled, prev, credit, counter, ours, foreign, lost, flagged>>
tally == <<attempts, recorded>>
vars == <<disk, main, ro, calls, tally, detector>>

NoRollout == [at |-> "none", tokens |-> 0, finished |-> FALSE, error |-> FALSE, abort |-> "", over |-> FALSE]
NoRow == [key |-> <<>>, status |-> "", tokens |-> 0, over |-> FALSE]
NoRows == [k \in Keys |-> 0]
NoMeta == [tasks |-> {}, efforts |-> {}, n |-> 0]

Init ==
  /\ rows = NoRows /\ torn = FALSE /\ meta = NoMeta
  /\ pc = "off" /\ set \in Calls /\ todo = {} /\ failed = {} /\ pending = <<>> /\ inflight = <<>> /\ spent = 0
  /\ errorsInRow = 0 /\ stop = FALSE /\ quiet = FALSE /\ harvested = NoRow /\ late = FALSE /\ exit = "none"
  /\ ro = [k \in Keys |-> NoRollout] /\ calls = 0 /\ attempts = 0 /\ recorded = 0
  /\ polled = FALSE /\ prev = 0 /\ credit = 0 /\ counter = 0 /\ ours = 0 /\ foreign = 0 /\ lost = 0 /\ flagged = 0

-----------------------------------------------------------------------------
(* The plan, and what a resumed invocation takes from the disk.             *)

\* plan_jobs: sample-major, the arms of an item back to back in some order.
Plan(c, arms) ==
  LET width == Len(arms)
      count == c.n * Len(c.tasks) * width
  IN [i \in 1..count |->
        LET j == i - 1
        IN <<c.tasks[((j \div width) % Len(c.tasks)) + 1], arms[(j % width) + 1], j \div (width * Len(c.tasks))>>]
Arms(efforts) == {a \in [1..Cardinality(efforts) -> efforts] : ToSet(a) = efforts}
\* Mutant: the rows on disk are not looked at.
DoneKeysNone == {}
DoneKeys == {k \in Keys : rows[k] > 0}
\* [j for j in jobs if j.key not in done]
Remaining(jobs, done) ==
  LET upto[i \in 0..Len(jobs)] ==
        IF i = 0 THEN <<>> ELSE IF jobs[i] \in done THEN upto[i - 1] ELSE Append(upto[i - 1], jobs[i])
  IN upto[Len(jobs)]
Merged(c) ==
  [tasks |-> meta.tasks \cup ToSet(c.tasks), efforts |-> meta.efforts \cup c.efforts,
   n |-> IF meta.n > c.n THEN meta.n ELSE c.n]

\* cmd_run, to the first round of the loop.  read_jsonl raises on a torn line;
\* an invocation with nothing to do leaves meta.json alone.
Call(c, arms) ==
  LET jobs == Remaining(Plan(c, arms), DoneKeys)
  IN /\ pc = "off" /\ calls < MaxCalls
     /\ calls' = calls + 1
     /\ IF torn \/ jobs = <<>>
        THEN /\ exit' = IF torn THEN "raised" ELSE "ok"
             /\ todo' = {} /\ failed' = {} /\ stop' = FALSE
             /\ UNCHANGED <<disk, pc, set, pending, inflight, spent, errorsInRow, quiet, harvested, late, ro, tally, detector>>
        ELSE /\ meta' = Merged(c)
             /\ pc' = "loop" /\ todo' = ToSet(jobs) /\ failed' = {} /\ pending' = jobs /\ inflight' = <<>> /\ spent' = 0
             /\ set' = c
             /\ errorsInRow' = 0 /\ stop' = FALSE /\ quiet' = FALSE /\ harvested' = NoRow /\ late' = FALSE
             /\ exit' = "none" /\ ro' = [k \in Keys |-> NoRollout]
             /\ attempts' = 0 /\ recorded' = 0
             /\ polled' = FALSE /\ prev' = 0 /\ credit' = 0 /\ counter' = c.served
             /\ ours' = 0 /\ foreign' = 0 /\ lost' = 0 /\ flagged' = 0
             /\ UNCHANGED <<rows, torn>>

-----------------------------------------------------------------------------
(* The rollout's thread.                                                    *)

\* One sum over the rollouts in flight.  A row taken out counts again once it
\* is accounted.
SpentWith(r) ==
  spent + (IF inflight = <<>> THEN 0 ELSE r[inflight[1]].tokens)
        + (IF Len(inflight) < 2 THEN 0 ELSE r[inflight[2]].tokens)
MadeWith(r) == SpentWith(r) + harvested.tokens
\* Mutant: what earlier rollouts cost is forgotten.
OverBudgetAlone(r) == SpentWith(r) > Budget + spent
OverBudget(r) == SpentWith(r) > Budget

StatusOf(r) == IF r.abort # "" THEN r.abort ELSE IF r.finished /\ ~r.error THEN "done" ELSE "error"

\* abort(): the first reason stays, and a socket that exists is shut down.
\* Between the connection object and its socket there is none to shut down.
Aborted(r, reason) ==
  IF r.abort # "" THEN r
  ELSE [r EXCEPT !.abort = reason, !.at = IF r.at = "open" THEN "shut" ELSE r.at]
AbortAll(reason) == ro' = [k \in Keys |-> IF \E i \in DOMAIN inflight : inflight[i] = k THEN Aborted(ro[k], reason) ELSE ro[k]]

\* _stream takes the lock, looks for an abort and makes the connection.
Connect(k) ==
  /\ ro[k].at = "started"
  /\ ro' = [ro EXCEPT ![k].at = IF ro[k].abort # "" THEN "dead" ELSE "opening"]
  /\ UNCHANGED <<disk, main, calls, tally, detector>>

\* The request is sent and accepted: the engine counts its prompt.
Accept(k) ==
  /\ ro[k].at = "opening"
  /\ ro' = [ro EXCEPT ![k].at = "open"] /\ counter' = counter + PromptTokens /\ ours' = ours + PromptTokens
  /\ UNCHANGED <<disk, main, calls, tally, polled, prev, credit, foreign, lost, flagged>>

\* A chunk with its usage: the budget is checked before the rest of it is read.
Chunk(k, last) ==
  /\ ro[k].at = "open" /\ ro[k].tokens < set.length /\ ~ro[k].finished
  /\ ro[k].tokens = set.length - 1 => last
  /\ LET after == [ro EXCEPT ![k].tokens = @ + 1]
     IN ro' = IF OverBudget(after)
              THEN [after EXCEPT ![k].abort = IF @ = "" THEN "budget" ELSE @, ![k].at = "dead"]
              ELSE [after EXCEPT ![k].finished = last, ![k].over = MadeWith(after) > Budget]
  /\ UNCHANGED <<disk, main, calls, tally, detector>>

\* [DONE], the end of a shut socket, or any exception; a stall is one.
End(k, broken) ==
  /\ ro[k].at \in {"opening", "open", "shut"}
  /\ ~broken => ro[k].finished \/ ro[k].at = "shut"
  /\ ro' = [ro EXCEPT ![k].at = "dead", ![k].error = broken]
  /\ UNCHANGED <<disk, main, calls, tally, detector>>

-----------------------------------------------------------------------------
(* A round of run_loop.                                                     *)

\* The process is gone, and what it kept in memory.
Gone(how) ==
  /\ pc' = "off" /\ exit' = how
  /\ pending' = <<>> /\ inflight' = <<>> /\ harvested' = NoRow /\ late' = FALSE
  /\ spent' = 0 /\ errorsInRow' = 0 /\ quiet' = FALSE /\ ro' = [k \in Keys |-> NoRollout]
  /\ polled' = FALSE /\ prev' = 0 /\ credit' = 0 /\ counter' = 0
  /\ ours' = 0 /\ foreign' = 0 /\ lost' = 0 /\ flagged' = 0

More == (pending # <<>> /\ ~stop) \/ inflight # <<>>
Round ==
  /\ pc = "loop"
  /\ IF More
     THEN pc' = "harvest" /\ UNCHANGED <<exit, pending, inflight, spent, errorsInRow, quiet, harvested, late, ro, detector>>
     ELSE Gone("ok")
  /\ UNCHANGED <<disk, set, todo, failed, stop, calls, tally>>

Dead == {i \in DOMAIN inflight : ro[inflight[i]].at = "dead"}
RowOf(k) == [key |-> k, status |-> StatusOf(ro[k]), tokens |-> ro[k].tokens, over |-> ro[k].over]

\* del inflight[job]; row = ro.row()
Harvest ==
  /\ pc = "harvest"
  /\ IF Dead = {} THEN pc' = "budget" /\ UNCHANGED <<inflight, harvested, ro>>
     ELSE \E i \in Dead :
            /\ \A j \in Dead : i <= j
            /\ inflight' = RemoveAt(inflight, i) /\ harvested' = RowOf(inflight[i]) /\ pc' = "write"
            /\ ro' = [ro EXCEPT ![inflight[i]] = NoRollout]
  /\ UNCHANGED <<disk, set, todo, failed, pending, spent, errorsInRow, stop, quiet, late, exit, calls, tally, detector>>

Written(k, s) == IF s = "done" THEN [rows EXCEPT ![k] = @ + 1] ELSE rows
Write ==
  /\ pc = "write"
  /\ rows' = Written(harvested.key, harvested.status) /\ pc' = "account"
  /\ recorded' = recorded + 1
  /\ UNCHANGED <<torn, meta, set, todo, failed, pending, inflight, spent, errorsInRow, stop, quiet, harvested, late, exit, ro, calls, attempts, detector>>

Requeued(status) == status = "yielded"
Account ==
  LET s == harvested.status
  IN /\ pc = "account"
     /\ spent' = spent + harvested.tokens
     /\ pending' = IF Requeued(s) THEN <<harvested.key>> \o pending ELSE pending
     /\ errorsInRow' = IF s = "done" THEN 0 ELSE IF s = "error" THEN errorsInRow + 1 ELSE errorsInRow
     /\ failed' = IF s = "error" THEN failed \cup {harvested.key} ELSE failed \ {harvested.key}
     /\ stop' = (stop \/ errorsInRow' >= MaxErrors)
     /\ harvested' = NoRow /\ pc' = "harvest"
     /\ UNCHANGED <<disk, set, todo, inflight, quiet, late, exit, ro, calls, tally, detector>>

\* Mutant: the clock is not looked at.
ExhaustedTokens == spent >= Budget \/ OverBudget(ro)
Exhausted == ExhaustedTokens \/ late
Budgets ==
  /\ pc = "budget" /\ pc' = "poll"
  /\ stop' = (stop \/ Exhausted)
  /\ IF ~stop /\ spent < Budget /\ Exhausted THEN AbortAll("budget") ELSE UNCHANGED ro
  /\ UNCHANGED <<disk, set, todo, failed, pending, inflight, spent, errorsInRow, quiet, harvested, late, exit, calls, tally, detector>>

\* ForeignDetector.update.  An engine that restarted has counted fewer than at the
\* last poll, and the credit grows.
Excess(delta) == IF delta > credit THEN delta - credit ELSE 0

\* Mutant: a credit lasts to the next poll.
CreditLeftNone(delta) == 0

CreditLeft(delta) == IF credit > delta THEN credit - delta ELSE 0

\* The first answered poll only takes the baseline.
Baseline ==
  /\ ~polled /\ polled' = TRUE /\ prev' = counter
  /\ foreign' = 0 /\ lost' = 0
  /\ UNCHANGED <<credit, flagged>>

Compare ==
  /\ polled /\ prev' = counter
  /\ flagged' = flagged + Excess(counter - prev) /\ credit' = CreditLeft(counter - prev)
  /\ UNCHANGED <<polled, foreign, lost>>

Update == Baseline \/ Compare

\* gauges: what running + waiting and the proxy's log say, or that the poll
\* failed, in which case the counter is not read.  settled: the engine was
\* quiet for the idle window; sustained: busy for --yield-after-s.
Poll(answered, gauges, sustained, settled) ==
  LET busy == ~answered \/ gauges \/ (polled /\ counter - prev > credit)
  IN /\ pc = "poll" /\ pc' = "start"
     /\ sustained => busy /\ attempts < MaxAttempts
     /\ settled => ~busy
     /\ IF answered THEN Update ELSE UNCHANGED <<polled, prev, credit, foreign, lost, flagged>>
     /\ quiet' = settled
     /\ IF sustained /\ set.yields THEN AbortAll("yielded") ELSE UNCHANGED ro
     /\ UNCHANGED <<disk, set, todo, failed, pending, inflight, spent, errorsInRow, stop, harvested, late, exit, calls, tally, counter, ours>>

Room == Len(inflight) < set.concurrency

\* The credit is given, and the rollout is in flight, before its thread runs.
Start ==
  /\ pc = "start"
  /\ IF ~stop /\ pending # <<>> /\ Room /\ quiet
     THEN /\ ro' = [ro EXCEPT ![Head(pending)] = [NoRollout EXCEPT !.at = "new"]]
          /\ credit' = credit + PromptTokens
          /\ inflight' = Append(inflight, Head(pending)) /\ pending' = Tail(pending) /\ pc' = "launch"
          /\ attempts' = attempts + 1
     ELSE pc' = "loop" /\ UNCHANGED <<ro, credit, inflight, pending, attempts>>
  /\ quiet' = FALSE
  /\ UNCHANGED <<disk, set, todo, failed, spent, errorsInRow, stop, harvested, late, exit, calls, recorded, polled, prev, counter, ours, foreign, lost, flagged>>

Launch ==
  /\ pc = "launch" /\ pc' = "loop"
  /\ ro' = [ro EXCEPT ![Last(inflight)].at = "started"]
  /\ UNCHANGED <<disk, set, todo, failed, pending, inflight, spent, errorsInRow, stop, quiet, harvested, late, exit, calls, tally, detector>>

-----------------------------------------------------------------------------
(* Ctrl-C, a second one, and a crash.                                       *)

InLoop == {"loop", "harvest", "write", "account", "budget", "poll", "start", "launch"}

Interrupt ==
  /\ pc \in InLoop /\ pc' = "interrupt"
  /\ AbortAll("interrupted")
  /\ UNCHANGED <<disk, set, todo, failed, pending, inflight, spent, errorsInRow, stop, quiet, harvested, late, exit, calls, tally, detector>>

\* join(10) and the row, one rollout after another: the thread may outlive the
\* ten seconds, and joining a thread that was never started raises.
JoinOne ==
  LET k == Head(inflight)
  IN /\ pc = "interrupt"
     /\ IF inflight = <<>> \/ ro[k].at = "new"
        THEN Gone(IF inflight = <<>> THEN "interrupted" ELSE "raised") /\ UNCHANGED <<rows, recorded>>
        ELSE /\ rows' = Written(k, StatusOf(ro[k])) /\ inflight' = Tail(inflight) /\ recorded' = recorded + 1
             /\ UNCHANGED <<pc, exit, pending, spent, errorsInRow, quiet, harvested, late, ro, detector>>
     /\ UNCHANGED <<torn, meta, set, todo, failed, stop, calls, attempts>>

\* The process is killed, by a signal or a second Ctrl-C; a line that was being
\* written may stay incomplete.
Kill(tear) ==
  /\ pc \in InLoop \cup {"interrupt"}
  /\ tear => pc \in {"write", "interrupt"}
  /\ torn' = (torn \/ tear) /\ Gone("killed")
  /\ UNCHANGED <<rows, meta, set, todo, failed, stop, calls, tally>>

-----------------------------------------------------------------------------
(* Others use the engine; time passes.                                      *)

Foreign ==
  /\ pc # "off" /\ foreign < set.foreign
  /\ foreign' = foreign + 1 /\ counter' = counter + 1
  /\ UNCHANGED <<disk, main, ro, calls, tally, polled, prev, credit, ours, lost, flagged>>

\* Another vLLM counts from zero.  A stream that this cuts ends as any that breaks.
EngineRestart ==
  /\ pc # "off" /\ counter > 0 /\ lost + counter <= set.lost
  /\ counter' = 0 /\ lost' = lost + counter
  /\ UNCHANGED <<disk, main, ro, calls, tally, polled, prev, credit, ours, foreign, flagged>>

TimeOver ==
  /\ pc \in InLoop /\ ~late /\ ~stop /\ late' = TRUE
  /\ UNCHANGED <<disk, pc, set, todo, failed, pending, inflight, spent, errorsInRow, stop, quiet, harvested, exit, ro, calls, tally, detector>>

Polls == \E answered, gauges, sustained, settled \in BOOLEAN : Poll(answered, gauges, sustained, settled)
Loop == Round \/ Harvest \/ Write \/ Account \/ Budgets \/ Polls \/ Start \/ Launch
Stream(k) == Connect(k) \/ Accept(k) \/ (\E last \in BOOLEAN : Chunk(k, last)) \/ (\E broken \in BOOLEAN : End(k, broken))
\* After an interrupt each rollout has its reason, and nothing its thread still
\* does changes the status of its row.
Running == {k \in Keys : pc \in InLoop /\ ro[k].at \notin {"none", "new", "dead"}}

Next ==
  \/ \E c \in Calls : \E arms \in Arms(c.efforts) : Call(c, arms)
  \/ Loop \/ \E k \in Running : Stream(k)
  \/ Interrupt \/ JoinOne \/ (\E tear \in BOOLEAN : Kill(tear))
  \/ Foreign \/ EngineRestart \/ TimeOver

Spec == Init /\ [][Next]_vars

\* The interpreter runs the main thread and the rollouts; a socket answers or
\* stalls into its timeout; time passes.  Nothing makes the engine quiet.
FairSpec ==
  /\ Spec /\ WF_vars(Loop) /\ WF_vars(JoinOne) /\ WF_vars(TimeOver)
  /\ \A k \in Keys : WF_vars(k \in Running /\ Stream(k))

-----------------------------------------------------------------------------
TypeOK ==
  /\ rows \in [Keys -> Nat] /\ torn \in BOOLEAN
  /\ meta.n \in Nat
  /\ pc \in InLoop \cup {"off", "interrupt"} /\ set \in Calls
  /\ todo \subseteq Keys /\ Len(inflight) <= 2
  /\ pc # "off" => Len(inflight) <= set.concurrency /\ ToSet(inflight \o pending) \subseteq todo
  /\ spent \in Nat /\ errorsInRow \in 0..MaxErrors + 1 /\ {stop, quiet, late} \subseteq BOOLEAN
  /\ exit \in {"none", "ok", "interrupted", "raised", "killed"}
  /\ \A k \in Keys : /\ ro[k].at \in {"none", "new", "started", "opening", "open", "shut", "dead"}
                     /\ ro[k].tokens \in Nat /\ ro[k].abort \in Statuses \cup {""}
  /\ {prev, credit, counter, ours, foreign, lost, flagged, attempts, recorded, calls} \subseteq Nat /\ polled \in BOOLEAN

\* "Rerunning skips every (task, effort, sample) that already finished": over
\* resumptions, yields, crashes and interrupts no key is scored twice.
DoneOnce == \A k \in Keys : rows[k] <= 1

\* "A rollout that would cross either budget is ... never scored": with one
\* rollout at a time none that finished past the token budget counts as done.
BudgetHard == set.concurrency = 1 /\ harvested.over => harvested.status # "done"

\* "One row per attempt": an invocation that returns has a row for each rollout
\* it started; Ctrl-C may lose the one that was between inflight and the file.
AttemptsRecorded ==
  /\ pc = "off" /\ exit = "ok" /\ todo # {} => recorded = attempts
  /\ pc = "off" /\ exit = "interrupted" => recorded <= attempts /\ attempts <= recorded + 1

\* An invocation that ends without a reason to stop has finished what it was to
\* run, but for the rollouts whose last attempt failed: a yield loses nothing.
NothingForgotten ==
  pc = "off" /\ exit = "ok" /\ ~stop => \A k \in todo : rows[k] = 1 \/ k \in failed

\* summarize_arm calls an arm complete exactly when every item any invocation
\* planned has every sample any invocation planned.
ArmRows(e) == {k \in DoneKeys : k[2] = e /\ k[1] \in meta.tasks}
CoverageComplete(e) ==
  /\ Cardinality(ArmRows(e)) = Cardinality(meta.tasks) * meta.n
  /\ {k[1] : k \in ArmRows(e)} = meta.tasks
CoverageTrue ==
  \A e \in meta.efforts : CoverageComplete(e) <=> \A t \in meta.tasks, s \in 0..(meta.n - 1) : <<t, e, s>> \in DoneKeys

\* The rows of the directory are the attempts that were made, each scored once,
\* and the score knows when they are all there.
RowsExact == TypeOK /\ DoneOnce /\ AttemptsRecorded /\ NothingForgotten /\ CoverageTrue

\* Once a first poll gave the baseline, the prompt counter never accuses our own
\* prompts; and foreign tokens go unseen only until the next poll, under the credit
\* of requests the engine did not take, or under what its restarts took off the counter.
DetectorExact ==
  /\ flagged <= foreign
  /\ polled => foreign <= flagged + (counter - prev) + (PromptTokens * attempts - ours) + lost

\* Foreign use for ever, a server that stalls, rollouts that fail: the time
\* budget ends the invocation.
InvocationEnds == pc # "off" ~> pc = "off"

-----------------------------------------------------------------------------
(* What BenchRunProofs shows every step to keep, and RowsExact, BudgetHard   *)
(* and DetectorExact follow from.                                           *)

Tasks == UNION {ToSet(c.tasks) : c \in Calls}
Efforts == UNION {c.efforts : c \in Calls}
Rollouts == [at : {"none", "new", "started", "opening", "open", "shut", "dead"}, tokens : Nat, finished : BOOLEAN,
             error : BOOLEAN, abort : {"", "budget", "yielded", "interrupted"}, over : BOOLEAN]
Rows == [key : Keys \cup {<<>>}, status : Statuses \cup {""}, tokens : Nat, over : BOOLEAN]

DiskType ==
  rows \in [Keys -> Nat] /\ torn \in BOOLEAN /\ meta \in [tasks : SUBSET Tasks, efforts : SUBSET Efforts, n : Nat]
LoopType ==
  /\ pc \in InLoop \cup {"off", "interrupt"} /\ set \in Calls /\ failed \in SUBSET Keys /\ spent \in Nat
  /\ errorsInRow \in Nat /\ stop \in BOOLEAN /\ quiet \in BOOLEAN /\ late \in BOOLEAN
  /\ exit \in {"none", "ok", "interrupted", "raised", "killed"} /\ harvested \in Rows
QueueType == todo \in SUBSET Keys /\ pending \in Seq(todo) /\ inflight \in Seq(todo)
RolloutType == ro \in [Keys -> Rollouts]
CountType ==
  /\ calls \in Nat /\ attempts \in Nat /\ recorded \in Nat
  /\ prev \in Nat /\ credit \in Nat /\ counter \in Nat
  /\ ours \in Nat /\ foreign \in Nat /\ lost \in Nat /\ flagged \in Nat
TypeInv == DiskType /\ LoopType /\ QueueType /\ RolloutType /\ CountType

\* Where a key of this invocation is: waiting, in flight, or in the row between
\* the two and the file, in one of them at a time.
Holding == IF harvested = NoRow THEN 0 ELSE 1
RowPlace ==
  /\ pc = "off" => pending = <<>> /\ inflight = <<>> /\ errorsInRow = 0
  /\ pc \in {"write", "account"} => harvested.key \in todo /\ harvested.status \in Statuses \ {"interrupted"}
  /\ pc \notin {"write", "account", "interrupt"} => harvested = NoRow
  /\ pc = "launch" => inflight # <<>>
RoomLeft == Len(inflight) + Holding <= set.concurrency
KeyPlace ==
  /\ IsInjective(pending) /\ IsInjective(inflight) /\ ToSet(pending) \cap ToSet(inflight) = {}
  /\ harvested.key \notin ToSet(pending) \cup ToSet(inflight)
RolloutPlace ==
  pc # "interrupt" => \A k \in Keys : (k \notin ToSet(inflight) => ro[k] = NoRollout) /\ ro[k].abort # "interrupted"
PlaceInv == RowPlace /\ RoomLeft /\ KeyPlace /\ RolloutPlace

\* A key that is still to be written has no row.
ScoreInv ==
  /\ \A k \in Keys : rows[k] <= 1
  /\ \A k \in ToSet(pending) \cup ToSet(inflight) : rows[k] = 0
  /\ pc = "write" => rows[harvested.key] = 0
  /\ pc = "account" => (rows[harvested.key] = 1 <=> harvested.status = "done")

\* Errors stop the starts; those in flight may still fail.
ErrorInv == errorsInRow >= MaxErrors => stop /\ errorsInRow + Len(inflight) + Holding <= MaxErrors + 1

\* A key with a row, or to be run, is one that meta.json plans.
Planned(k) == k[1] \in meta.tasks /\ k[2] \in meta.efforts /\ k[3] < meta.n
CoverInv ==
  /\ IsFiniteSet(meta.tasks) /\ (meta.n = 0 => meta.efforts = {})
  /\ \A k \in DoneKeys : Planned(k)
  /\ pc # "off" => \A k \in todo : Planned(k)

TallyInv ==
  /\ pc \in InLoop => recorded + Len(inflight) + (IF pc = "write" THEN 1 ELSE 0) = attempts
  /\ pc = "interrupt" => /\ recorded + Len(inflight) <= attempts
                         /\ attempts <= recorded + Len(inflight) + 1
  /\ AttemptsRecorded

\* A key is lost once the row of its aborted rollout is accounted.  That takes a
\* budget, which the round then sees.
Lost(k) == k \notin ToSet(pending) \cup ToSet(inflight) \cup failed \cup {harvested.key} /\ rows[k] = 0
ForgetInv ==
  /\ pc \in InLoop /\ ~stop =>
       /\ \A k \in todo : Lost(k) => pc \in {"harvest", "write", "account", "budget"} /\ MadeWith(ro) > Budget
       /\ \A k \in Keys : ro[k].abort = "budget" => MadeWith(ro) > Budget
       /\ harvested.status = "budget" => MadeWith(ro) > Budget
  /\ NothingForgotten

\* Alone in flight, nothing is between a rollout and the check of its tokens.
AloneInv == set.concurrency = 1 => ~harvested.over /\ \A k \in Keys : ~ro[k].over

\* The credit is that of the requests no poll has seen yet.
Unsent(k) == IF ro[k].at \in {"new", "started", "opening"} THEN 1 ELSE 0
UnsentAll == (IF inflight = <<>> THEN 0 ELSE Unsent(inflight[1])) + (IF Len(inflight) < 2 THEN 0 ELSE Unsent(inflight[2]))
CreditInv ==
  /\ flagged <= foreign
  /\ pc = "off" => ~polled
  /\ pc # "off" => ours + PromptTokens * UnsentAll <= PromptTokens * attempts
  /\ pc # "off" /\ ~polled => attempts = 0 /\ credit = 0 /\ flagged = 0
  /\ polled => credit + prev + ours + foreign = counter + lost + PromptTokens * attempts + flagged
  /\ pc = "launch" => ro[Last(inflight)].at = "new"

\* A rollout starts only after a poll that was answered.
QuietInv == polled \in BOOLEAN /\ (quiet => polled)

IInv == TypeInv /\ PlaceInv /\ ScoreInv /\ ErrorInv /\ CoverInv /\ TallyInv /\ ForgetInv /\ AloneInv /\ QuietInv /\ CreditInv
=============================================================================
