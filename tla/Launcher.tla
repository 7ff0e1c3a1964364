------------------------------ MODULE Launcher ------------------------------
(***************************************************************************)
(* start.sh: invocations of `start`, `stop` and `restart` on the head, the *)
(* containers of the two ranks they remove and run, the health wait and    *)
(* the external stall watchdog that a boot pauses and on_ready re-arms.    *)
(* No lock keeps two invocations apart.                                    *)
(***************************************************************************)
EXTENDS Naturals, FiniteSets

CONSTANTS Invocations,    \* shells that run start.sh
          MaxConcurrent,  \* bound: invocations at a time
          MaxInterrupts,  \* bound: times Ctrl-C is pressed
          ReadyPolls      \* READY_TIMEOUT in polls of ten seconds

ASSUME LauncherAssumption ==
  /\ IsFiniteSet(Invocations)
  /\ MaxConcurrent \in Nat \ {0} /\ ReadyPolls \in Nat \ {0}
  /\ MaxInterrupts \in Nat

VARIABLES
  pc,        \* where each invocation is
  cmd,       \* its command
  polls,     \* elapsed of wait_for_health, in polls
  misses,    \* worker_fail of wait_for_health
  head,      \* the head's container and the server in it
  worker,    \* the worker's container
  watchdog,  \* the watchdog's container
  unmanaged, \* the last pause, or re-arming, left it as it was
  interrupts \* times Ctrl-C was pressed

vars == <<pc, cmd, polls, misses, head, worker, watchdog, unmanaged, interrupts>>
server == <<head, worker>>
guard == <<watchdog, unmanaged>>
wait == <<polls, misses>>

Commands == {"start", "stop", "restart"}
Steps == {"stop", "rm_stopped", "pause_watchdog", "preflight", "prepare", "rm_head",
          "rm_worker", "run_worker", "run_head", "wait_for_health", "post_ready_warmup", "on_ready"}

\* A head that is up: loading, serving, hung, or restarted by the watchdog.
Up == {"booting", "healthy", "stalled", "rebooting"}

\* The locals of wait_for_health go with it.
Forget(i) == polls' = [polls EXCEPT ![i] = 0] /\ misses' = [misses EXCEPT ![i] = 0]

Goto(i, from, to) == pc[i] = from /\ pc' = [pc EXCEPT ![i] = to]

Init ==
  /\ pc = [i \in Invocations |-> "idle"]
  /\ cmd = [i \in Invocations |-> "start"]
  /\ polls = [i \in Invocations |-> 0] /\ misses = [i \in Invocations |-> 0]
  /\ head = "absent" /\ worker = "absent" /\ watchdog = "running"
  /\ unmanaged = FALSE /\ interrupts = 0

\* pause_watchdog and resume_watchdog are never fatal: with DSV41_MANAGE_WATCHDOG=0,
\* or when docker's inspect, stop or start fails, they leave the watchdog as it is.
Pause == watchdog' \in {watchdog, "stopped"} /\ unmanaged' = (watchdog' # "stopped")
Resume == watchdog' \in {watchdog, "running"} /\ unmanaged' = (watchdog' # "running")

\* docker rm -f ... || true
HeadRemoved == head' \in {head, "absent"}
WorkerRemoved == worker' \in {worker, "absent"}

\* main
Begin(i) ==
  /\ Cardinality({j \in Invocations : pc[j] # "idle"}) < MaxConcurrent
  /\ \E c \in Commands :
       /\ cmd' = [cmd EXCEPT ![i] = c]
       /\ Goto(i, "idle", IF c = "start" THEN "pause_watchdog" ELSE "stop")
  /\ UNCHANGED <<interrupts, wait, server, guard>>

\* stop: the watchdog is paused and the head removed, then the worker.
Stop(i) ==
  /\ Goto(i, "stop", "rm_stopped")
  /\ Pause /\ HeadRemoved
  /\ UNCHANGED <<interrupts, cmd, wait, worker>>

StopWorker(i) ==
  /\ Goto(i, "rm_stopped", IF cmd[i] = "restart" THEN "pause_watchdog" ELSE "idle")
  /\ WorkerRemoved /\ cmd' = [cmd EXCEPT ![i] = "start"]
  /\ UNCHANGED <<interrupts, wait, head, guard>>

pause_watchdog(i) ==
  /\ Goto(i, "pause_watchdog", "preflight")
  /\ Pause
  /\ UNCHANGED <<interrupts, cmd, wait, server>>

\* preflight: a served port ends it, and so may a missing file; a head that is
\* not serving yet has not bound its port.
preflight(i) ==
  /\ \/ head \notin {"healthy", "stalled"} /\ Goto(i, "preflight", "prepare")
     \/ Goto(i, "preflight", "idle")
  /\ UNCHANGED <<interrupts, cmd, wait, server, guard>>

\* ensure_image to write_inner_scripts: the image, the weights and the packed
\* shards, any of which may end the script.
prepare(i) ==
  /\ Goto(i, "prepare", "rm_head") \/ Goto(i, "prepare", "idle")
  /\ UNCHANGED <<interrupts, cmd, wait, server, guard>>

\* launch_cluster: both ranks removed, then files copied and the ranks run; a
\* copy or a run that fails ends the script (set -e), a name in use does.
RemoveHead(i) ==
  /\ Goto(i, "rm_head", "rm_worker")
  /\ HeadRemoved
  /\ UNCHANGED <<interrupts, cmd, wait, worker, guard>>

RemoveWorker(i) ==
  /\ Goto(i, "rm_worker", "run_worker")
  /\ WorkerRemoved
  /\ UNCHANGED <<interrupts, cmd, wait, head, guard>>

RunWorker(i) ==
  /\ \/ worker = "absent" /\ worker' = "running" /\ Goto(i, "run_worker", "run_head")
     \/ Goto(i, "run_worker", "idle") /\ UNCHANGED worker
  /\ UNCHANGED <<interrupts, cmd, wait, head, guard>>

RunHead(i) ==
  /\ \/ head = "absent" /\ head' = "booting" /\ Goto(i, "run_head", "wait_for_health")
     \/ Goto(i, "run_head", "idle") /\ UNCHANGED head
  /\ UNCHANGED <<interrupts, cmd, wait, worker, guard>>

\* One poll of wait_for_health; each way to give up ends the script.
Healthy(i) ==
  /\ head = "healthy" /\ Goto(i, "wait_for_health", "post_ready_warmup")
  /\ Forget(i)
  /\ UNCHANGED <<interrupts, cmd, server, guard>>

\* No log line for DSV41_HANG_SECONDS, or the head's container is not running.
GiveUp(i) ==
  /\ head # "healthy" /\ Goto(i, "wait_for_health", "idle")
  /\ Forget(i)
  /\ UNCHANGED <<interrupts, cmd, server, guard>>

\* Mutant: a worker that answers restarts the clock.
ElapsedSinceMiss(i, answers) == IF answers THEN 0 ELSE polls[i] + 1

Elapsed(i, answers) == polls[i] + 1

WorkerDead(missed) == missed >= 3

\* The worker is asked over ssh: a running one may not answer.
Poll(i) ==
  /\ pc[i] = "wait_for_health" /\ head \in Up \ {"healthy"}
  /\ \E answers \in {TRUE, FALSE} :
       LET missed == IF answers THEN 0 ELSE misses[i] + 1
           spent == Elapsed(i, answers)
       IN /\ answers => worker = "running"
          /\ IF WorkerDead(missed) \/ spent = ReadyPolls
             THEN Goto(i, "wait_for_health", "idle") /\ Forget(i)
             ELSE /\ misses' = [misses EXCEPT ![i] = missed]
                  /\ polls' = [polls EXCEPT ![i] = spent]
                  /\ UNCHANGED pc
  /\ UNCHANGED <<interrupts, cmd, server, guard>>

\* post_ready_warmup is not fatal and looks at nothing.
post_ready_warmup(i) ==
  /\ Goto(i, "post_ready_warmup", "on_ready")
  /\ UNCHANGED <<interrupts, cmd, wait, server, guard>>

\* on_ready: resume_watchdog, then the summary.
on_ready(i) ==
  /\ Goto(i, "on_ready", "idle")
  /\ Resume
  /\ UNCHANGED <<interrupts, cmd, wait, server>>

Step(i) ==
  \/ Stop(i) \/ StopWorker(i)
  \/ pause_watchdog(i) \/ preflight(i) \/ prepare(i)
  \/ RemoveHead(i) \/ RemoveWorker(i) \/ RunWorker(i) \/ RunHead(i)
  \/ Healthy(i) \/ GiveUp(i) \/ Poll(i)
  \/ post_ready_warmup(i) \/ on_ready(i)

\* Mutant: the INT trap re-arms the watchdog.
InterruptRearms(i) ==
  /\ interrupts < MaxInterrupts /\ interrupts' = interrupts + 1
  /\ pc[i] # "idle" /\ pc' = [pc EXCEPT ![i] = "idle"]
  /\ Forget(i) /\ cmd' = [cmd EXCEPT ![i] = "start"]
  /\ watchdog' = "running" /\ unmanaged' = FALSE
  /\ UNCHANGED server

\* Ctrl-C: the INT trap exits and leaves the containers alone.
Interrupt(i) ==
  /\ interrupts < MaxInterrupts /\ interrupts' = interrupts + 1
  /\ pc[i] # "idle" /\ pc' = [pc EXCEPT ![i] = "idle"]
  /\ Forget(i) /\ cmd' = [cmd EXCEPT ![i] = "start"]
  /\ UNCHANGED <<server, guard>>
-----------------------------------------------------------------------------
(* The ranks and the watchdog *)

\* Both ranks have loaded.
Boot ==
  /\ head \in {"booting", "rebooting"} /\ worker = "running"
  /\ head' = "healthy"
  /\ UNCHANGED <<interrupts, pc, cmd, wait, worker, guard>>

\* A rank exits or hangs; without its worker the head hangs.
HeadFails ==
  /\ head \in Up \ {"stalled"} /\ head' \in {"exited", "stalled"}
  /\ UNCHANGED <<interrupts, pc, cmd, wait, worker, guard>>

WorkerFails ==
  /\ worker = "running" /\ worker' = "exited"
  /\ head' = IF head = "healthy" THEN "stalled" ELSE head
  /\ UNCHANGED <<interrupts, pc, cmd, wait, guard>>

\* /metrics did not answer for 180 s, as it does during a boot.
WatchdogRestarts ==
  /\ watchdog = "running" /\ head \in {"booting", "stalled"}
  /\ head' = "rebooting"
  /\ UNCHANGED <<interrupts, pc, cmd, wait, worker, guard>>

Next ==
  \/ \E i \in Invocations : Begin(i) \/ Step(i) \/ Interrupt(i)
  \/ Boot \/ HeadFails \/ WorkerFails \/ WatchdogRestarts

\* A script goes on until it ends; a boot that does not fail comes to an end.
Fairness == (\A i \in Invocations : WF_vars(Step(i)))
            /\ WF_vars(Boot)

Spec == Init /\ [][Next]_vars
FairSpec == Spec /\ Fairness
-----------------------------------------------------------------------------
(* Type invariant. *)
TypeOK ==
  /\ pc \in [Invocations -> Steps \cup {"idle"}]
  /\ cmd \in [Invocations -> Commands]
  /\ polls \in [Invocations -> 0..ReadyPolls] /\ misses \in [Invocations -> 0..2]
  /\ head \in Up \cup {"absent", "exited"}
  /\ worker \in {"absent", "running", "exited"}
  /\ watchdog \in {"running", "stopped"} /\ unmanaged \in BOOLEAN
  /\ interrupts \in 0..MaxInterrupts

(* Nothing but a pause that did not take effect leaves the watchdog armed while *)
(* a head that start.sh launched is still booting: not an earlier invocation    *)
(* that failed, was interrupted, or removed nothing, and no re-arming in between *)
(* ("start/stop pause it and on_ready re-arms it, else it kills the boot         *)
(* mid-load", start.sh:330).                                                     *)
BootUndisturbed == head = "booting" /\ ~unmanaged => watchdog = "stopped"

\* What makes BootUndisturbed inductive when invocations follow one another: one
\* of them runs at a time, what it launches it launches after it saw to the watchdog,
\* and what it has seen healthy does not boot again under start.sh.
Paused == {"preflight", "prepare", "rm_head", "rm_worker", "run_worker", "run_head",
           "wait_for_health", "post_ready_warmup", "on_ready"}
OneAtATime == \A i, j \in Invocations : pc[i] # "idle" /\ pc[j] # "idle" => i = j
SequentialInv ==
  /\ pc \in [Invocations -> Steps \cup {"idle"}]
  /\ OneAtATime /\ BootUndisturbed
  /\ \A i \in Invocations : pc[i] \in Paused => unmanaged \/ watchdog = "stopped"
  /\ \A i \in Invocations : pc[i] \in {"post_ready_warmup", "on_ready"} => head # "booting"

(* Every invocation ends, whatever the ranks and the ssh link do: no start      *)
(* waits for a server that will not come (READY_TIMEOUT, wait_for_health).      *)
InvocationEnds == \A i \in Invocations : pc[i] # "idle" ~> pc[i] = "idle"

(* The watchdog is "re-armed by on_ready once the server is healthy"            *)
(* (start.sh:1929): no server stays healthy with the watchdog paused for good,  *)
(* unless docker would not start it, of which start.sh warns.                   *)
RearmedOnceHealthy ==
  head = "healthy" ~>
    (watchdog = "running" \/ unmanaged \/ head # "healthy" \/ worker # "running")
=============================================================================
