------------------------------ MODULE MCBenchRun ------------------------------
(* Two arms of an item two at a time; two samples of one arm one by one, with   *)
(* yields; and an arm while others use the engine, which restarts.               *)
EXTENDS BenchRun

CONSTANTS a

MCCalls == {[tasks |-> <<a>>, efforts |-> {75, 100}, n |-> 1, concurrency |-> 2, yields |-> FALSE,
             length |-> 1, foreign |-> 0, served |-> 0, lost |-> 0],
            [tasks |-> <<a>>, efforts |-> {75}, n |-> 2, concurrency |-> 1, yields |-> TRUE,
             length |-> 2, foreign |-> 0, served |-> 0, lost |-> 0],
            [tasks |-> <<a>>, efforts |-> {75}, n |-> 2, concurrency |-> 1, yields |-> FALSE,
             length |-> 1, foreign |-> 1, served |-> 1, lost |-> 2]}
=============================================================================
