------------------------------ MODULE Scheduler ------------------------------
(***************************************************************************)
(* Scheduler.parallel_for (src/uhcr/runtime/scheduler.py): iterations cut  *)
(* into chunks, a thread for each, all joined.  The callback runs the      *)
(* iterations of its range one by one and may raise at any of them.        *)
(***************************************************************************)
EXTENDS Integers, FiniteSets

CONSTANTS
  MaxThreads,  (* bound on num_threads (model only)                        *)
  MaxTotal     (* bound on total_iterations (model only)                   *)

ASSUME SchedulerAssumption == MaxThreads \in Nat \ {0} /\ MaxTotal \in Nat

VARIABLES
  threads,     (* num_threads                                              *)
  total,       (* total_iterations                                         *)
  launched,    (* number of workers started                                *)
  joined,      (* number of workers joined                                 *)
  worker,      (* worker[i]: [next, end, state] of worker i; 0: the caller *)
  forPc,       (* where parallel_for is                                    *)
  ranOf        (* history: ranOf[j]: times iteration j was run             *)

schedulerVars == <<threads, total, launched, joined, worker, forPc, ranOf>>

NoWorker == [next |-> 0, end |-> 0, state |-> "none"]

SchedulerInit ==
  /\ threads \in 1 .. MaxThreads
  /\ total \in 0 .. MaxTotal
  /\ launched = 0 /\ joined = 0
  /\ worker = [i \in 0 .. MaxThreads |-> NoWorker]
  /\ forPc = "called"
  /\ ranOf = [j \in 0 .. MaxTotal |-> 0]

Shortcut == threads <= 1 \/ total <= threads

CallInPlace ==
  /\ forPc = "called" /\ Shortcut
  /\ worker' = [worker EXCEPT ![0] = [next |-> 0, end |-> total, state |-> "running"]]
  /\ forPc' = "inside"
  /\ UNCHANGED <<threads, total, launched, joined, ranOf>>

(* Mutant: the chunk is the quotient, not rounded up.                      *)
FlooredChunk == total \div threads

ChunkSize == (total + threads - 1) \div threads

Begins(i) == i * ChunkSize
Ends(i)   == IF Begins(i) + ChunkSize < total THEN Begins(i) + ChunkSize ELSE total

Fork ==
  /\ forPc = "called" /\ ~Shortcut
  /\ forPc' = "starting"
  /\ UNCHANGED <<threads, total, launched, joined, worker, ranOf>>

StartWorker ==
  /\ forPc = "starting"
  /\ launched < threads /\ Begins(launched) < total
  /\ launched' = launched + 1
  /\ worker' = [worker EXCEPT ![launched'] =
       [next |-> Begins(launched), end |-> Ends(launched), state |-> "running"]]
  /\ UNCHANGED <<threads, total, joined, forPc, ranOf>>

(* The loop is done, or breaks for want of iterations.                     *)
AllStarted ==
  /\ forPc = "starting"
  /\ launched = threads \/ Begins(launched) >= total
  /\ forPc' = "joining"
  /\ UNCHANGED <<threads, total, launched, joined, worker, ranOf>>

Iterate(i) ==
  /\ worker[i].state = "running" /\ worker[i].next < worker[i].end
  /\ ranOf' = [ranOf EXCEPT ![worker[i].next] = @ + 1]
  /\ worker' = [worker EXCEPT ![i].next = @ + 1]
  /\ UNCHANGED <<threads, total, launched, joined, forPc>>

(* The exception ends a worker's thread and is not passed on; that of a    *)
(* callback called in place leaves parallel_for.                           *)
CallbackRaises(i) ==
  /\ worker[i].state = "running"
  /\ worker' = [worker EXCEPT ![i].state = "raised"]
  /\ forPc' = IF i = 0 THEN "raised" ELSE forPc
  /\ UNCHANGED <<threads, total, launched, joined, ranOf>>

CallbackReturns(i) ==
  /\ worker[i].state = "running" /\ worker[i].next >= worker[i].end
  /\ worker' = [worker EXCEPT ![i].state = "returned"]
  /\ forPc' = IF i = 0 THEN "returned" ELSE forPc
  /\ UNCHANGED <<threads, total, launched, joined, ranOf>>

Join ==
  /\ forPc = "joining" /\ joined < launched
  /\ worker[joined + 1].state \in {"returned", "raised"}
  /\ joined' = joined + 1
  /\ UNCHANGED <<threads, total, launched, worker, forPc, ranOf>>

Return ==
  /\ forPc = "joining" /\ joined = launched
  /\ forPc' = "returned"
  /\ UNCHANGED <<threads, total, launched, joined, worker, ranOf>>

SchedulerNext ==
  \/ CallInPlace \/ Fork \/ StartWorker \/ AllStarted \/ Join \/ Return
  \/ \E i \in 0 .. MaxThreads : Iterate(i) \/ CallbackRaises(i) \/ CallbackReturns(i)

SchedulerSpec == SchedulerInit /\ [][SchedulerNext]_schedulerVars

-----------------------------------------------------------------------------
(* Properties.                                                             *)

(* When parallel_for returns no callback is running, and every iteration   *)
(* below the total was run once, or not at all if it comes at or after the *)
(* one at which the callback of its chunk raised; no other ever runs.      *)
Skipped(j) == \E i \in 1 .. launched :
  worker[i].state = "raised" /\ j \in worker[i].next .. worker[i].end - 1

IterationsOnce ==
  /\ \A j \in 0 .. MaxTotal : ranOf[j] <= IF j < total THEN 1 ELSE 0
  /\ forPc = "returned" =>
       /\ \A i \in 0 .. MaxThreads : worker[i].state # "running"
       /\ \A j \in 0 .. total - 1 : ranOf[j] = IF Skipped(j) THEN 0 ELSE 1
=============================================================================
