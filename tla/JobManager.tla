----------------------------- MODULE JobManager -----------------------------
(***************************************************************************)
(* The JobManager of src/uhcr/network/jobs.py, used by any number of       *)
(* threads.  Every mutator takes the manager's lock and then assigns the   *)
(* fields of the Job one Python statement at a time.  The lock keeps other *)
(* mutators out, but get_job returns the live Job, so every intermediate   *)
(* state is visible to whoever holds a reference: each assignment is a     *)
(* step of its own.                                                        *)
(*                                                                         *)
(* Taking the lock, the early returns and exceptions, and the first        *)
(* assignment are one step: nothing can be observed between them.  A call  *)
(* that raises (unknown id, refused transition) or returns early (cancel   *)
(* of a finished job) changes nothing and is a stutter.                    *)
(***************************************************************************)
EXTENDS Integers

CONSTANTS
  JobIds,         (* UUIDs submit_job may draw                             *)
  Workers,        (* worker ids given to start_job                         *)
  Results,        (* byte strings given to complete_job                    *)
  Errors,         (* texts given to fail_job                               *)
  Cancelled,      (* "Job cancelled (timeout)", the text cancel_job writes *)
  NoValue,        (* None                                                  *)
  Timeouts,       (* values clients pass as timeout                        *)
  DefaultTimeout, (* JobManager(default_timeout)                           *)
  MaxClock        (* bound on the wall clock (model only)                  *)

ASSUME ValuesAssumption ==
  /\ NoValue \notin JobIds \cup Workers \cup Results \cup Errors \cup {Cancelled}
  /\ Results \cap (Errors \cup {Cancelled}) = {}

ASSUME TimeAssumption ==
  /\ Timeouts \subseteq Int
  /\ DefaultTimeout \in Nat
  /\ MaxClock \in Nat

VARIABLES
  jobs,           (* the keys of _jobs                                     *)
  status,         (* Job.status; "absent" before the object exists         *)
  workerId, submittedAt, startedAt, completedAt, result, error,
  timeoutSeconds, (* the other fields of Job, each a function of the id    *)
  call,           (* the mutator inside the lock and where it stands       *)
  clock           (* datetime.now(timezone.utc)                            *)

outcomeVars == <<result, error>>
stampVars   == <<startedAt, completedAt>>
birthVars   == <<jobs, submittedAt, timeoutSeconds>>
jobVars     == <<birthVars, status, workerId, stampVars, outcomeVars>>
vars        == <<jobVars, call, clock>>

-----------------------------------------------------------------------------
(* State machine tables. *)

Statuses == {"queued", "running", "completed", "failed", "timeout"}
Terminal == {"completed", "failed", "timeout"}
Active   == {"queued", "running"}

(* Mutant: a late answer is still accepted after the timeout.              *)
ReopenedTransitions ==
  ({"queued"} \X {"running"}) \cup ({"running", "timeout"} \X Terminal)

(* Mutant: a second worker may start a job that already runs.              *)
RestartTransitions ==
  ({"queued", "running"} \X {"running"}) \cup ({"running"} \X Terminal)

(* Mutant: a failed job may be retried in place.                           *)
RequeueTransitions ==
  ({"queued", "failed"} \X {"running"}) \cup ({"running"} \X Terminal)

(* Mutant: a queued job may be settled without having run.                 *)
EagerTransitions ==
  ({"queued"} \X {"running"}) \cup ({"queued", "running"} \X Terminal)

(* _VALID_TRANSITIONS, as a set of pairs.                                  *)
ValidTransitions ==
  ({"queued"} \X {"running"}) \cup ({"running"} \X Terminal)

NoTime == -1
Times  == Nat \cup {NoTime}

(* Mutant: the default is never substituted. *)
RawTimeout(t) == t

EffectiveTimeout(t) == IF t > 0 THEN t ELSE DefaultTimeout

-----------------------------------------------------------------------------
(* The lock: free, or held by one call that still has assignments to make. *)

Idle     == [op |-> "none", id |-> NoValue, val |-> NoValue, pc |-> "free"]
LockFree == call = Idle

Holds(op, pc) == call.op = op /\ call.pc = pc

Enter(op, j, v, pc) == call' = [op |-> op, id |-> j, val |-> v, pc |-> pc]
Goto(pc)            == call' = [call EXCEPT !.pc = pc]

Transition(j, to) ==
  /\ <<status[j], to>> \in ValidTransitions
  /\ status' = [status EXCEPT ![j] = to]

Init ==
  /\ jobs = {}
  /\ status = [j \in JobIds |-> "absent"]
  /\ workerId = [j \in JobIds |-> NoValue]
  /\ submittedAt = [j \in JobIds |-> NoTime]
  /\ startedAt = [j \in JobIds |-> NoTime]
  /\ completedAt = [j \in JobIds |-> NoTime]
  /\ result = [j \in JobIds |-> NoValue]
  /\ error = [j \in JobIds |-> NoValue]
  /\ timeoutSeconds = [j \in JobIds |-> DefaultTimeout]
  /\ call = Idle
  /\ clock = 0

-----------------------------------------------------------------------------
(* submit_job: the Job is built before the lock is taken ...               *)
CreateJob(j, t) ==
  /\ status[j] = "absent"
  /\ status' = [status EXCEPT ![j] = "queued"]
  /\ submittedAt' = [submittedAt EXCEPT ![j] = clock]
  /\ timeoutSeconds' = [timeoutSeconds EXCEPT ![j] = EffectiveTimeout(t)]
  /\ UNCHANGED <<jobs, workerId, stampVars, outcomeVars, call, clock>>

(* ... and enters the dictionary under it.                                 *)
InsertJob(j) ==
  /\ LockFree
  /\ status[j] # "absent"
  /\ j \notin jobs
  /\ jobs' = jobs \cup {j}
  /\ UNCHANGED <<submittedAt, timeoutSeconds, status, workerId, stampVars,
                 outcomeVars, call, clock>>

(* First assignment of start_job, complete_job and fail_job: the status.   *)
Begin(op, j, v, to) ==
  /\ LockFree
  /\ j \in jobs
  /\ Transition(j, to)
  /\ Enter(op, j, v, "detail")
  /\ UNCHANGED <<birthVars, workerId, stampVars, outcomeVars, clock>>

StartJob(j, w)    == Begin("start", j, w, "running")
CompleteJob(j, r) == Begin("complete", j, r, "completed")
FailJob(j, e)     == Begin("fail", j, e, "failed")

(* Mutant: cancel_job forgets that a job may have finished.                *)
CancelAnyStarted(j) ==
  /\ LockFree
  /\ j \in jobs
  /\ status[j] \in {"running", "completed"}
  /\ status' = [status EXCEPT ![j] = "timeout"]
  /\ Enter("cancel", j, Cancelled, "detail")
  /\ UNCHANGED <<birthVars, workerId, stampVars, outcomeVars, clock>>

(* cancel_job on a running job settles it at once ...                      *)
CancelRunning(j) ==
  /\ status[j] = "running"
  /\ Begin("cancel", j, Cancelled, "timeout")

(* ... a queued one is made to run first: status, then started_at.         *)
CancelQueued(j) ==
  /\ LockFree
  /\ j \in jobs
  /\ status[j] = "queued"
  /\ status' = [status EXCEPT ![j] = "running"]
  /\ Enter("cancel", j, Cancelled, "promoted")
  /\ UNCHANGED <<birthVars, workerId, stampVars, outcomeVars, clock>>

StampPromoted ==
  /\ Holds("cancel", "promoted")
  /\ startedAt' = [startedAt EXCEPT
       ![call.id] = IF @ = NoTime THEN clock ELSE @]
  /\ Goto("settle")
  /\ UNCHANGED <<birthVars, status, workerId, completedAt, outcomeVars, clock>>

SettlePromoted ==
  /\ Holds("cancel", "settle")
  /\ Transition(call.id, "timeout")
  /\ Goto("detail")
  /\ UNCHANGED <<birthVars, workerId, stampVars, outcomeVars, clock>>

(* Second assignment: worker_id, result or error.                          *)
WriteWorker ==
  /\ Holds("start", "detail")
  /\ workerId' = [workerId EXCEPT ![call.id] = call.val]
  /\ UNCHANGED outcomeVars

WriteResult ==
  /\ Holds("complete", "detail")
  /\ result' = [result EXCEPT ![call.id] = call.val]
  /\ UNCHANGED <<workerId, error>>

WriteError ==
  /\ call.op \in {"fail", "cancel"} /\ call.pc = "detail"
  /\ error' = [error EXCEPT ![call.id] = call.val]
  /\ UNCHANGED <<workerId, result>>

WriteDetail ==
  /\ WriteWorker \/ WriteResult \/ WriteError
  /\ Goto("stamp")
  /\ UNCHANGED <<birthVars, status, stampVars, clock>>

(* Mutant: only complete and fail set completed_at. *)
WriteStampUnlessCancel ==
  /\ call.pc = "stamp"
  /\ startedAt' = [startedAt EXCEPT
       ![call.id] = IF call.op = "start" THEN clock ELSE @]
  /\ completedAt' = [completedAt EXCEPT
       ![call.id] = IF call.op \in {"complete", "fail"} THEN clock ELSE @]
  /\ call' = Idle
  /\ UNCHANGED <<birthVars, status, workerId, outcomeVars, clock>>

(* Last assignment: started_at or completed_at; then the lock is released. *)
WriteStamp ==
  /\ call.pc = "stamp"
  /\ IF call.op = "start"
     THEN /\ startedAt' = [startedAt EXCEPT ![call.id] = clock]
          /\ UNCHANGED completedAt
     ELSE /\ completedAt' = [completedAt EXCEPT ![call.id] = clock]
          /\ UNCHANGED startedAt
  /\ call' = Idle
  /\ UNCHANGED <<birthVars, status, workerId, outcomeVars, clock>>

Tick ==
  /\ clock < MaxClock
  /\ clock' = clock + 1
  /\ UNCHANGED <<jobVars, call>>

(* The steps of whoever is inside the lock. *)
InLock == StampPromoted \/ SettlePromoted \/ WriteDetail \/ WriteStamp

Next ==
  \/ \E j \in JobIds :
       \/ \E t \in Timeouts : CreateJob(j, t)
       \/ InsertJob(j)
       \/ \E w \in Workers : StartJob(j, w)
       \/ \E r \in Results : CompleteJob(j, r)
       \/ \E e \in Errors : FailJob(j, e)
       \/ CancelRunning(j)
       \/ CancelQueued(j)
  \/ InLock
  \/ Tick

Spec == Init /\ [][Next]_vars

(* A thread inside a with-block of straight-line assignments leaves it;    *)
(* nothing forces a client to call anything.                               *)
FairSpec == Spec /\ WF_vars(InLock)

-----------------------------------------------------------------------------
(* Properties.                                                             *)

Calls ==
  [op : {"start"}, id : JobIds, val : Workers, pc : {"detail", "stamp"}] \cup
  [op : {"complete"}, id : JobIds, val : Results, pc : {"detail", "stamp"}] \cup
  [op : {"fail"}, id : JobIds, val : Errors, pc : {"detail", "stamp"}] \cup
  [op : {"cancel"}, id : JobIds, val : {Cancelled},
   pc : {"promoted", "settle", "detail", "stamp"}]

(* The type invariant: among the rest, an effective timeout is never       *)
(* negative, and whoever holds the lock is at a stage of its own operation. *)
TypeOK ==
  /\ jobs \subseteq JobIds
  /\ status \in [JobIds -> Statuses \cup {"absent"}]
  /\ workerId \in [JobIds -> Workers \cup {NoValue}]
  /\ submittedAt \in [JobIds -> Times]
  /\ startedAt \in [JobIds -> Times]
  /\ completedAt \in [JobIds -> Times]
  /\ result \in [JobIds -> Results \cup {NoValue}]
  /\ error \in [JobIds -> Errors \cup {Cancelled, NoValue}]
  /\ timeoutSeconds \in [JobIds -> Nat]
  /\ call \in Calls \cup {Idle}
  /\ clock \in Nat

(* Nobody is in the middle of writing job j. *)
Quiet(j) == call.id # j

(* What the record of a quiet job says: the outcome is the one its status  *)
(* calls for and no other, a job with a verdict from a worker names that   *)
(* worker, and the two stamps are there exactly when they should be.       *)
RecordOf(j) ==
  /\ status[j] \in {"absent", "queued"} =>
       workerId[j] = NoValue /\ startedAt[j] = NoTime
  /\ status[j] \in {"running", "completed", "failed"} => workerId[j] \in Workers
  /\ status[j] \in {"running"} \cup Terminal => startedAt[j] # NoTime
  /\ status[j] \in Terminal <=> completedAt[j] # NoTime
  /\ IF status[j] = "completed" THEN result[j] \in Results ELSE result[j] = NoValue
  /\ IF status[j] = "failed" THEN error[j] \in Errors
     ELSE IF status[j] = "timeout" THEN error[j] = Cancelled
     ELSE error[j] = NoValue

(* Whenever the lock is not held on it, a job's record is whole: start,    *)
(* complete, fail and cancel racing on one job leave one verdict with its  *)
(* own outcome, never a mixture (jobs.py 202-281).                         *)
RecordsConsistent == \A j \in JobIds : Quiet(j) => RecordOf(j)

(* submitted_at <= started_at <= completed_at for every job at every moment, *)
(* although submitted_at is read before the lock is taken and cancel_job   *)
(* stamps a start of its own (Property 6 of tests/test_jobs.py).           *)
TimestampsMonotonic == \A j \in JobIds :
  /\ startedAt[j] # NoTime =>
       submittedAt[j] # NoTime /\ submittedAt[j] <= startedAt[j]
  /\ completedAt[j] # NoTime =>
       startedAt[j] # NoTime /\ startedAt[j] <= completedAt[j]

(* Once completed_at is set no later call of any thread changes any field  *)
(* of the job (Property 7, terminal state immutability).                   *)
VerdictFinal == [][\A j \in JobIds : completedAt[j] # NoTime =>
  /\ status'[j] = status[j]
  /\ result'[j] = result[j]
  /\ error'[j] = error[j]
  /\ workerId'[j] = workerId[j]
  /\ startedAt'[j] = startedAt[j]
  /\ completedAt'[j] = completedAt[j]]_vars

(* At most one start_job wins a job: the worker a job names never changes, *)
(* so two dispatchers cannot both believe they run it.                     *)
OneWorker == [][\A j \in JobIds :
  workerId[j] # NoValue => workerId'[j] = workerId[j]]_vars

(* The manager implements the documented life cycle: field by field and    *)
(* from any thread, what a client can read of a job only ever moves along  *)
(* JobLifecycle's steps.                                                   *)
Stage   == [j \in JobIds |-> IF j \in jobs THEN status[j] ELSE "unsubmitted"]
Outcome == [j \in JobIds |-> IF result[j] # NoValue THEN result[j] ELSE error[j]]

Lifecycle == INSTANCE JobLifecycle WITH stage <- Stage, outcome <- Outcome

RefinesLifecycle == Lifecycle!Spec

(* A job seen settled does get its outcome and its completion time: the    *)
(* thread that wrote the status finishes the block.                        *)
SettledGetsOutcome == \A j \in JobIds :
  status[j] \in Terminal ~> completedAt[j] # NoTime /\ Outcome[j] # NoValue
=============================================================================
