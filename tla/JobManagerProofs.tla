-------------------------- MODULE JobManagerProofs --------------------------
(***************************************************************************)
(* Theorems about JobManager, for any sets of jobs, workers and values and *)
(* any clock bound.  RecordsConsistent speaks of the jobs nobody is        *)
(* writing; to make it inductive IInv adds what the record of the job      *)
(* inside the lock looks like at every point of the block (MidRecords),    *)
(* that only tracked jobs are ever written (Tracked), and that no stamp is *)
(* ahead of the clock (StampsPast).                                        *)
(***************************************************************************)
EXTENDS JobManager, TLAPS

NotSettled(j) == /\ result[j] = NoValue /\ error[j] = NoValue
                 /\ completedAt[j] = NoTime

(* The record of the job inside the lock, by call and by point reached.    *)
MidRecord(j) ==
  /\ completedAt[j] = NoTime
  /\ call.op = "start" =>
       /\ status[j] = "running" /\ NotSettled(j)
       /\ startedAt[j] = NoTime
       /\ workerId[j] = IF call.pc = "stamp" THEN call.val ELSE NoValue
  /\ call.op = "complete" =>
       /\ status[j] = "completed" /\ error[j] = NoValue
       /\ startedAt[j] # NoTime /\ workerId[j] \in Workers
       /\ result[j] = IF call.pc = "stamp" THEN call.val ELSE NoValue
  /\ call.op = "fail" =>
       /\ status[j] = "failed" /\ result[j] = NoValue
       /\ startedAt[j] # NoTime /\ workerId[j] \in Workers
       /\ error[j] = IF call.pc = "stamp" THEN call.val ELSE NoValue
  /\ call.op = "cancel" =>
       /\ status[j] = IF call.pc \in {"promoted", "settle"}
                      THEN "running" ELSE "timeout"
       /\ result[j] = NoValue
       /\ error[j] = IF call.pc = "stamp" THEN Cancelled ELSE NoValue
       /\ startedAt[j] = NoTime <=> call.pc = "promoted"
       /\ call.pc = "promoted" => workerId[j] = NoValue

MidRecords == call # Idle => MidRecord(call.id)

Tracked ==
  /\ call # Idle => call.id \in jobs
  /\ \A j \in JobIds :
       /\ j \in jobs => status[j] # "absent"
       /\ j \notin jobs => status[j] \in {"absent", "queued"}
       /\ status[j] = "absent" <=> submittedAt[j] = NoTime

StampsPast == \A j \in JobIds :
  /\ submittedAt[j] <= clock
  /\ startedAt[j] <= clock

IInv ==
  /\ TypeOK
  /\ RecordsConsistent
  /\ MidRecords
  /\ Tracked
  /\ StampsPast
  /\ TimestampsMonotonic

-----------------------------------------------------------------------------
(* What the type of call says about the holder of the lock: an operation is *)
(* in progress on a known job at one of its own stages, or nobody is in it. *)
LEMMA CallShape ==
  ASSUME TypeOK
  PROVE  /\ call.id \in JobIds \/ call = Idle
         /\ call # Idle => call.op \in {"start", "complete", "fail", "cancel"}
         /\ call # Idle /\ call.pc \in {"promoted", "settle"} => call.op = "cancel"
         /\ call.pc \in {"free", "promoted", "settle", "detail", "stamp"}
         /\ call = Idle <=> call.pc = "free"
         /\ call.op = "start" => call.val \in Workers
         /\ call.op = "complete" => call.val \in Results
         /\ call.op = "fail" => call.val \in Errors
         /\ call.op = "cancel" => call.val = Cancelled
         /\ \A j \in JobIds : call = Idle => Quiet(j)
BY ValuesAssumption DEF TypeOK, Calls, Idle, Quiet

(* A fresh manager satisfies the inductive invariant. *)
LEMMA InitIInv == Init => IInv
<1> SUFFICES ASSUME Init PROVE IInv
  OBVIOUS
<1>1. TypeOK
  BY TimeAssumption DEF Init, TypeOK, Times, NoTime, Statuses, Idle
<1>2. RecordsConsistent
  BY DEF Init, RecordsConsistent, RecordOf, Terminal
<1>3. MidRecords /\ Tracked
  BY DEF Init, MidRecords, Tracked
<1>4. StampsPast /\ TimestampsMonotonic
  BY DEF Init, StampsPast, TimestampsMonotonic, NoTime
<1> QED
  BY <1>1, <1>2, <1>3, <1>4 DEF IInv

(* Every action keeps every part of IInv.  The parts are proved in the same *)
(* order each time: types; the dictionary and the clock; the records, quiet *)
(* and mid-block together, since entering and leaving the lock turns one   *)
(* into the other; the order of the stamps, which needs the records.       *)
LEMMA NextIInv ==
  ASSUME IInv, Next
  PROVE  IInv'
<1> USE CallShape, ValuesAssumption, TimeAssumption
    DEF IInv, TypeOK, Idle, Times, NoTime, Terminal, birthVars, stampVars,
        outcomeVars
<1>1. ASSUME NEW j \in JobIds, NEW t \in Timeouts, CreateJob(j, t)
      PROVE  IInv'
  <2> USE <1>1 DEF CreateJob, EffectiveTimeout
  <2>1. TypeOK'
    BY DEF Calls, Statuses
  <2>2. Tracked' /\ StampsPast'
    BY DEF Tracked, StampsPast
  <2>3. RecordsConsistent' /\ MidRecords'
    BY DEF RecordsConsistent, RecordOf, MidRecords, MidRecord, NotSettled,
       Tracked, Quiet
  <2>4. TimestampsMonotonic'
    BY DEF TimestampsMonotonic, RecordsConsistent, RecordOf, MidRecords,
       MidRecord, Tracked, StampsPast, Quiet
  <2> QED
    BY <2>1, <2>2, <2>3, <2>4
<1>2. ASSUME NEW j \in JobIds, InsertJob(j)
      PROVE  IInv'
  <2> USE <1>2 DEF InsertJob, LockFree
  <2>1. TypeOK'
    BY DEF Calls, Statuses
  <2>2. Tracked' /\ StampsPast'
    BY DEF Tracked, StampsPast
  <2>3. RecordsConsistent' /\ MidRecords'
    BY DEF RecordsConsistent, RecordOf, MidRecords, MidRecord, NotSettled,
       Tracked, Quiet
  <2>4. TimestampsMonotonic'
    BY DEF TimestampsMonotonic, RecordsConsistent, RecordOf, MidRecords,
       MidRecord, Tracked, StampsPast, Quiet
  <2> QED
    BY <2>1, <2>2, <2>3, <2>4
<1>3. ASSUME NEW j \in JobIds, NEW w \in Workers, StartJob(j, w)
      PROVE  IInv'
  <2> USE <1>3 DEF StartJob, Begin, Transition, ValidTransitions, Enter, LockFree
  <2>1. TypeOK'
    BY DEF Calls, Statuses
  <2>2. Tracked' /\ StampsPast'
    BY DEF Tracked, StampsPast
  <2>3. RecordsConsistent' /\ MidRecords'
    BY DEF RecordsConsistent, RecordOf, MidRecords, MidRecord, NotSettled,
       Tracked, Quiet
  <2>4. TimestampsMonotonic'
    BY DEF TimestampsMonotonic, RecordsConsistent, RecordOf, MidRecords,
       MidRecord, Tracked, StampsPast, Quiet
  <2> QED
    BY <2>1, <2>2, <2>3, <2>4
<1>4. ASSUME NEW j \in JobIds, NEW r \in Results, CompleteJob(j, r)
      PROVE  IInv'
  <2> USE <1>4 DEF CompleteJob, Begin, Transition, ValidTransitions, Enter, LockFree
  <2>1. TypeOK'
    BY DEF Calls, Statuses
  <2>2. Tracked' /\ StampsPast'
    BY DEF Tracked, StampsPast
  <2>3. RecordsConsistent' /\ MidRecords'
    BY DEF RecordsConsistent, RecordOf, MidRecords, MidRecord, NotSettled,
       Tracked, Quiet
  <2>4. TimestampsMonotonic'
    BY DEF TimestampsMonotonic, RecordsConsistent, RecordOf, MidRecords,
       MidRecord, Tracked, StampsPast, Quiet
  <2> QED
    BY <2>1, <2>2, <2>3, <2>4
<1>5. ASSUME NEW j \in JobIds, NEW e \in Errors, FailJob(j, e)
      PROVE  IInv'
  <2> USE <1>5 DEF FailJob, Begin, Transition, ValidTransitions, Enter, LockFree
  <2>1. TypeOK'
    BY DEF Calls, Statuses
  <2>2. Tracked' /\ StampsPast'
    BY DEF Tracked, StampsPast
  <2>3. RecordsConsistent' /\ MidRecords'
    BY DEF RecordsConsistent, RecordOf, MidRecords, MidRecord, NotSettled,
       Tracked, Quiet
  <2>4. TimestampsMonotonic'
    BY DEF TimestampsMonotonic, RecordsConsistent, RecordOf, MidRecords,
       MidRecord, Tracked, StampsPast, Quiet
  <2> QED
    BY <2>1, <2>2, <2>3, <2>4
<1>6. ASSUME NEW j \in JobIds, CancelRunning(j)
      PROVE  IInv'
  <2> USE <1>6 DEF CancelRunning, Begin, Transition, ValidTransitions, Enter, LockFree
  <2>1. TypeOK'
    BY DEF Calls, Statuses
  <2>2. Tracked' /\ StampsPast'
    BY DEF Tracked, StampsPast
  <2>3. RecordsConsistent' /\ MidRecords'
    BY DEF RecordsConsistent, RecordOf, MidRecords, MidRecord, NotSettled,
       Tracked, Quiet
  <2>4. TimestampsMonotonic'
    BY DEF TimestampsMonotonic, RecordsConsistent, RecordOf, MidRecords,
       MidRecord, Tracked, StampsPast, Quiet
  <2> QED
    BY <2>1, <2>2, <2>3, <2>4
<1>7. ASSUME NEW j \in JobIds, CancelQueued(j)
      PROVE  IInv'
  <2> USE <1>7 DEF CancelQueued, Enter, LockFree
  <2>1. TypeOK'
    BY DEF Calls, Statuses
  <2>2. Tracked' /\ StampsPast'
    BY DEF Tracked, StampsPast
  <2>3. RecordsConsistent' /\ MidRecords'
    BY DEF RecordsConsistent, RecordOf, MidRecords, MidRecord, NotSettled,
       Tracked, Quiet
  <2>4. TimestampsMonotonic'
    BY DEF TimestampsMonotonic, RecordsConsistent, RecordOf, MidRecords,
       MidRecord, Tracked, StampsPast, Quiet
  <2> QED
    BY <2>1, <2>2, <2>3, <2>4
<1>8. ASSUME StampPromoted
      PROVE  IInv'
  <2> USE <1>8 DEF StampPromoted, Holds, Goto
  <2>1. TypeOK'
    BY DEF Calls, Statuses
  <2>2. Tracked' /\ StampsPast'
    BY DEF Tracked, StampsPast
  <2>3. RecordsConsistent' /\ MidRecords'
    BY DEF RecordsConsistent, RecordOf, MidRecords, MidRecord, NotSettled,
       Tracked, Quiet
  <2>4. TimestampsMonotonic'
    BY DEF TimestampsMonotonic, RecordsConsistent, RecordOf, MidRecords,
       MidRecord, Tracked, StampsPast, Quiet
  <2> QED
    BY <2>1, <2>2, <2>3, <2>4
<1>9. ASSUME SettlePromoted
      PROVE  IInv'
  <2> USE <1>9 DEF SettlePromoted, Holds, Goto, Transition, ValidTransitions
  <2>1. TypeOK'
    BY DEF Calls, Statuses
  <2>2. Tracked' /\ StampsPast'
    BY DEF Tracked, StampsPast
  <2>3. RecordsConsistent' /\ MidRecords'
    BY DEF RecordsConsistent, RecordOf, MidRecords, MidRecord, NotSettled,
       Tracked, Quiet
  <2>4. TimestampsMonotonic'
    BY DEF TimestampsMonotonic, RecordsConsistent, RecordOf, MidRecords,
       MidRecord, Tracked, StampsPast, Quiet
  <2> QED
    BY <2>1, <2>2, <2>3, <2>4
<1>10. ASSUME WriteDetail
      PROVE  IInv'
  <2> USE <1>10 DEF WriteDetail, WriteWorker, WriteResult, WriteError, Holds, Goto
  <2>1. TypeOK'
    BY DEF Calls, Statuses
  <2>2. Tracked' /\ StampsPast'
    BY DEF Tracked, StampsPast
  <2>3. RecordsConsistent' /\ MidRecords'
    BY DEF RecordsConsistent, RecordOf, MidRecords, MidRecord, NotSettled,
       Tracked, Quiet
  <2>4. TimestampsMonotonic'
    BY DEF TimestampsMonotonic, RecordsConsistent, RecordOf, MidRecords,
       MidRecord, Tracked, StampsPast, Quiet
  <2> QED
    BY <2>1, <2>2, <2>3, <2>4
<1>11. ASSUME WriteStamp
      PROVE  IInv'
  <2> USE <1>11 DEF WriteStamp
  <2>1. TypeOK'
    BY DEF Calls, Statuses
  <2>2. Tracked' /\ StampsPast'
    BY DEF Tracked, StampsPast
  <2>3. RecordsConsistent' /\ MidRecords'
    BY DEF RecordsConsistent, RecordOf, MidRecords, MidRecord, NotSettled,
       Tracked, Quiet
  <2>4. TimestampsMonotonic'
    BY DEF TimestampsMonotonic, RecordsConsistent, RecordOf, MidRecords,
       MidRecord, Tracked, StampsPast, Quiet
  <2> QED
    BY <2>1, <2>2, <2>3, <2>4
<1>12. ASSUME Tick
      PROVE  IInv'
  <2> USE <1>12 DEF Tick, jobVars
  <2>1. TypeOK'
    BY DEF Calls, Statuses
  <2>2. Tracked' /\ StampsPast'
    BY DEF Tracked, StampsPast
  <2>3. RecordsConsistent' /\ MidRecords'
    BY DEF RecordsConsistent, RecordOf, MidRecords, MidRecord, NotSettled,
       Tracked, Quiet
  <2>4. TimestampsMonotonic'
    BY DEF TimestampsMonotonic, RecordsConsistent, RecordOf, MidRecords,
       MidRecord, Tracked, StampsPast, Quiet
  <2> QED
    BY <2>1, <2>2, <2>3, <2>4
<1> QED
  BY <1>1, <1>2, <1>3, <1>4, <1>5, <1>6, <1>7, <1>8, <1>9, <1>10, <1>11, <1>12 DEF Next, InLock

(* A call that raises or returns early changes nothing, and a step that    *)
(* changes no variable keeps the invariant.                                *)
LEMMA StutterIInv ==
  ASSUME IInv, UNCHANGED vars
  PROVE  IInv'
BY DEF IInv, TypeOK, RecordsConsistent, RecordOf, MidRecords, MidRecord,
   NotSettled, Tracked, StampsPast, TimestampsMonotonic, Quiet, vars, jobVars,
   birthVars, stampVars, outcomeVars

(* The inductive invariant holds in every reachable state, for any number  *)
(* of jobs, workers, results and errors.                                   *)
THEOREM Invariance == Spec => []IInv
<1>1. IInv /\ [Next]_vars => IInv'
  BY NextIInv, StutterIInv
<1> QED
  BY InitIInv, <1>1, PTL DEF Spec

-----------------------------------------------------------------------------
(* Every variable keeps its type. *)
THEOREM TypeCorrect == Spec => []TypeOK
BY Invariance, PTL DEF IInv

(* However start, complete, fail and cancel race, a job nobody is writing  *)
(* has exactly the outcome, worker and stamps its status calls for.        *)
THEOREM RecordsAlwaysConsistent == Spec => []RecordsConsistent
BY Invariance, PTL DEF IInv

(* submitted_at <= started_at <= completed_at at every moment.             *)
THEOREM TimestampsAlwaysMonotonic == Spec => []TimestampsMonotonic
BY Invariance, PTL DEF IInv

-----------------------------------------------------------------------------
(* A job with a completion time is out of every action's reach: it is      *)
(* tracked, nobody is in the lock for it and its status admits no move.    *)
LEMMA VerdictStep ==
  ASSUME IInv, [Next]_vars, NEW j \in JobIds, completedAt[j] # NoTime
  PROVE  /\ status'[j] = status[j]
         /\ result'[j] = result[j]
         /\ error'[j] = error[j]
         /\ workerId'[j] = workerId[j]
         /\ startedAt'[j] = startedAt[j]
         /\ completedAt'[j] = completedAt[j]
<1> USE DEF IInv, TypeOK
<1>1. call.id # j
  BY CallShape DEF MidRecords, MidRecord, Idle, Quiet
<1>2. status[j] \in Terminal
  BY <1>1 DEF RecordsConsistent, RecordOf, Quiet
<1>3. CASE InLock
  BY <1>1, <1>3 DEF InLock, StampPromoted, SettlePromoted, WriteDetail,
     WriteWorker, WriteResult, WriteError, WriteStamp, Transition, birthVars,
     stampVars, outcomeVars
<1>4. CASE Tick \/ UNCHANGED vars
  BY <1>4 DEF Tick, vars, jobVars, stampVars, outcomeVars
<1>5. ASSUME NEW i \in JobIds,
             \/ \E t \in Timeouts : CreateJob(i, t)
             \/ InsertJob(i)
      PROVE  UNCHANGED <<status[j], result[j], error[j], workerId[j],
                         startedAt[j], completedAt[j]>>
  BY <1>2, <1>5 DEF CreateJob, InsertJob, stampVars, outcomeVars, Terminal
<1>6. ASSUME NEW i \in JobIds,
             \/ \E w \in Workers : StartJob(i, w)
             \/ \E r \in Results : CompleteJob(i, r)
             \/ \E e \in Errors : FailJob(i, e)
             \/ CancelRunning(i)
             \/ CancelQueued(i)
      PROVE  UNCHANGED <<status[j], result[j], error[j], workerId[j],
                         startedAt[j], completedAt[j]>>
  <2>1. i # j
    BY <1>2, <1>6 DEF StartJob, CompleteJob, FailJob, CancelRunning, CancelQueued,
       Begin, Transition, ValidTransitions, Terminal
  <2> QED
    BY <1>6, <2>1 DEF StartJob, CompleteJob, FailJob, CancelRunning, CancelQueued,
       Begin, Transition, stampVars, outcomeVars
<1> QED
  BY <1>3, <1>4, <1>5, <1>6 DEF Next

(* No field of a finished job ever changes again, whoever calls what. *)
THEOREM VerdictIsFinal == Spec => VerdictFinal
<1>1. IInv /\ [Next]_vars => [\A j \in JobIds : completedAt[j] # NoTime =>
        /\ status'[j] = status[j]
        /\ result'[j] = result[j]
        /\ error'[j] = error[j]
        /\ workerId'[j] = workerId[j]
        /\ startedAt'[j] = startedAt[j]
        /\ completedAt'[j] = completedAt[j]]_vars
  BY VerdictStep
<1> QED
  BY Invariance, <1>1, PTL DEF Spec, VerdictFinal

(* Of the start_job calls that race for a job at most one names its worker. *)
THEOREM WorkerIsUnique == Spec => OneWorker
<1>1. ASSUME IInv, [Next]_vars, NEW j \in JobIds, workerId[j] # NoValue
      PROVE  workerId'[j] = workerId[j]
  <2> USE <1>1 DEF IInv, TypeOK
  <2>1. CASE WriteDetail
    BY <2>1, CallShape DEF WriteDetail, WriteWorker, WriteResult, WriteError, Holds,
       MidRecords, MidRecord, Idle
  <2>2. CASE ~WriteDetail
    BY <2>2 DEF Next, CreateJob, InsertJob, StartJob, CompleteJob, FailJob,
       CancelRunning, CancelQueued, Begin, InLock, StampPromoted,
       SettlePromoted, WriteStamp, Tick, vars, jobVars
  <2> QED
    BY <2>1, <2>2
<1>2. IInv /\ [Next]_vars => [\A j \in JobIds :
        workerId[j] # NoValue => workerId'[j] = workerId[j]]_vars
  BY <1>1
<1> QED
  BY Invariance, <1>2, PTL DEF Spec, OneWorker

-----------------------------------------------------------------------------
(* Refinement.  A status write is a step of the life cycle, a result or    *)
(* error write publishes the outcome, everything else stutters.            *)
LEMMA StatusMoves ==
  ASSUME IInv, NEW j \in jobs, NEW to,
         status' = [status EXCEPT ![j] = to],
         UNCHANGED <<jobs, result, error>>
  PROVE  /\ Stage[j] = status[j]
         /\ Stage' = [Stage EXCEPT ![j] = to]
         /\ Outcome' = Outcome
BY DEF IInv, TypeOK, Stage, Outcome

(* A first assignment (start, complete, fail, cancel) is a Start or Settle *)
(* of the life cycle: the status moves and the outcome is not there yet.   *)
LEMMA BeginRefines ==
  ASSUME IInv, NEW op, NEW j \in JobIds, NEW v, NEW to, Begin(op, j, v, to)
  PROVE  Lifecycle!Next
<1>1. j \in jobs /\ <<status[j], to>> \in ValidTransitions
  BY DEF Begin, Transition
<1>2. /\ Stage[j] = status[j]
      /\ Stage' = [Stage EXCEPT ![j] = to]
      /\ Outcome' = Outcome
  BY <1>1, StatusMoves DEF Begin, Transition, birthVars, outcomeVars
<1>3. \/ Lifecycle!Start(j)
      \/ \E s \in Lifecycle!Terminal : Lifecycle!Settle(j, s)
  BY <1>1, <1>2 DEF ValidTransitions, Terminal, Lifecycle!Start, Lifecycle!Settle,
     Lifecycle!Move, Lifecycle!Terminal
<1> QED
  BY <1>3 DEF Lifecycle!Next

(* The second assignment publishes the outcome the job's stage calls for,  *)
(* or, for start_job's worker_id, is invisible to the life cycle.          *)
LEMMA PublishRefines ==
  ASSUME IInv, WriteDetail
  PROVE  [Lifecycle!Next]_Lifecycle!lifecycleVars
<1> USE CallShape, ValuesAssumption
    DEF IInv, TypeOK, WriteDetail, Holds, birthVars, Idle
<1>1. CASE WriteWorker
  BY <1>1 DEF WriteWorker, outcomeVars, Stage, Outcome, Lifecycle!lifecycleVars
<1>2. CASE WriteResult \/ WriteError
  <2> DEFINE j == call.id
  <2>1. j \in JobIds /\ j \in jobs
    BY <1>2 DEF WriteResult, WriteError, Tracked
  <2>2. Outcome[j] = NoValue /\ Lifecycle!Admits(Stage[j], call.val)
    BY <1>2, <2>1 DEF WriteResult, WriteError, MidRecords, MidRecord, Outcome,
       Stage, Lifecycle!Admits
  <2>3. Stage' = Stage
    BY <1>2 DEF Stage
  <2>4. Outcome' = [Outcome EXCEPT ![j] = call.val]
    BY <1>2, <2>1 DEF WriteResult, WriteError, MidRecords, MidRecord, Outcome
  <2>5. call.val \in Results \cup Errors \cup {Cancelled}
    BY <1>2 DEF WriteResult, WriteError
  <2> QED
    BY <2>1, <2>2, <2>3, <2>4, <2>5 DEF Lifecycle!Next, Lifecycle!Publish
<1> QED
  BY <1>1, <1>2

(* Every step of the manager is a step of the life cycle or a stutter.     *)
LEMMA StepRefines ==
  ASSUME IInv, [Next]_vars
  PROVE  [Lifecycle!Next]_Lifecycle!lifecycleVars
<1> USE DEF IInv, TypeOK
<1>1. ASSUME NEW j \in JobIds, NEW t \in Timeouts, CreateJob(j, t)
      PROVE  UNCHANGED Lifecycle!lifecycleVars
  <2>1. j \notin jobs
    BY <1>1 DEF CreateJob, Tracked
  <2>2. Stage' = Stage /\ Outcome' = Outcome
    BY <1>1, <2>1 DEF CreateJob, Stage, Outcome, outcomeVars
  <2> QED
    BY <2>2 DEF Lifecycle!lifecycleVars
<1>2. ASSUME NEW j \in JobIds, InsertJob(j)
      PROVE  Lifecycle!Next
  <2>1. Stage[j] = "unsubmitted" /\ status[j] = "queued"
    BY <1>2 DEF InsertJob, Stage, Tracked
  <2>2. Stage' = [Stage EXCEPT ![j] = "queued"] /\ Outcome' = Outcome
    BY <1>2, <2>1 DEF InsertJob, Stage, Outcome, outcomeVars
  <2> QED
    BY <2>1, <2>2 DEF Lifecycle!Next, Lifecycle!Submit, Lifecycle!Move
<1>3. ASSUME NEW j \in JobIds,
             \/ \E w \in Workers : StartJob(j, w)
             \/ \E r \in Results : CompleteJob(j, r)
             \/ \E e \in Errors : FailJob(j, e)
             \/ CancelRunning(j)
      PROVE  Lifecycle!Next
  BY <1>3, BeginRefines DEF StartJob, CompleteJob, FailJob, CancelRunning
<1>4. ASSUME NEW j \in JobIds, CancelQueued(j)
      PROVE  Lifecycle!Next
  <2>1. /\ Stage[j] = "queued"
        /\ Stage' = [Stage EXCEPT ![j] = "running"]
        /\ Outcome' = Outcome
    BY <1>4, StatusMoves DEF CancelQueued, birthVars, outcomeVars
  <2> QED
    BY <2>1 DEF Lifecycle!Next, Lifecycle!Start, Lifecycle!Move
<1>5. CASE SettlePromoted
  <2>1. call.id \in JobIds /\ call.id \in jobs
    BY <1>5, CallShape DEF SettlePromoted, Holds, Tracked, Idle
  <2>2. /\ Stage[call.id] = "running"
        /\ Stage' = [Stage EXCEPT ![call.id] = "timeout"]
        /\ Outcome' = Outcome
    BY <1>5, <2>1, StatusMoves DEF SettlePromoted, Transition, ValidTransitions,
       birthVars, outcomeVars, Terminal
  <2> QED
    BY <2>1, <2>2 DEF Lifecycle!Next, Lifecycle!Settle, Lifecycle!Move,
       Lifecycle!Terminal
<1>6. CASE WriteDetail
  BY <1>6, PublishRefines
<1>7. CASE StampPromoted \/ WriteStamp \/ Tick \/ UNCHANGED vars
  BY <1>7 DEF StampPromoted, WriteStamp, Tick, vars, jobVars, birthVars,
     outcomeVars, Stage, Outcome, Lifecycle!lifecycleVars
<1> QED
  BY <1>1, <1>2, <1>3, <1>4, <1>5, <1>6, <1>7 DEF Next, InLock

(* The manager, with any number of threads writing field by field, shows   *)
(* its clients nothing but the documented life cycle.                      *)
THEOREM ManagerRefinesLifecycle == Spec => RefinesLifecycle
<1>1. Init => Lifecycle!Init
  BY DEF Init, Lifecycle!Init, Stage, Outcome
<1>2. IInv /\ [Next]_vars => [Lifecycle!Next]_Lifecycle!lifecycleVars
  BY StepRefines
<1> QED
  BY Invariance, <1>1, <1>2, PTL DEF Spec, RefinesLifecycle, Lifecycle!Spec

=============================================================================
