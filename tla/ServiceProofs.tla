--------------------------- MODULE ServiceProofs ---------------------------
(***************************************************************************)
(* Theorems about the handlers (JobService), for any jobs, values, chunk   *)
(* size and threshold, about the life of the server (ProtocolServer), for  *)
(* any number of signals and starts, and about the messages and tensors    *)
(* between hosts (Serialization).                                          *)
(*                                                                         *)
(* A handler reads a live job attribute by attribute.  What makes that     *)
(* safe is that the fields are final one by one (LiveStep): a verdict, a   *)
(* result and an error never change once they are there, and after         *)
(* completed_at nothing does.  The invariant of the replies says, of every *)
(* attribute read, which of these the reader may rely on (Heard), and of   *)
(* every polling client that the job is at or past what it was told        *)
(* (SeenOK).  The streams and the probes each add an invariant of their    *)
(* own on top of it.                                                       *)
(***************************************************************************)
EXTENDS JobManagerProofs, JobService, ProtocolServer, Serialization,
        FiniteSetTheorems, SequenceTheorems

Readers == {"rest", "grpc", "stream"}
Probes  == {"health", "ready"}
Fields  == {"status", "result", "error", "completedAt"}

(* What a handler of each kind may still have to do. *)
Todos(kind) ==
  CASE kind = "rest" -> {RestReads, <<"result", "error">>, <<"error">>, <<>>}
    [] kind = "grpc" -> {GrpcReads, RestReads, <<"result", "error">>, <<"error">>, <<>>}
    [] kind = "stream" -> {StreamReads, <<"result">>, <<>>}
    [] kind = "health" -> {ProbeCounts, <<"running">>, <<>>}
    [] kind = "ready" -> {ProbeCounts \o ProbeCounts, <<"running", "queued", "running">>,
                          ProbeCounts, <<"running">>, <<>>}
    [] OTHER -> {<<>>}

RequestOK ==
  /\ req = [kind |-> req.kind, id |-> req.id, todo |-> req.todo]
  /\ req.kind \in Readers \cup Probes \cup {"none", "submit"}
  /\ req.todo \in Todos(req.kind)
  /\ req.kind = "none" => req = NoRequest
  /\ req.kind = "submit" => req.id \in JobIds /\ status[req.id] # "absent"
  /\ req.kind \in Readers => req.id \in jobs

(* The attributes a handler never reads, and those it has not read yet.    *)
Skipped(kind) ==
  CASE kind = "rest" -> {"completedAt"}
    [] kind = "grpc" -> {}
    [] kind = "stream" -> {"error", "completedAt"}
    [] OTHER -> Fields

Pending(todo) == {todo[k] : k \in DOMAIN todo}

Unheard == Skipped(req.kind) \cup Pending(req.todo)

ViewOK ==
  /\ view \in [status : Statuses, result : Results \cup {NoValue},
               error : Errors \cup {Cancelled, NoValue}, completedAt : Times]
  /\ "status" \in Unheard => view.status = "queued"
  /\ "result" \in Unheard => view.result = NoValue
  /\ "error" \in Unheard => view.error = NoValue
  /\ "completedAt" \in Unheard => view.completedAt = NoTime

(* From one status to one the job can reach from it. *)
Later(s, t) == s = "queued" \/ s = t \/ (s = "running" /\ t \in Terminal)

(* What a handler has read and may still rely on: a verdict and an outcome *)
(* are final, and after a completion time everything is.                   *)
Heard ==
  /\ Later(view.status, status[req.id])
  /\ view.result # NoValue => result[req.id] = view.result
  /\ view.error # NoValue => error[req.id] = view.error
  /\ view.completedAt # NoTime =>
       /\ completedAt[req.id] = view.completedAt
       /\ "status" \in Unheard \/ view.status = status[req.id]
       /\ "result" \in Unheard \/ view.result = result[req.id]
       /\ "error" \in Unheard \/ view.error = error[req.id]

SeenOK ==
  /\ seen \in [JobIds -> Statuses]
  /\ \A j \in JobIds :
       /\ status[j] = "absent" => seen[j] = "queued"
       /\ status[j] # "absent" => Later(seen[j], status[j])
  /\ req.kind = "submit" => seen[req.id] = "queued"
  /\ req.kind \in {"rest", "grpc"} /\ "status" \notin Unheard =>
       Later(seen[req.id], view.status)

ReplyInvariant == IInv /\ RequestOK /\ ViewOK /\ Heard /\ SeenOK

-----------------------------------------------------------------------------
(* A service step is a step of the manager or leaves it alone: submit_job  *)
(* called by a handler is still submit_job.                                *)
LEMMA ServiceStep ==
  ASSUME [ServiceNext]_allVars
  PROVE  [Next]_vars
<1>1. CASE ServiceNext
  BY <1>1 DEF ServiceNext, SubmitJob, PostJob, GetJob, GetJobStatus, StreamResults,
     Fetch, BeginHealth, BeginProbe, Serve, ReplySubmitted, ReadAttribute, ReplyJob,
     SendChunk, CountJobs, ReplyProbe, Next
<1>2. CASE UNCHANGED allVars
  BY <1>2 DEF allVars
<1> QED
  BY <1>1, <1>2

(* What any step of the manager does to what a reader may have seen. *)
LEMMA LiveStep ==
  ASSUME IInv, [Next]_vars, NEW j \in JobIds
  PROVE  /\ status[j] # "absent" =>
              status'[j] # "absent" /\ Later(status[j], status'[j])
         /\ status[j] = "absent" => status'[j] \in {"absent", "queued"}
         /\ result[j] # NoValue => result'[j] = result[j]
         /\ error[j] # NoValue => error'[j] = error[j]
         /\ jobs \subseteq jobs'
<1> USE DEF IInv, TypeOK, Later
<1>1. CASE WriteDetail
  BY <1>1, CallShape, ValuesAssumption DEF WriteDetail, WriteWorker, WriteResult,
     WriteError, Holds, MidRecords, MidRecord, Idle, birthVars, stampVars,
     outcomeVars, NotSettled
<1>2. CASE StampPromoted \/ WriteStamp \/ Tick \/ UNCHANGED vars
  BY <1>2 DEF StampPromoted, WriteStamp, Tick, vars, jobVars, birthVars, stampVars,
     outcomeVars
<1>3. CASE SettlePromoted
  BY <1>3, CallShape DEF SettlePromoted, Transition, ValidTransitions, birthVars,
     outcomeVars, Terminal, Idle, Holds
<1>4. ASSUME NEW i \in JobIds,
             \/ \E t \in Timeouts : CreateJob(i, t)
             \/ InsertJob(i)
      PROVE  /\ status[j] # "absent" =>
                  status'[j] # "absent" /\ Later(status[j], status'[j])
             /\ status[j] = "absent" => status'[j] \in {"absent", "queued"}
             /\ UNCHANGED <<result, error>>
             /\ jobs \subseteq jobs'
  BY <1>4 DEF CreateJob, InsertJob, outcomeVars
<1>5. ASSUME NEW i \in JobIds,
             \/ \E w \in Workers : StartJob(i, w)
             \/ \E r \in Results : CompleteJob(i, r)
             \/ \E e \in Errors : FailJob(i, e)
             \/ CancelRunning(i)
             \/ CancelQueued(i)
      PROVE  /\ status[j] # "absent" =>
                  status'[j] # "absent" /\ Later(status[j], status'[j])
             /\ status[j] = "absent" => status'[j] \in {"absent", "queued"}
             /\ UNCHANGED <<result, error>>
             /\ jobs \subseteq jobs'
  BY <1>5 DEF StartJob, CompleteJob, FailJob, CancelRunning, CancelQueued, Begin,
     Transition, ValidTransitions, birthVars, outcomeVars
<1> QED
  BY <1>1, <1>2, <1>3, <1>4, <1>5 DEF Next, InLock

(* An outcome is there only beside the status it belongs to. *)
LEMMA OutcomeMatches ==
  ASSUME IInv, NEW j \in JobIds
  PROVE  /\ result[j] # NoValue => status[j] = "completed"
         /\ error[j] # NoValue => status[j] \in {"failed", "timeout"}
         /\ completedAt[j] # NoTime => RecordOf(j)
         /\ result[j] # NoValue => result[j] \in Results
BY CallShape DEF IInv, TypeOK, RecordsConsistent, RecordOf, MidRecords, MidRecord,
   NotSettled, Quiet, Idle

(* Reading one attribute of the list moves it from what is pending to what *)
(* was read, whichever handler is at work.                                 *)
LEMMA ReadOrder ==
  ASSUME NEW kind \in Readers, NEW todo \in Todos(kind), todo # <<>>
  PROVE  /\ Tail(todo) \in Todos(kind)
         /\ Head(todo) \in Pending(todo)
         /\ Head(todo) \in Fields
         /\ Pending(Tail(todo)) = Pending(todo) \ {Head(todo)}
         /\ Head(todo) \notin Skipped(kind)
         /\ Head(todo) = "completedAt" => Pending(todo) = Fields
<1>1. CASE todo = GrpcReads
  <2>1. /\ Tail(todo) = RestReads /\ Head(todo) = "completedAt"
        /\ Pending(todo) = Fields /\ Pending(RestReads) = Fields \ {"completedAt"}
    BY <1>1 DEF GrpcReads, RestReads, Pending, Fields
  <2> QED
    BY <1>1, <2>1 DEF Todos, Skipped, Readers, Fields, GrpcReads, RestReads,
       StreamReads
<1>2. CASE todo = RestReads
  <2>1. /\ Tail(todo) = <<"result", "error">> /\ Head(todo) = "status"
        /\ Pending(todo) = {"status", "result", "error"}
        /\ Pending(<<"result", "error">>) = {"result", "error"}
    BY <1>2 DEF RestReads, Pending, Fields
  <2> QED
    BY <1>2, <2>1 DEF Todos, Skipped, Readers, Fields, RestReads, StreamReads
<1>3. CASE todo = <<"result", "error">>
  <2>1. /\ Tail(todo) = <<"error">> /\ Head(todo) = "result"
        /\ Pending(todo) = {"result", "error"} /\ Pending(<<"error">>) = {"error"}
    BY <1>3 DEF Pending
  <2> QED
    BY <1>3, <2>1 DEF Todos, Skipped, Readers, Fields, StreamReads
<1>4. CASE todo = <<"error">>
  <2>1. /\ Tail(todo) = <<>> /\ Head(todo) = "error"
        /\ Pending(todo) = {"error"} /\ Pending(<<>>) = {}
    BY <1>4 DEF Pending
  <2> QED
    BY <1>4, <2>1 DEF Todos, Skipped, Readers, Fields, StreamReads
<1>5. CASE todo = StreamReads
  <2>1. /\ Tail(todo) = <<"result">> /\ Head(todo) = "status"
        /\ Pending(todo) = {"status", "result"} /\ Pending(<<"result">>) = {"result"}
    BY <1>5 DEF StreamReads, Pending
  <2> QED
    BY <1>5, <2>1 DEF Todos, Skipped, Readers, Fields, StreamReads, RestReads,
       GrpcReads
<1>6. CASE todo = <<"result">>
  <2>1. /\ Tail(todo) = <<>> /\ Head(todo) = "result"
        /\ Pending(todo) = {"result"} /\ Pending(<<>>) = {}
    BY <1>6 DEF Pending
  <2> QED
    BY <1>6, <2>1 DEF Todos, Skipped, Readers, Fields, StreamReads, RestReads,
       GrpcReads
<1> QED
  BY <1>1, <1>2, <1>3, <1>4, <1>5, <1>6 DEF Todos, Readers

(* No handler is at work and nothing has been read at first. *)
LEMMA ReplyInitially ==
  ASSUME Init, ServiceInit
  PROVE  ReplyInvariant
<1>1. IInv
  BY InitIInv
<1>2. RequestOK /\ ViewOK /\ Heard
  BY DEF ServiceInit, NoRequest, Unread, RequestOK, ViewOK, Heard, Todos, Readers,
     Probes, Statuses, Later, Times, NoTime
<1>3. SeenOK
  BY DEF Init, ServiceInit, SeenOK, NoRequest, Statuses
<1> QED
  BY <1>1, <1>2, <1>3 DEF ReplyInvariant

(* While no handler moves, the manager may: what was read stays good.      *)
LEMMA ReplySurvives ==
  ASSUME ReplyInvariant, [Next]_vars, UNCHANGED serviceVars
  PROVE  ReplyInvariant'
<1> USE DEF ReplyInvariant
<1>1. IInv'
  BY NextIInv, StutterIInv
<1>2. UNCHANGED <<req, view, seen, Unheard>>
  BY DEF serviceVars, Unheard
<1>3. jobs \subseteq JobIds /\ (req.kind \in Readers => req.id \in JobIds)
  BY DEF IInv, TypeOK, RequestOK
<1>4. RequestOK'
  BY <1>2, <1>3, LiveStep DEF RequestOK
<1>5. ViewOK'
  BY <1>2 DEF ViewOK
<1>6. Heard'
  <2>1. CASE req.kind \in Readers
    <3>1. Later(view.status, status'[req.id])
      BY <1>3, <2>1, LiveStep DEF Heard, Later, Terminal, RequestOK, IInv, Tracked
    <3>2. view.result # NoValue => result'[req.id] = view.result
      BY <1>3, <2>1, LiveStep DEF Heard
    <3>3. view.error # NoValue => error'[req.id] = view.error
      BY <1>3, <2>1, LiveStep DEF Heard
    <3>4. ASSUME view.completedAt # NoTime
          PROVE  UNCHANGED <<status[req.id], result[req.id], error[req.id],
                             completedAt[req.id]>>
      <4>1. completedAt[req.id] # NoTime
        BY <3>4 DEF Heard
      <4> QED
        BY <1>2, <1>3, <2>1, <4>1, VerdictStep
    <3> QED
      BY <1>2, <3>1, <3>2, <3>3, <3>4 DEF Heard
  <2>2. CASE req.kind \notin Readers
    <3>1. Unheard = Fields \cup Pending(req.todo)
      BY <2>2 DEF Unheard, Skipped, Readers
    <3>2. view.status = "queued" /\ view.result = NoValue /\ view.error = NoValue
          /\ view.completedAt = NoTime
      BY <3>1 DEF ViewOK, Fields
    <3> QED
      BY <1>2, <3>2 DEF Heard, Later
  <2> QED
    BY <2>1, <2>2
<1>7. SeenOK'
  <2>1. ASSUME NEW j \in JobIds
        PROVE  /\ status'[j] = "absent" => seen[j] = "queued"
               /\ status'[j] # "absent" => Later(seen[j], status'[j])
    BY LiveStep DEF SeenOK, Later, Terminal
  <2> QED
    BY <1>2, <2>1 DEF SeenOK
<1> QED
  BY <1>1, <1>4, <1>5, <1>6, <1>7

(* A request begins: nothing is read yet, nobody else's last reply changes. *)
LEMMA RequestBegins ==
  ASSUME ReplyInvariant, req = NoRequest, [Next]_vars,
         NEW kind \in Readers \cup Probes \cup {"submit"}, NEW j, NEW todo,
         req' = [kind |-> kind, id |-> j, todo |-> todo],
         kind = "rest" => todo = RestReads, kind = "grpc" => todo = GrpcReads,
         kind = "stream" => todo = StreamReads, todo \in Todos(kind),
         kind \in Readers => j \in jobs,
         kind = "submit" => j \in JobIds /\ status[j] = "absent" /\ status'[j] # "absent",
         UNCHANGED <<view, seen>>
  PROVE  ReplyInvariant'
<1> USE DEF ReplyInvariant
<1>1. IInv'
  BY NextIInv, StutterIInv
<1>2. RequestOK'
  <2>1. jobs \subseteq jobs'
    BY LiveStep DEF IInv, TypeOK
  <2> QED
    BY <2>1 DEF RequestOK, Readers, Probes
<1>3. view = Unread
  <2>1. Unheard = Fields \cup Pending(req.todo)
    BY DEF Unheard, Skipped, NoRequest
  <2> QED
    BY <2>1 DEF ViewOK, Unread, Fields
<1>4. ViewOK' /\ Heard'
  BY <1>3 DEF ViewOK, Heard, Unread, Statuses, Later, Times, NoTime
<1>5. SeenOK'
  <2>1. ASSUME NEW i \in JobIds
        PROVE  /\ status'[i] = "absent" => seen[i] = "queued"
               /\ status'[i] # "absent" => Later(seen[i], status'[i])
    BY LiveStep DEF SeenOK, Later, Terminal
  <2>2. kind \in {"rest", "grpc"} => "status" \in Unheard'
    <3>1. "status" \in Pending(RestReads) /\ "status" \in Pending(GrpcReads)
      <4>1. RestReads[1] = "status" /\ GrpcReads[2] = "status"
            /\ 1 \in DOMAIN RestReads /\ 2 \in DOMAIN GrpcReads
        BY DEF RestReads, GrpcReads
      <4> QED
        BY <4>1 DEF Pending
    <3> QED
      BY <3>1 DEF Unheard
  <2> QED
    BY <2>1, <2>2 DEF SeenOK
<1> QED
  BY <1>1, <1>2, <1>4, <1>5

(* A request ends without a reply that a polling client keeps.             *)
LEMMA RequestEnds ==
  ASSUME ReplyInvariant, req' = NoRequest, view' = Unread,
         UNCHANGED vars, seen' = seen
  PROVE  ReplyInvariant'
<1> USE DEF ReplyInvariant
<1>1. IInv'
  BY StutterIInv
<1>2. RequestOK' /\ ViewOK' /\ Heard'
  BY DEF NoRequest, Unread, RequestOK, ViewOK, Heard, Todos, Readers, Probes,
     Statuses, Later, Times, NoTime
<1>3. SeenOK'
  BY DEF SeenOK, NoRequest, vars, jobVars
<1> QED
  BY <1>1, <1>2, <1>3

(* One attribute is read of the live job.  Whatever was read before stays  *)
(* true of it; what is read now is true of it at this moment.              *)
LEMMA ReadKeeps ==
  ASSUME ReplyInvariant, ReadAttribute
  PROVE  ReplyInvariant'
<1> USE DEF ReplyInvariant
<1> DEFINE field == Head(req.todo)
           value == Live(req.id)[field]
<1>1. /\ req.kind \in Readers /\ req.todo # <<>> /\ req.todo \in Todos(req.kind)
      /\ req.id \in JobIds /\ status[req.id] # "absent"
  BY DEF ReadAttribute, RequestOK, Readers, IInv, TypeOK, Tracked
<1>2. CASE req.kind = "stream" /\ field = "status" /\ value # "completed"
  BY <1>2, RequestEnds DEF ReadAttribute
<1>3. ASSUME ~(req.kind = "stream" /\ field = "status" /\ value # "completed")
      PROVE  ReplyInvariant'
  <2>1. /\ req' = [req EXCEPT !.todo = Tail(req.todo)]
        /\ view' = [view EXCEPT ![field] = value]
        /\ UNCHANGED vars /\ seen' = seen
    BY <1>3 DEF ReadAttribute
  <2>2. /\ Tail(req.todo) \in Todos(req.kind)
        /\ field \in Pending(req.todo)
        /\ field \in Fields
        /\ Pending(Tail(req.todo)) = Pending(req.todo) \ {field}
        /\ field \notin Skipped(req.kind)
        /\ field = "completedAt" => Pending(req.todo) = Fields
    BY <1>1, ReadOrder
  <2>3. req' = [kind |-> req.kind, id |-> req.id, todo |-> Tail(req.todo)]
    BY <2>1 DEF RequestOK
  <2>4. field \in Unheard /\ Unheard' = Unheard \ {field}
    BY <2>2, <2>3 DEF Unheard
  <2>5. UNCHANGED <<status, result, error, completedAt, jobs>>
    BY <2>1 DEF vars, jobVars, birthVars, stampVars, outcomeVars
  <2>6. IInv'
    BY <2>1, StutterIInv
  <2>7. RequestOK'
    BY <1>1, <2>2, <2>3, <2>5 DEF RequestOK, Readers
  <2>8. \/ field = "status" /\ view' = [view EXCEPT !.status = status[req.id]]
        \/ field = "result" /\ view' = [view EXCEPT !.result = result[req.id]]
        \/ field = "error" /\ view' = [view EXCEPT !.error = error[req.id]]
        \/ /\ field = "completedAt"
           /\ view' = [view EXCEPT !.completedAt = completedAt[req.id]]
    <3>1. CASE field = "status"
      <4>1. Live(req.id)["status"] = status[req.id]
        BY DEF Live
      <4>2. view' = [view EXCEPT !["status"] = status[req.id]]
        BY <2>1, <3>1, <4>1
      <4> QED
        BY <3>1, <4>2
    <3>2. CASE field = "result"
      <4>1. Live(req.id)["result"] = result[req.id]
        BY DEF Live
      <4>2. view' = [view EXCEPT !["result"] = result[req.id]]
        BY <2>1, <3>2, <4>1
      <4> QED
        BY <3>2, <4>2
    <3>3. CASE field = "error"
      <4>1. Live(req.id)["error"] = error[req.id]
        BY DEF Live
      <4>2. view' = [view EXCEPT !["error"] = error[req.id]]
        BY <2>1, <3>3, <4>1
      <4> QED
        BY <3>3, <4>2
    <3>4. CASE field = "completedAt"
      <4>1. Live(req.id)["completedAt"] = completedAt[req.id]
        BY DEF Live
      <4>2. view' = [view EXCEPT !["completedAt"] = completedAt[req.id]]
        BY <2>1, <3>4, <4>1
      <4> QED
        BY <3>4, <4>2
    <3> QED
      BY <2>2, <3>1, <3>2, <3>3, <3>4 DEF Fields
  <2>9. /\ status[req.id] \in Statuses /\ result[req.id] \in Results \cup {NoValue}
        /\ error[req.id] \in Errors \cup {Cancelled, NoValue}
        /\ completedAt[req.id] \in Times
    BY <1>1 DEF IInv, TypeOK
  <2>10. ViewOK' /\ Heard'
    <3>1. CASE field = "status"
      BY <2>3, <2>4, <2>5, <2>8, <2>9, <3>1 DEF ViewOK, Heard, Later
    <3>2. CASE field = "result"
      BY <2>3, <2>4, <2>5, <2>8, <2>9, <3>2 DEF ViewOK, Heard
    <3>3. CASE field = "error"
      BY <2>3, <2>4, <2>5, <2>8, <2>9, <3>3 DEF ViewOK, Heard
    <3>4. CASE field = "completedAt"
      <4>1. Unheard = Fields /\ Unheard' = {"status", "result", "error"}
        BY <2>2, <2>4, <3>4 DEF Unheard, Fields, Skipped
      <4> QED
        BY <2>3, <2>4, <2>5, <2>8, <2>9, <3>4, <4>1 DEF ViewOK, Heard, Fields
    <3> QED
      BY <2>2, <3>1, <3>2, <3>3, <3>4 DEF Fields
  <2>11. SeenOK'
    <3>1. ASSUME req.kind \in {"rest", "grpc"}, "status" \notin Unheard'
          PROVE  Later(seen[req.id], view'.status)
      <4>1. CASE field = "status"
        BY <1>1, <2>8, <4>1 DEF SeenOK, ViewOK
      <4>2. CASE field # "status"
        BY <2>4, <2>8, <3>1, <4>2 DEF SeenOK, ViewOK
      <4> QED
        BY <4>1, <4>2
    <3>2. req'.kind # "submit"
      BY <1>1, <2>3 DEF Readers
    <3> QED
      BY <2>1, <2>3, <2>5, <3>1, <3>2 DEF SeenOK
  <2> QED
    BY <2>6, <2>7, <2>10, <2>11
<1> QED
  BY <1>2, <1>3

(* A reply moves the client it reaches to what it says, never back.        *)
LEMMA ReplyMoves ==
  ASSUME ReplyInvariant,
         \/ ReplySubmitted /\ UNCHANGED view
         \/ ReplyJob
  PROVE  /\ ReplyInvariant'
         /\ \A j \in JobIds : Later(seen[j], seen'[j])
         /\ req' = NoRequest
<1> USE DEF ReplyInvariant
<1> DEFINE said == IF req.kind = "submit" THEN "queued" ELSE view.status
<1>1. /\ req.id \in JobIds /\ status[req.id] # "absent"
      /\ said \in Statuses
      /\ Later(seen[req.id], said)
  <2>1. CASE req.kind = "submit"
    BY <2>1 DEF RequestOK, SeenOK, Later, Statuses
  <2>2. CASE req.kind \in {"rest", "grpc"} /\ req.todo = <<>>
    <3>1. "status" \notin Unheard
      BY <2>2 DEF Unheard, Skipped, Pending
    <3> QED
      BY <2>2, <3>1 DEF RequestOK, SeenOK, ViewOK, Readers, IInv, TypeOK, Tracked
  <2> QED
    BY <2>1, <2>2 DEF ReplySubmitted, ReplyJob
<1>2. /\ req' = NoRequest /\ UNCHANGED vars
      /\ seen' = [seen EXCEPT ![req.id] = said]
  BY DEF ReplySubmitted, ReplyJob
<1>3. \A j \in JobIds : Later(seen[j], seen'[j])
  BY <1>1, <1>2 DEF SeenOK, Later
<1>4. view' = Unread
  <2>1. CASE req.kind = "submit"
    <3>1. Unheard = Fields \cup Pending(req.todo)
      BY <2>1 DEF Unheard, Skipped
    <3> QED
      BY <2>1, <3>1 DEF ViewOK, Unread, Fields, ReplySubmitted, ReplyJob
  <2>2. CASE req.kind # "submit"
    BY <2>2 DEF ReplySubmitted, ReplyJob
  <2> QED
    BY <2>1, <2>2
<1>5. IInv'
  BY <1>2, StutterIInv
<1>6. RequestOK' /\ ViewOK' /\ Heard'
  BY <1>2, <1>4 DEF NoRequest, Unread, RequestOK, ViewOK, Heard, Todos, Readers,
     Probes, Statuses, Later, Times, NoTime
<1>7. SeenOK'
  <2>1. Later(said, status[req.id])
    <3>1. CASE req.kind = "submit"
      BY <3>1 DEF Later
    <3>2. CASE req.kind # "submit"
      BY <3>2 DEF Heard
    <3> QED
      BY <3>1, <3>2
  <2>2. seen' \in [JobIds -> Statuses]
    BY <1>1, <1>2 DEF SeenOK
  <2>3. ASSUME NEW j \in JobIds
        PROVE  /\ status[j] = "absent" => seen'[j] = "queued"
               /\ status[j] # "absent" => Later(seen'[j], status[j])
    BY <1>1, <1>2, <2>1 DEF SeenOK
  <2> QED
    BY <1>2, <2>2, <2>3 DEF SeenOK, NoRequest, vars, jobVars
<1> QED
  BY <1>2, <1>3, <1>5, <1>6, <1>7

(* Nothing of a reader is touched. *)
LEMMA ReplyUntouched ==
  ASSUME ReplyInvariant, UNCHANGED <<vars, req, view, seen>>
  PROVE  ReplyInvariant'
<1>1. IInv'
  BY StutterIInv DEF ReplyInvariant
<1>2. UNCHANGED <<jobs, status, result, error, completedAt>>
  BY DEF vars, jobVars, birthVars, stampVars, outcomeVars
<1> QED
  BY <1>1, <1>2 DEF ReplyInvariant, RequestOK, ViewOK, Heard, SeenOK, Unheard

(* Outside a reading handler nothing is remembered of any job. *)
LEMMA NothingRead ==
  ASSUME ViewOK, req.kind \notin Readers
  PROVE  view = Unread
<1>1. Unheard = Fields \cup Pending(req.todo)
  BY DEF Unheard, Skipped, Readers
<1> QED
  BY <1>1 DEF ViewOK, Unread, Fields

(* What a probe has left to count after a count. *)
LEMMA CountOrder ==
  /\ Head(ProbeCounts) = "queued" /\ Tail(ProbeCounts) = <<"running">>
  /\ Head(<<"running">>) = "running" /\ Tail(<<"running">>) = <<>>
  /\ Head(ProbeCounts \o ProbeCounts) = "queued"
  /\ Tail(ProbeCounts \o ProbeCounts) = <<"running", "queued", "running">>
  /\ Head(<<"running", "queued", "running">>) = "running"
  /\ Tail(<<"running", "queued", "running">>) = ProbeCounts
  /\ Len(ProbeCounts) = 2 /\ Len(<<"running">>) = 1
  /\ Len(ProbeCounts \o ProbeCounts) = 4 /\ Len(<<"running", "queued", "running">>) = 3
<1>1. ProbeCounts \o ProbeCounts = <<"queued", "running", "queued", "running">>
  <2>1. ProbeCounts \in Seq({"queued", "running"}) /\ Len(ProbeCounts) = 2
        /\ ProbeCounts[1] = "queued" /\ ProbeCounts[2] = "running"
    BY DEF ProbeCounts
  <2>2. /\ ProbeCounts \o ProbeCounts \in Seq({"queued", "running"})
        /\ Len(ProbeCounts \o ProbeCounts) = 4
        /\ \A i \in 1 .. 4 : (ProbeCounts \o ProbeCounts)[i] =
              IF i <= 2 THEN ProbeCounts[i] ELSE ProbeCounts[i - 2]
    <3>1. /\ ProbeCounts \o ProbeCounts \in Seq({"queued", "running"})
          /\ Len(ProbeCounts \o ProbeCounts) = Len(ProbeCounts) + Len(ProbeCounts)
          /\ \A i \in 1 .. Len(ProbeCounts) + Len(ProbeCounts) :
               (ProbeCounts \o ProbeCounts)[i] =
                 IF i <= Len(ProbeCounts) THEN ProbeCounts[i]
                 ELSE ProbeCounts[i - Len(ProbeCounts)]
      BY <2>1, ConcatProperties, Zenon
    <3> QED
      BY <2>1, <3>1
  <2>3. \A i \in 1 .. 4 : (ProbeCounts \o ProbeCounts)[i] =
          <<"queued", "running", "queued", "running">>[i]
    BY <2>1, <2>2
  <2>4. /\ <<"queued", "running", "queued", "running">> \in Seq({"queued", "running"})
        /\ Len(<<"queued", "running", "queued", "running">>) = 4
    OBVIOUS
  <2> QED
    BY <2>2, <2>3, <2>4, SeqEqual
<1>2. /\ Head(<<"queued", "running", "queued", "running">>) = "queued"
      /\ Tail(<<"queued", "running", "queued", "running">>)
           = <<"running", "queued", "running">>
      /\ Len(<<"queued", "running", "queued", "running">>) = 4
  OBVIOUS
<1>3. /\ Head(<<"running", "queued", "running">>) = "running"
      /\ Tail(<<"running", "queued", "running">>) = <<"queued", "running">>
      /\ Len(<<"running", "queued", "running">>) = 3
  OBVIOUS
<1>4. /\ Head(<<"running">>) = "running" /\ Tail(<<"running">>) = <<>>
      /\ Len(<<"running">>) = 1
  OBVIOUS
<1> QED
  <2>1. /\ Head(ProbeCounts) = "queued" /\ Tail(ProbeCounts) = <<"running">>
        /\ Len(ProbeCounts) = 2
    BY DEF ProbeCounts
  <2>2. ProbeCounts = <<"queued", "running">>
    BY DEF ProbeCounts
  <2> QED
    BY <1>1, <1>2, <1>3, <1>4, <2>1, <2>2

(* A count leaves everything a reader relies on alone. *)
LEMMA CountKeepsReply ==
  ASSUME ReplyInvariant, CountJobs
  PROVE  ReplyInvariant'
<1> USE DEF ReplyInvariant
<1>1. IInv'
  BY StutterIInv DEF CountJobs
<1>2. /\ req' = [kind |-> req.kind, id |-> req.id, todo |-> Tail(req.todo)]
      /\ req.kind \in Probes /\ req.todo # <<>>
      /\ UNCHANGED <<vars, view, seen>>
  BY DEF CountJobs, RequestOK, Probes
<1>3. Tail(req.todo) \in Todos(req.kind)
  BY <1>2, CountOrder DEF RequestOK, Todos, Probes
<1>4. RequestOK'
  BY <1>2, <1>3 DEF RequestOK, Probes, Readers
<1>5. view = Unread
  BY <1>2, NothingRead DEF Probes, Readers
<1>6. ViewOK' /\ Heard'
  BY <1>2, <1>5 DEF Unread, ViewOK, Heard, Statuses, Later, Times, NoTime
<1>7. SeenOK'
  BY <1>2 DEF SeenOK, Probes, vars, jobVars
<1> QED
  BY <1>1, <1>4, <1>6, <1>7

(* Every step of a handler or of the manager under it keeps the replies in *)
(* order and moves every polling client forward.                           *)
LEMMA ReplyStep ==
  ASSUME ReplyInvariant, [ServiceNext]_allVars
  PROVE  /\ ReplyInvariant'
         /\ \A j \in JobIds : Later(seen[j], seen'[j])
<1> USE DEF ReplyInvariant
<1>1. [Next]_vars
  BY ServiceStep
<1>2. \A j \in JobIds : Later(seen[j], seen[j])
  BY DEF Later
<1>3. CASE \/ Next /\ UNCHANGED serviceVars
           \/ UNCHANGED allVars
  BY <1>1, <1>2, <1>3, ReplySurvives DEF allVars, serviceVars
<1>4. ASSUME NEW j \in JobIds, NEW t \in Timeouts, SubmitJob(j, t) \/ PostJob(j, t)
      PROVE  ReplyInvariant' /\ seen' = seen
  <2>1. /\ req = NoRequest
        /\ req' = [kind |-> "submit", id |-> j, todo |-> <<>>]
        /\ UNCHANGED <<view, seen>>
        /\ status[j] = "absent" /\ status'[j] = "queued"
    BY <1>4 DEF SubmitJob, PostJob, CreateJob, IInv, TypeOK
  <2> QED
    BY <1>1, <2>1, RequestBegins DEF Todos, Readers
<1>5. ASSUME NEW j \in JobIds, GetJob(j) \/ GetJobStatus(j) \/ StreamResults(j)
      PROVE  ReplyInvariant' /\ seen' = seen
  <2>1. PICK kind \in Readers : \E todo \in Todos(kind) :
          /\ req = NoRequest /\ j \in jobs /\ UNCHANGED <<view, seen>>
          /\ req' = [kind |-> kind, id |-> j, todo |-> todo]
          /\ kind = "rest" => todo = RestReads
          /\ kind = "grpc" => todo = GrpcReads
          /\ kind = "stream" => todo = StreamReads
    <3>1. CASE GetJob(j)
      BY <3>1 DEF GetJob, Fetch, Todos, Readers
    <3>2. CASE GetJobStatus(j)
      BY <3>2 DEF GetJobStatus, Fetch, Todos, Readers
    <3>3. CASE StreamResults(j)
      BY <3>3 DEF StreamResults, Fetch, Todos, Readers
    <3> QED
      BY <1>5, <3>1, <3>2, <3>3
  <2> QED
    BY <1>1, <2>1, RequestBegins DEF Readers
<1>6. ASSUME BeginHealth \/ BeginProbe
      PROVE  ReplyInvariant' /\ seen' = seen
  <2>1. PICK kind \in Probes : \E todo \in Todos(kind) :
          /\ req = NoRequest /\ UNCHANGED <<view, seen>>
          /\ req' = [kind |-> kind, id |-> NoValue, todo |-> todo]
    <3>1. CASE BeginHealth
      BY <3>1 DEF BeginHealth, Todos, Probes
    <3>2. CASE BeginProbe
      BY <3>2 DEF BeginProbe, Todos, Probes
    <3> QED
      BY <1>6, <3>1, <3>2
  <2> QED
    BY <1>1, <2>1, RequestBegins DEF Probes, Readers
<1>7. CASE ReplySubmitted \/ ReplyJob
  BY <1>7, ReplyMoves DEF ReplySubmitted
<1>8. CASE ReadAttribute
  BY <1>2, <1>8, ReadKeeps DEF ReadAttribute
<1>9. CASE SendChunk
  <2>1. /\ seen' = seen /\ UNCHANGED vars
        /\ \/ req' = NoRequest /\ view' = Unread
           \/ UNCHANGED <<req, view>>
    BY <1>9 DEF SendChunk
  <2> QED
    BY <1>2, <2>1, RequestEnds, ReplyUntouched
<1>10. CASE CountJobs
  BY <1>2, <1>10, CountKeepsReply DEF CountJobs
<1>11. CASE ReplyProbe
  <2>1. view = Unread
    BY <1>11, NothingRead DEF ReplyProbe, Readers
  <2> QED
    BY <1>2, <1>11, <2>1, RequestEnds DEF ReplyProbe
<1> QED
  BY <1>2, <1>3, <1>4, <1>5, <1>6, <1>7, <1>8, <1>9, <1>10, <1>11 DEF ServiceNext,
     Serve

(* The invariant of the replies holds in every reachable state. *)
LEMMA ReplyInvariance == ServiceSpec => []ReplyInvariant
<1>1. Init /\ ServiceInit => ReplyInvariant
  BY ReplyInitially
<1>2. ReplyInvariant /\ [ServiceNext]_allVars => ReplyInvariant'
  BY ReplyStep
<1> QED
  BY <1>1, <1>2, PTL DEF ServiceSpec

(* A reply put together from unlocked reads never contradicts itself nor   *)
(* the job, for any number of jobs, workers, results and threads.          *)
THEOREM RepliesAlwaysConsistent == ServiceSpec => []RepliesConsistent
<1>1. ASSUME ReplyInvariant, Replying
      PROVE  RepliesConsistent
  <2> USE <1>1 DEF ReplyInvariant
  <2>1. req.id \in JobIds /\ req.kind \in {"rest", "grpc"} /\ Pending(req.todo) = {}
    BY DEF Replying, RequestOK, Readers, IInv, TypeOK, Pending
  <2>2. /\ "status" \notin Unheard /\ "result" \notin Unheard /\ "error" \notin Unheard
    BY <2>1 DEF Unheard, Skipped
  <2>3. view.status \in Statuses
    BY DEF ViewOK
  <2> QED
    BY <2>1, <2>2, <2>3, OutcomeMatches, ValuesAssumption DEF RepliesConsistent,
       Heard, Later, RecordOf, Terminal, Statuses
<1>2. ReplyInvariant => RepliesConsistent
  BY <1>1 DEF RepliesConsistent
<1> QED
  BY <1>2, ReplyInvariance, PTL

(* A client that submits and polls never sees its job go back a stage or   *)
(* from one verdict to another.                                            *)
THEOREM PollsOnlyAdvance == ServiceSpec => PollsNeverGoBack
<1>1. ReplyInvariant /\ [ServiceNext]_allVars =>
        [\A j \in JobIds : /\ Rank(seen[j]) <= Rank(seen'[j])
                           /\ seen[j] \in Terminal => seen'[j] = seen[j]]_allVars
  BY ReplyStep DEF Later, Rank, Terminal
<1> QED
  BY <1>1, ReplyInvariance, PTL DEF ServiceSpec, PollsNeverGoBack

-----------------------------------------------------------------------------
(* Streams. *)

Whole(s, size) ==
  s.bytes = size /\ s.chunks * ChunkSize >= size /\ (s.chunks - 1) * ChunkSize < size

(* A finished stream is whole; one in progress has sent full chunks only   *)
(* and has bytes left.                                                     *)
StreamOK ==
  /\ stream \in [id : JobIds \cup {NoValue}, bytes : Nat, chunks : Nat, last : BOOLEAN]
  /\ stream.last =>
       \/ stream.bytes = 0 /\ stream.chunks = 1
       \/ /\ stream.id \in JobIds /\ result[stream.id] \in Results
          /\ Whole(stream, result[stream.id])
  /\ req.kind = "stream" =>
       /\ ~stream.last
       /\ stream.bytes = stream.chunks * ChunkSize
       /\ stream.chunks > 0 =>
            req.todo = <<>> /\ view.result \in Results /\ stream.bytes < view.result

(* The chunk after c full ones is the last of the total exactly when it    *)
(* reaches the end.                                                        *)
LEMMA LastChunk ==
  ASSUME NEW total \in Nat, NEW c \in Nat, c * ChunkSize < total
  PROVE  /\ c = TotalChunks(total) - 1 => (c + 1) * ChunkSize >= total
         /\ c # TotalChunks(total) - 1 => (c + 1) * ChunkSize < total
<1> DEFINE q == TotalChunks(total)
           r == (total + ChunkSize - 1) % ChunkSize
           n == total + ChunkSize - 1
<1>1. n \in Nat /\ ChunkSize \in Nat \ {0}
  BY ServiceAssumption
<1>2. q \in Int /\ r \in 0 .. ChunkSize - 1 /\ n = ChunkSize * q + r
  BY <1>1 DEF TotalChunks
<1>3. ChunkSize * q >= total /\ ChunkSize * q < total + ChunkSize
  BY <1>1, <1>2
<1>4. (c + 1) * ChunkSize = c * ChunkSize + ChunkSize
  BY <1>1
<1>5. CASE c = q - 1
  BY <1>1, <1>2, <1>3, <1>4, <1>5
<1>6. ASSUME c < q - 1
      PROVE  (c + 1) * ChunkSize < total
  <2>1. PICK d \in Nat : q = c + 2 + d
    <3>1. q - c - 2 \in Nat /\ q = c + 2 + (q - c - 2)
      BY <1>2, <1>6
    <3> QED
      BY <3>1
  <2>2. ChunkSize * q = (c + 1) * ChunkSize + ChunkSize + d * ChunkSize
    BY <1>1, <2>1
  <2>3. d * ChunkSize >= 0 /\ d * ChunkSize \in Int /\ (c + 1) * ChunkSize \in Int
    BY <1>1
  <2> QED
    BY <1>1, <1>3, <2>2, <2>3
<1>7. ASSUME c > q - 1
      PROVE  FALSE
  <2>1. PICK d \in Nat : c = q + d
    <3>1. c - q \in Nat /\ c = q + (c - q)
      BY <1>2, <1>7
    <3> QED
      BY <3>1
  <2>2. c * ChunkSize = ChunkSize * q + d * ChunkSize
    BY <1>1, <1>2, <2>1
  <2>3. d * ChunkSize >= 0 /\ d * ChunkSize \in Int /\ ChunkSize * q \in Int
    BY <1>1, <1>2
  <2> QED
    BY <1>1, <1>3, <2>2, <2>3
<1> QED
  BY <1>2, <1>5, <1>6, <1>7

StreamInvariant == ReplyInvariant /\ StreamOK

(* One chunk: either the stream goes on with bytes left, or it ends whole. *)
LEMMA ChunkKeeps ==
  ASSUME StreamInvariant, SendChunk
  PROVE  StreamOK'
<1> USE ServiceAssumption, ValuesAssumption DEF StreamInvariant, ReplyInvariant
<1> DEFINE total == ResultSize(view.result)
           start == stream.chunks * ChunkSize
           last  == total = 0 \/ stream.chunks = TotalChunks(total) - 1
           sent  == Least(start + ChunkSize, total) - start
<1>1. /\ req.kind = "stream" /\ req.todo = <<>> /\ req.id \in JobIds
      /\ result[req.id] \in Results \cup {NoValue}
      /\ UNCHANGED <<result, error>>
  BY DEF SendChunk, RequestOK, Readers, IInv, TypeOK, vars, jobVars, outcomeVars
<1>2. PICK b \in BOOLEAN :
        /\ b <=> last
        /\ stream' = [id |-> req.id, bytes |-> stream.bytes + sent,
                      chunks |-> stream.chunks + 1, last |-> b]
        /\ last => req' = NoRequest
        /\ ~last => UNCHANGED <<req, view>>
  <2>1. last \in BOOLEAN
    OBVIOUS
  <2>2. /\ stream' = [id |-> req.id, bytes |-> stream.bytes + sent,
                      chunks |-> stream.chunks + 1, last |-> last]
        /\ last => req' = NoRequest
        /\ ~last => UNCHANGED <<req, view>>
    BY DEF SendChunk
  <2> QED
    BY <2>1, <2>2, Zenon
<1>3. /\ stream.chunks \in Nat /\ start \in Nat /\ stream.bytes = start
      /\ view.result \in Results \cup {NoValue} /\ total \in Nat
      /\ total # 0 => view.result \in Results /\ view.result = total /\ start < total
  <2>1. stream.chunks \in Nat /\ start \in Nat /\ stream.bytes = start
    BY <1>1 DEF StreamOK
  <2>2. view.result \in Results \cup {NoValue} /\ total \in Nat
    BY DEF ViewOK, ResultSize
  <2>3. ASSUME total # 0
        PROVE  view.result \in Results /\ view.result = total
    BY <2>2, <2>3 DEF ResultSize
  <2>4. ASSUME total # 0
        PROVE  start < total
    <3>1. CASE stream.chunks = 0
      BY <2>2, <2>4, <3>1
    <3>2. CASE stream.chunks # 0
      BY <1>1, <2>1, <2>3, <2>4, <3>2 DEF StreamOK
    <3> QED
      BY <3>1, <3>2
  <2> QED
    BY <2>1, <2>2, <2>3, <2>4
<1>4. CASE total = 0
  <2>1. stream.chunks = 0
    BY <1>1, <1>3, <1>4 DEF StreamOK, ResultSize
  <2>2. start = 0 /\ sent = 0
    BY <1>4, <2>1 DEF Least
  <2>3. stream' = [id |-> req.id, bytes |-> 0, chunks |-> 1, last |-> TRUE]
    <3>1. b = TRUE /\ stream.bytes + sent = 0 /\ stream.chunks + 1 = 1
      BY <1>2, <1>3, <1>4, <2>1, <2>2
    <3> QED
      BY <1>2, <3>1
  <2> QED
    BY <1>1, <1>2, <1>4, <2>3 DEF StreamOK, NoRequest
<1>5. CASE total # 0 /\ last
  <2>1. (stream.chunks + 1) * ChunkSize >= total /\ start + ChunkSize >= total
    BY <1>3, <1>5, LastChunk
  <2>2. sent = total - start
    BY <1>3, <2>1 DEF Least
  <2>3. stream' = [id |-> req.id, bytes |-> total, chunks |-> stream.chunks + 1,
                   last |-> TRUE]
    <3>1. b = TRUE /\ stream.bytes + sent = total
      BY <1>2, <1>3, <1>5, <2>2
    <3> QED
      BY <1>2, <3>1
  <2>4. result[req.id] = total
    BY <1>3, <1>5 DEF Heard
  <2>5. (stream.chunks + 1) - 1 = stream.chunks
    BY <1>3
  <2>6. Whole(stream', result'[req.id])
    BY <1>1, <1>3, <1>5, <2>1, <2>3, <2>4, <2>5 DEF Whole
  <2> QED
    BY <1>1, <1>2, <1>3, <1>5, <2>3, <2>4, <2>6 DEF StreamOK, NoRequest
<1>6. CASE total # 0 /\ ~last
  <2>1. /\ (stream.chunks + 1) * ChunkSize < total
        /\ (stream.chunks + 1) * ChunkSize = start + ChunkSize
    BY <1>3, <1>6, LastChunk
  <2>2. sent = ChunkSize
    BY <1>3, <2>1 DEF Least
  <2>3. stream' = [id |-> req.id, bytes |-> start + ChunkSize, chunks |-> stream.chunks + 1,
                   last |-> FALSE]
    BY <1>2, <1>3, <1>6, <2>2
  <2> QED
    BY <1>1, <1>2, <1>3, <1>6, <2>1, <2>3 DEF StreamOK
<1> QED
  BY <1>4, <1>5, <1>6

(* Every step keeps what streams are: a result that was sent is final.     *)
LEMMA StreamStep ==
  ASSUME StreamInvariant, [ServiceNext]_allVars
  PROVE  StreamInvariant'
<1> USE DEF StreamInvariant
<1>1. ReplyInvariant'
  BY ReplyStep
<1>2. [Next]_vars
  BY ServiceStep
<1>3. \A j \in JobIds : result[j] # NoValue => result'[j] = result[j]
  BY <1>2, LiveStep DEF ReplyInvariant
<1>4. ASSUME UNCHANGED stream,
             \/ UNCHANGED <<req, view>>
             \/ req'.kind # "stream"
      PROVE  StreamOK'
  <2>1. stream.last => \/ stream.bytes = 0 /\ stream.chunks = 1
                       \/ /\ stream.id \in JobIds /\ result'[stream.id] \in Results
                          /\ Whole(stream, result'[stream.id])
    BY <1>3, ValuesAssumption DEF StreamOK
  <2>2. (req.kind = "stream")' => req.kind = "stream" /\ UNCHANGED view /\ UNCHANGED req
    BY <1>4
  <2> QED
    BY <1>4, <2>1, <2>2 DEF StreamOK, Whole
<1>5. CASE \/ Next /\ UNCHANGED serviceVars
           \/ UNCHANGED allVars
  BY <1>1, <1>4, <1>5 DEF allVars, serviceVars
<1>6. ASSUME NEW j \in JobIds,
             \/ \E t \in Timeouts : SubmitJob(j, t) \/ PostJob(j, t)
             \/ GetJob(j) \/ GetJobStatus(j)
      PROVE  StreamOK'
  BY <1>4, <1>6 DEF SubmitJob, PostJob, GetJob, GetJobStatus, Fetch
<1>7. ASSUME NEW j \in JobIds, StreamResults(j)
      PROVE  StreamOK'
  <2>1. stream' = [id |-> NoValue, bytes |-> 0, chunks |-> 0, last |-> FALSE]
    BY <1>7 DEF StreamResults, NoStream
  <2> QED
    BY <2>1, ServiceAssumption DEF StreamOK
<1>8. CASE ReplySubmitted \/ ReplyJob \/ ReplyProbe \/ BeginHealth \/ BeginProbe
  BY <1>1, <1>4, <1>8 DEF ReplySubmitted, ReplyJob, ReplyProbe, BeginHealth,
     BeginProbe, NoRequest
<1>9. CASE ReadAttribute
  <2>1. stream.chunks \in Nat /\ (req.kind = "stream" => stream.chunks = 0)
    BY <1>9 DEF StreamOK, ReadAttribute
  <2>2. UNCHANGED <<stream, vars>> /\ (req'.kind = "stream" => req.kind = "stream")
    BY <1>9 DEF ReadAttribute, NoRequest, ReplyInvariant, RequestOK
  <2> QED
    BY <1>1, <2>1, <2>2 DEF StreamOK, Whole, vars, jobVars, outcomeVars
<1>10. CASE CountJobs
  <2>1. req'.kind # "stream" /\ UNCHANGED stream
    <3>1. /\ req' = [kind |-> req.kind, id |-> req.id, todo |-> Tail(req.todo)]
          /\ UNCHANGED stream
      BY <1>10 DEF CountJobs, ReplyInvariant, RequestOK
    <3> QED
      BY <1>10, <3>1 DEF CountJobs
  <2> QED
    BY <1>1, <1>4, <2>1
<1>11. CASE SendChunk
  BY <1>1, <1>11, ChunkKeeps
<1> QED
  BY <1>1, <1>5, <1>6, <1>7, <1>8, <1>9, <1>10, <1>11 DEF ServiceNext, Serve

(* A stream that ends is whole, for any chunk size and any results: it     *)
(* carried the result in ceil(size / chunk) chunks or one empty chunk.     *)
THEOREM StreamsAlwaysWhole == ServiceSpec => []StreamsAreWhole
<1>1. Init /\ ServiceInit => StreamInvariant
  BY ReplyInitially, ServiceAssumption DEF StreamInvariant, StreamOK, ServiceInit,
     NoStream, NoRequest
<1>2. StreamInvariant /\ [ServiceNext]_allVars => StreamInvariant'
  BY StreamStep
<1>3. StreamInvariant => StreamsAreWhole
  BY ServiceAssumption DEF StreamInvariant, StreamOK, Whole, StreamsAreWhole
<1> QED
  BY <1>1, <1>2, <1>3, PTL DEF ServiceSpec

-----------------------------------------------------------------------------
(* Probes. *)

(* The jobs that have been active since the probe began. *)
Steady == probe.atStart \cap ActiveJobs

CountsLeft == Len(req.todo)

(* By how many counts are still to come: once the queued jobs are counted, *)
(* every steady job still queued is in the count; once the running ones are *)
(* too, every steady job is.                                               *)
ProbeOK ==
  /\ IsFiniteSet(jobs)
  /\ probe \in [load : Nat, body : Nat, atStart : SUBSET jobs]
  /\ req.kind \in Probes =>
       /\ CountsLeft = 3 => Cardinality(Steady \cap WithStatus("queued")) <= probe.load
       /\ req.kind = "ready" /\ CountsLeft \in {0, 1, 2} =>
            Cardinality(Steady) <= probe.load
       /\ CountsLeft = 1 => Cardinality(Steady \cap WithStatus("queued")) <= probe.body
       /\ CountsLeft = 0 => Cardinality(Steady) <= probe.body

ProbeInvariant == ReplyInvariant /\ ProbeOK

(* No step of the manager adds a steady job, or one that is steady and     *)
(* queued: a job leaves the queue, and leaves activity, for good.          *)
LEMMA SteadyShrinks ==
  ASSUME ProbeInvariant, [Next]_vars, probe' = probe
  PROVE  /\ Steady' \subseteq Steady
         /\ (Steady \cap WithStatus("queued"))' \subseteq Steady \cap WithStatus("queued")
         /\ IsFiniteSet(Steady)
         /\ IsFiniteSet(jobs')
<1> USE DEF ProbeInvariant, ReplyInvariant
<1>1. /\ probe.atStart \subseteq jobs /\ IsFiniteSet(jobs)
      /\ jobs \subseteq JobIds
      /\ \A j \in jobs : status[j] # "absent"
  BY DEF ProbeOK, IInv, TypeOK, Tracked
<1>2. ASSUME NEW j \in probe.atStart, status'[j] \in Active
      PROVE  status[j] \in Active /\ (status'[j] = "queued" => status[j] = "queued")
  BY <1>1, <1>2, LiveStep DEF Later, Active, Terminal
<1>3. Steady' \subseteq Steady
  BY <1>1, <1>2 DEF Steady, ActiveJobs
<1>4. (Steady \cap WithStatus("queued"))' \subseteq Steady \cap WithStatus("queued")
  BY <1>1, <1>2, <1>3 DEF Steady, ActiveJobs, WithStatus
<1>5. IsFiniteSet(Steady)
  BY <1>1, FS_Subset DEF Steady, ActiveJobs
<1>6. IsFiniteSet(jobs')
  <2>1. CASE \E j \in JobIds : InsertJob(j)
    BY <1>1, <2>1, FS_AddElement DEF InsertJob
  <2>2. CASE ~ \E j \in JobIds : InsertJob(j)
    BY <1>1, <2>2 DEF Next, CreateJob, StartJob, CompleteJob, FailJob,
       CancelRunning, CancelQueued, Begin, InLock, StampPromoted, SettlePromoted,
       WriteDetail, WriteStamp, Tick, vars, jobVars, birthVars
  <2> QED
    BY <2>1, <2>2
<1> QED
  BY <1>3, <1>4, <1>5, <1>6

(* A smaller set of steady jobs is covered by the same counts.             *)
LEMMA ProbeSurvives ==
  ASSUME ProbeInvariant, [Next]_vars, probe' = probe,
         req'.kind \in Probes => req' = req
  PROVE  ProbeOK'
<1> USE DEF ProbeInvariant
<1>1. /\ Steady' \subseteq Steady
      /\ (Steady \cap WithStatus("queued"))' \subseteq Steady \cap WithStatus("queued")
      /\ IsFiniteSet(Steady) /\ IsFiniteSet(Steady \cap WithStatus("queued"))
      /\ IsFiniteSet(jobs')
  BY SteadyShrinks, FS_Subset
<1>2. /\ Cardinality(Steady') <= Cardinality(Steady)
      /\ Cardinality((Steady \cap WithStatus("queued"))')
           <= Cardinality(Steady \cap WithStatus("queued"))
      /\ Cardinality(Steady) \in Nat /\ Cardinality(Steady') \in Nat
      /\ Cardinality(Steady \cap WithStatus("queued")) \in Nat
      /\ Cardinality((Steady \cap WithStatus("queued"))') \in Nat
  BY <1>1, FS_Subset, FS_CardinalityType
<1>3. probe' \in [load : Nat, body : Nat, atStart : SUBSET jobs']
  BY LiveStep DEF ProbeOK, ReplyInvariant, IInv, TypeOK
<1>4. probe.load \in Nat /\ probe.body \in Nat
  BY DEF ProbeOK
<1>5. ASSUME req'.kind \in Probes
      PROVE  /\ (CountsLeft = 3)' =>
                  Cardinality((Steady \cap WithStatus("queued"))') <= probe.load
             /\ (req.kind = "ready" /\ CountsLeft \in {0, 1, 2})' =>
                  Cardinality(Steady') <= probe.load
             /\ (CountsLeft = 1)' =>
                  Cardinality((Steady \cap WithStatus("queued"))') <= probe.body
             /\ (CountsLeft = 0)' => Cardinality(Steady') <= probe.body
  <2>1. CountsLeft' = CountsLeft /\ req' = req /\ req.kind \in Probes
    BY <1>5 DEF CountsLeft
  <2> QED
    BY <1>2, <1>4, <2>1 DEF ProbeOK
<1> QED
  BY <1>1, <1>3, <1>5 DEF ProbeOK

(* A count takes in every steady job of its status.                        *)
LEMMA CountCovers ==
  ASSUME ProbeInvariant, CountJobs
  PROVE  ProbeOK'
<1> USE DEF ProbeInvariant, ReplyInvariant
<1> DEFINE Q == Steady \cap WithStatus("queued")
           n == Cardinality(WithStatus(Head(req.todo)))
<1>1. /\ IsFiniteSet(WithStatus("queued")) /\ IsFiniteSet(WithStatus("running"))
      /\ IsFiniteSet(Steady) /\ IsFiniteSet(Q)
  <2>1. /\ WithStatus("queued") \subseteq jobs /\ WithStatus("running") \subseteq jobs
        /\ Steady \subseteq jobs /\ Q \subseteq jobs
    BY DEF WithStatus, Steady, ActiveJobs
  <2> QED
    BY <2>1, FS_Subset DEF ProbeOK
<1>2. Cardinality(Q) <= Cardinality(WithStatus("queued"))
  BY <1>1, FS_Subset
<1>3. Cardinality(Steady) <= Cardinality(Q) + Cardinality(WithStatus("running"))
  <2> DEFINE R == Steady \cap WithStatus("running")
  <2>1. Steady = Q \cup R
    BY DEF Steady, ActiveJobs, WithStatus, Active
  <2>2. IsFiniteSet(R) /\ Cardinality(R) <= Cardinality(WithStatus("running"))
    BY <1>1, FS_Subset
  <2>3. Cardinality(Q \cup R) = Cardinality(Q) + Cardinality(R) - Cardinality(Q \cap R)
    BY <1>1, <2>2, FS_Union
  <2>4. /\ Cardinality(Q) \in Nat /\ Cardinality(R) \in Nat /\ Cardinality(Q \cap R) \in Nat
        /\ Cardinality(WithStatus("running")) \in Nat
    BY <1>1, <2>2, FS_CardinalityType, FS_Subset
  <2>5. Cardinality(Steady) = Cardinality(Q \cup R)
    BY <2>1, Zenon
  <2> QED
    BY <2>2, <2>3, <2>4, <2>5
<1>4. /\ Cardinality(Q) \in Nat /\ Cardinality(Steady) \in Nat
      /\ Cardinality(WithStatus("queued")) \in Nat /\ Cardinality(WithStatus("running")) \in Nat
  BY <1>1, FS_CardinalityType
<1>5. /\ probe.load \in Nat /\ probe.body \in Nat /\ probe.atStart \subseteq jobs
      /\ probe = [load |-> probe.load, body |-> probe.body, atStart |-> probe.atStart]
  BY DEF ProbeOK
<1>6. /\ req' = [kind |-> req.kind, id |-> req.id, todo |-> Tail(req.todo)]
      /\ req.kind \in Probes /\ req.todo # <<>> /\ req.todo \in Todos(req.kind)
      /\ UNCHANGED <<jobs, status>>
      /\ IF CountsLeft > 2
         THEN probe' = [probe EXCEPT !.load = probe.load + n]
         ELSE probe' = [probe EXCEPT !.body = probe.body + n]
  BY CountOrder DEF CountJobs, RequestOK, Probes, vars, jobVars, birthVars,
     CountsLeft
<1>7. \/ /\ req.kind = "ready" /\ CountsLeft = 4 /\ CountsLeft' = 3
         /\ Head(req.todo) = "queued"
      \/ /\ req.kind = "ready" /\ CountsLeft = 3 /\ CountsLeft' = 2
         /\ Head(req.todo) = "running"
      \/ CountsLeft = 2 /\ CountsLeft' = 1 /\ Head(req.todo) = "queued"
      \/ CountsLeft = 1 /\ CountsLeft' = 0 /\ Head(req.todo) = "running"
  <2>1. Len(<<>>) = 0
    OBVIOUS
  <2> QED
    BY <1>6, <2>1, CountOrder DEF Todos, Probes, CountsLeft
<1>8. ASSUME probe'.atStart = probe.atStart
      PROVE  Cardinality(Steady') = Cardinality(Steady) /\ Cardinality(Q') = Cardinality(Q)
  <2>1. Steady' = Steady /\ Q' = Q
    BY <1>6, <1>8 DEF Steady, ActiveJobs, WithStatus
  <2> QED
    BY <2>1, Zenon
<1>9. CASE CountsLeft > 2
  <2>1. probe' = [load |-> probe.load + n, body |-> probe.body, atStart |-> probe.atStart]
    BY <1>5, <1>6, <1>9
  <2>2. Cardinality(Steady') = Cardinality(Steady) /\ Cardinality(Q') = Cardinality(Q)
    BY <1>8, <2>1
  <2>3. IsFiniteSet(jobs') /\ probe' \in [load : Nat, body : Nat, atStart : SUBSET jobs']
    <3>1. n \in Nat
      BY <1>4, <1>7
    <3> QED
      BY <1>5, <1>6, <2>1, <3>1 DEF ProbeOK
  <2>4. /\ (CountsLeft = 3)' => Cardinality(Q) <= probe'.load
        /\ (req.kind = "ready" /\ CountsLeft \in {0, 1, 2})' =>
             Cardinality(Steady) <= probe'.load
        /\ CountsLeft' \in {2, 3}
    <3>1. probe'.load = probe.load + n /\ req'.todo = Tail(req.todo) /\ req'.kind = req.kind
      BY <1>6, <2>1
    <3>2. CASE CountsLeft = 4
      <4>1. CountsLeft' = 3 /\ n = Cardinality(WithStatus("queued"))
        BY <1>7, <3>1, <3>2
      <4> QED
        BY <1>2, <1>4, <1>5, <3>1, <4>1
    <3>3. CASE CountsLeft = 3
      <4>1. CountsLeft' = 2 /\ n = Cardinality(WithStatus("running"))
        BY <1>7, <3>1, <3>3
      <4>2. Cardinality(Q) <= probe.load
        BY <1>6, <3>3 DEF ProbeOK
      <4> QED
        BY <1>3, <1>4, <1>5, <3>1, <4>1, <4>2
    <3> QED
      BY <1>7, <1>9, <3>2, <3>3
  <2> QED
    BY <2>2, <2>3, <2>4 DEF ProbeOK
<1>10. CASE CountsLeft <= 2
  <2>1. probe' = [load |-> probe.load, body |-> probe.body + n, atStart |-> probe.atStart]
    BY <1>5, <1>6, <1>7, <1>10
  <2>2. Cardinality(Steady') = Cardinality(Steady) /\ Cardinality(Q') = Cardinality(Q)
    BY <1>8, <2>1
  <2>3. IsFiniteSet(jobs') /\ probe' \in [load : Nat, body : Nat, atStart : SUBSET jobs']
    <3>1. n \in Nat
      BY <1>4, <1>7
    <3> QED
      BY <1>5, <1>6, <2>1, <3>1 DEF ProbeOK
  <2>4. /\ (req.kind = "ready")' => Cardinality(Steady) <= probe'.load
        /\ (CountsLeft = 1)' => Cardinality(Q) <= probe'.body
        /\ (CountsLeft = 0)' => Cardinality(Steady) <= probe'.body
        /\ CountsLeft' \in {0, 1}
    <3>1. /\ probe'.body = probe.body + n /\ probe'.load = probe.load
          /\ req'.todo = Tail(req.todo) /\ req'.kind = req.kind
      BY <1>6, <2>1
    <3>2. CASE CountsLeft = 2
      <4>1. CountsLeft' = 1 /\ n = Cardinality(WithStatus("queued"))
        BY <1>7, <3>1, <3>2
      <4>2. req.kind = "ready" => Cardinality(Steady) <= probe.load
        BY <1>6, <3>2 DEF ProbeOK
      <4> QED
        BY <1>2, <1>4, <1>5, <3>1, <4>1, <4>2
    <3>3. CASE CountsLeft = 1
      <4>1. CountsLeft' = 0 /\ n = Cardinality(WithStatus("running"))
        BY <1>7, <3>1, <3>3
      <4>2. /\ Cardinality(Q) <= probe.body
            /\ req.kind = "ready" => Cardinality(Steady) <= probe.load
        BY <1>6, <3>3 DEF ProbeOK
      <4> QED
        BY <1>3, <1>4, <1>5, <3>1, <4>1, <4>2
    <3> QED
      BY <1>7, <1>10, <3>2, <3>3
  <2> QED
    BY <2>2, <2>3, <2>4 DEF ProbeOK
<1> QED
  BY <1>7, <1>9, <1>10

(* Every step of the handlers and of the manager keeps what a probe has    *)
(* counted at or above what was active throughout.                         *)
LEMMA ProbeStep ==
  ASSUME ProbeInvariant, [ServiceNext]_allVars
  PROVE  ProbeInvariant'
<1> USE DEF ProbeInvariant
<1>1. ReplyInvariant' /\ [Next]_vars
  BY ReplyStep, ServiceStep
<1>2. CASE \/ Next /\ UNCHANGED serviceVars
           \/ UNCHANGED allVars
  BY <1>1, <1>2, ProbeSurvives DEF allVars, serviceVars
<1>3. ASSUME NEW j \in JobIds,
             \/ \E t \in Timeouts : SubmitJob(j, t) \/ PostJob(j, t)
             \/ GetJob(j) \/ GetJobStatus(j) \/ StreamResults(j)
      PROVE  ProbeOK'
  <2>1. req'.kind \notin Probes /\ probe' = probe
    BY <1>3 DEF SubmitJob, PostJob, GetJob, GetJobStatus, StreamResults, Fetch,
       Probes
  <2> QED
    BY <1>1, <2>1, ProbeSurvives
<1>4. ASSUME BeginHealth \/ BeginProbe
      PROVE  ProbeOK'
  <2>1. /\ IsFiniteSet(jobs) /\ ActiveJobs \subseteq jobs /\ jobs' = jobs
        /\ probe' = [load |-> 0, body |-> 0, atStart |-> ActiveJobs]
    BY <1>4 DEF BeginHealth, BeginProbe, ProbeOK, ActiveJobs, NoProbe, vars,
       jobVars, birthVars
  <2>2. \/ req'.kind = "health" /\ CountsLeft' = 2
        \/ req'.kind = "ready" /\ CountsLeft' = 4
    <3>1. CASE BeginHealth
      BY <3>1, CountOrder DEF BeginHealth, CountsLeft
    <3>2. CASE BeginProbe
      <4>1. req'.kind = "ready" /\ req'.todo = ProbeCounts \o ProbeCounts
        BY <3>2 DEF BeginProbe
      <4> QED
        BY <4>1, CountOrder, Zenon DEF CountsLeft
    <3> QED
      BY <1>4, <3>1, <3>2
  <2>3. IsFiniteSet(jobs') /\ probe' \in [load : Nat, body : Nat, atStart : SUBSET jobs']
    BY <2>1
  <2> QED
    BY <2>2, <2>3 DEF ProbeOK
<1>5. CASE ReplySubmitted \/ ReplyJob \/ ReadAttribute \/ SendChunk
  <2>1. (req'.kind \in Probes => req' = req) /\ probe' = probe
    <3>1. /\ req.kind \notin Probes
          /\ req = [kind |-> req.kind, id |-> req.id, todo |-> req.todo]
      BY <1>5 DEF ReplySubmitted, ReplyJob, ReadAttribute, SendChunk, Probes,
         ReplyInvariant, RequestOK
    <3>2. req'.kind \in {req.kind, "none"} /\ probe' = probe
      BY <1>5, <3>1 DEF ReplySubmitted, ReplyJob, ReadAttribute, SendChunk,
         NoRequest
    <3> QED
      BY <3>1, <3>2 DEF Probes
  <2> QED
    BY <1>1, <2>1, ProbeSurvives
<1>6. CASE CountJobs
  BY <1>1, <1>6, CountCovers
<1>7. CASE ReplyProbe
  <2>1. /\ jobs' = jobs /\ req'.kind \notin Probes
        /\ probe' = [load |-> 0, body |-> 0, atStart |-> {}]
    BY <1>7 DEF ReplyProbe, NoProbe, NoRequest, Probes, vars, jobVars, birthVars
  <2> QED
    BY <1>1, <2>1 DEF ProbeOK
<1> QED
  BY <1>1, <1>2, <1>3, <1>4, <1>5, <1>6, <1>7 DEF ServiceNext, Serve

(* Neither probe ever misses a job that was active throughout: for any     *)
(* number of jobs and any threshold, a server that had more jobs than that *)
(* all along never answers "ready".                                        *)
THEOREM ReadinessIsSound == ServiceSpec => []ReadinessNeverMissesLoad
<1>1. ASSUME Init, ServiceInit
      PROVE  ProbeInvariant
  <2>1. /\ jobs = {} /\ req.kind = "none"
        /\ probe = [load |-> 0, body |-> 0, atStart |-> {}]
    BY <1>1 DEF Init, ServiceInit, NoRequest, NoProbe
  <2> QED
    BY <1>1, <2>1, ReplyInitially, FS_EmptySet DEF ProbeInvariant, ProbeOK, Probes
<1>2. ProbeInvariant /\ [ServiceNext]_allVars => ProbeInvariant'
  BY ProbeStep
<1>3. ASSUME ProbeInvariant
      PROVE  ReadinessNeverMissesLoad
  <2>1. IsFiniteSet(Steady)
    BY <1>3, FS_Subset DEF ProbeInvariant, ProbeOK, Steady, ActiveJobs
  <2>2. Cardinality(Steady) \in Nat /\ probe.load \in Nat /\ Len(<<>>) = 0
    BY <1>3, <2>1, FS_CardinalityType DEF ProbeInvariant, ProbeOK
  <2> QED
    BY <1>3, <2>2, ServiceAssumption DEF ProbeInvariant, ProbeOK, CountsLeft,
       ReadinessNeverMissesLoad, Overloaded, Probes, Steady
<1> QED
  BY <1>1, <1>2, <1>3, PTL DEF ServiceSpec

-----------------------------------------------------------------------------
(* The life of the server. *)

Sockets  == {"new", "open", "serving", "draining", "closed"}
Starting == {"idle", "setup", "bind", "cleanup", "grpcStart"}
Started  == {"waiting", "scheduled", "drain", "grpcStop", "stopped"}

ServerTypeOK ==
  /\ running \in BOOLEAN
  /\ event \in {"none", "clear", "set"}
  /\ httpRunner \in 0 .. MaxStarts /\ httpSite \in 0 .. MaxStarts
  /\ grpcServer \in 0 .. MaxStarts
  /\ http \in [Starts -> Sockets] /\ grpc \in [Starts -> Sockets]
  /\ starts \in 0 .. MaxStarts
  /\ task \in [Tasks -> [pc : Starting \cup Started, on : 0 .. MaxStarts]]
  /\ \A s \in Signals : task[s].pc \in Started \cup {"idle"}

Closed(n) == http[n] \in {"new", "closed"} /\ grpc[n] \in {"new", "closed"}

(* The listeners of a start that failed may be left over, and then hold    *)
(* the port; those of every other start but the last are closed.           *)
PastClosed ==
  /\ \A n \in Starts : n > starts => http[n] = "new" /\ grpc[n] = "new"
  /\ \A n \in Starts : n < starts =>
       Closed(n) \/ (task[Main].pc \in Starting \ {"grpcStart"} /\ http[n] = "serving")

(* Until start() has ended nobody stops anything, because nothing runs.    *)
WhileStarting == task[Main].pc \in Starting =>
  /\ ~running /\ ~StopInFlight
  /\ At(Main, "idle") => starts = 0 \/ Closed(starts) \/ http[starts] = "serving"
  /\ ~At(Main, "idle") =>
       /\ starts > 0 /\ event = "clear"
       /\ httpRunner = starts /\ task[Main].on = starts
  /\ task[Main].pc \in {"setup", "bind", "cleanup"} =>
       http[starts] = "new" /\ grpc[starts] = "new"
  /\ task[Main].pc \in {"bind", "grpcStart"} => httpSite = starts
  /\ At(Main, "grpcStart") =>
       http[starts] = "serving" /\ grpc[starts] = "open" /\ grpcServer = starts

Serving ==
  /\ running /\ ~StopInFlight
  /\ httpRunner = starts /\ httpSite = starts /\ http[starts] = "serving"
  /\ grpcServer = starts /\ grpc[starts] = "serving"
  /\ event = "clear"

(* Some stop() has taken the site, and may have drained the runner; none   *)
(* has ended.                                                              *)
BeingStopped ==
  /\ running /\ StopInFlight
  /\ httpSite = None
  /\ \/ httpRunner = starts /\ http[starts] = "draining"
     \/ httpRunner = None /\ http[starts] = "closed"
  /\ grpcServer = starts
  /\ \A t \in Tasks :
       /\ Stopping(t) => task[t].on = starts
       /\ At(t, "grpcStop") => httpRunner = None

(* The first stop() has ended, others may still be on their way.           *)
Stopped ==
  /\ ~running
  /\ httpRunner = None /\ httpSite = None /\ grpcServer = None
  /\ http[starts] = "closed" /\ grpc[starts] = "closed"
  /\ \A t \in Tasks : Stopping(t) => task[t].on = starts

OnceStarted == task[Main].pc \in Started =>
  /\ starts > 0
  /\ Serving \/ BeingStopped \/ Stopped
  /\ At(Main, "stopped") => Stopped

ServerInvariant == ServerTypeOK /\ PastClosed /\ WhileStarting /\ OnceStarted

(* A server that was never started satisfies the invariant.                *)
LEMMA ServerInitially == ServerInit => ServerInvariant
<1> SUFFICES ASSUME ServerInit PROVE ServerInvariant
  OBVIOUS
<1>1. /\ MaxStarts \in Nat /\ starts = 0 /\ Main \in Tasks /\ ~running
      /\ \A t \in Tasks : task[t].pc = "idle"
  BY ServerAssumption DEF ServerInit, Tasks
<1>2. ServerTypeOK
  <2>1. \A s \in Signals : task[s].pc = "idle"
    BY <1>1 DEF Tasks
  <2>2. task \in [Tasks -> [pc : Starting \cup Started, on : 0 .. MaxStarts]]
    <3>1. [pc |-> "idle", on |-> None] \in [pc : Starting \cup Started, on : 0 .. MaxStarts]
      BY <1>1 DEF Starting, None
    <3> QED BY <3>1 DEF ServerInit
  <2>3. /\ http \in [Starts -> Sockets] /\ grpc \in [Starts -> Sockets]
    BY DEF ServerInit, Sockets
  <2> QED BY <1>1, <2>1, <2>2, <2>3 DEF ServerInit, ServerTypeOK, None
<1>3. PastClosed /\ WhileStarting /\ OnceStarted
  BY <1>1 DEF ServerInit, PastClosed, WhileStarting, OnceStarted, Closed, At,
     StopInFlight, Stopping, Starts, Started, Starting
<1> QED BY <1>2, <1>3 DEF ServerInvariant

(* What a step does to the task it moves.                                  *)
LEMMA Moved ==
  ASSUME ServerTypeOK, NEW t \in Tasks, NEW where \in Starting \cup Started,
         NEW what \in 0 .. MaxStarts, Go(t, where, what),
         t # Main => where \in Started \cup {"idle"}
  PROVE  /\ task'[t] = [pc |-> where, on |-> what]
         /\ \A u \in Tasks : u # t => task'[u] = task[u]
         /\ task' \in [Tasks -> [pc : Starting \cup Started, on : 0 .. MaxStarts]]
         /\ \A u \in Signals : task'[u].pc \in Started \cup {"idle"}
<1>1. /\ task' = [task EXCEPT ![t] = [pc |-> where, on |-> what]]
      /\ [pc |-> where, on |-> what] \in [pc : Starting \cup Started, on : 0 .. MaxStarts]
      /\ task \in [Tasks -> [pc : Starting \cup Started, on : 0 .. MaxStarts]]
  BY DEF ServerTypeOK, Go
<1>2. /\ task'[t] = [pc |-> where, on |-> what]
      /\ \A u \in Tasks : u # t => task'[u] = task[u]
      /\ task' \in [Tasks -> [pc : Starting \cup Started, on : 0 .. MaxStarts]]
  BY <1>1
<1>3. \A u \in Signals : u \in Tasks /\ u # Main /\ task[u].pc \in Started \cup {"idle"}
  BY ServerAssumption DEF ServerTypeOK, Tasks
<1>4. ASSUME NEW u \in Signals
      PROVE  task'[u].pc \in Started \cup {"idle"}
  BY <1>2, <1>3
<1> QED BY <1>2, <1>4

(* Every await and every statement between two of them keeps the invariant, *)
(* whichever task runs.                                                    *)
LEMMA ServerStep == ServerInvariant /\ [ServerNext]_serverVars => ServerInvariant'
<1> SUFFICES ASSUME ServerInvariant, [ServerNext]_serverVars
             PROVE  ServerInvariant'
  OBVIOUS
<1> USE DEF Starting, Started
<1>1. /\ MaxStarts \in Nat /\ starts \in 0 .. MaxStarts /\ Main \in Tasks
      /\ Signals \subseteq Tasks /\ Main \notin Signals /\ Tasks = Signals \cup {Main}
      /\ Starts = 1 .. MaxStarts /\ None = 0 /\ running \in BOOLEAN
      /\ http \in [Starts -> Sockets] /\ grpc \in [Starts -> Sockets]
      /\ task \in [Tasks -> [pc : Starting \cup Started, on : 0 .. MaxStarts]]
      /\ \A s \in Signals : task[s].pc \in Started \cup {"idle"}
  BY ServerAssumption DEF ServerInvariant, ServerTypeOK, Tasks, Starts, None
<1>2. PastClosed /\ WhileStarting /\ OnceStarted /\ ServerTypeOK
  BY DEF ServerInvariant
<1>3. CASE Start
  <2>1. ServerTypeOK'
    BY <1>1, <1>2, <1>3 DEF Start, Go, At, objects, flags, ServerTypeOK, Sockets,
       WhileStarting, PastClosed
  <2>2. PastClosed'
    BY <1>1, <1>2, <1>3 DEF Start, Go, At, objects, flags, PastClosed,
       WhileStarting, OnceStarted, Serving, BeingStopped, Stopped, Closed, At,
       StopInFlight, Stopping
  <2>3. WhileStarting'
    BY <1>1, <1>2, <1>3 DEF Start, Go, At, objects, flags, PastClosed,
       WhileStarting, OnceStarted, Serving, BeingStopped, Stopped, Closed, At,
       StopInFlight, Stopping
  <2>4. OnceStarted'
    BY <1>1, <1>2, <1>3 DEF Start, Go, At, objects, flags, PastClosed,
       WhileStarting, OnceStarted, Serving, BeingStopped, Stopped, Closed, At,
       StopInFlight, Stopping
  <2> QED BY <2>1, <2>2, <2>3, <2>4 DEF ServerInvariant
<1>4. CASE HttpSetUp
  <2>1. ServerTypeOK'
    BY <1>1, <1>2, <1>4 DEF HttpSetUp, Go, At, objects, flags, ServerTypeOK,
       Sockets, WhileStarting, PastClosed
  <2>2. PastClosed'
    BY <1>1, <1>2, <1>4 DEF HttpSetUp, Go, At, objects, flags, PastClosed,
       WhileStarting, OnceStarted, Serving, BeingStopped, Stopped, Closed, At,
       StopInFlight, Stopping
  <2>3. WhileStarting'
    BY <1>1, <1>2, <1>4 DEF HttpSetUp, Go, At, objects, flags, PastClosed,
       WhileStarting, OnceStarted, Serving, BeingStopped, Stopped, Closed, At,
       StopInFlight, Stopping
  <2>4. OnceStarted'
    BY <1>1, <1>2, <1>4 DEF HttpSetUp, Go, At, objects, flags, PastClosed,
       WhileStarting, OnceStarted, Serving, BeingStopped, Stopped, Closed, At,
       StopInFlight, Stopping
  <2> QED BY <2>1, <2>2, <2>3, <2>4 DEF ServerInvariant
<1>5. CASE HttpBindFails
  <2>1. ServerTypeOK'
    BY <1>1, <1>2, <1>5 DEF HttpBindFails, Go, At, objects, flags, ServerTypeOK,
       Sockets, WhileStarting, PastClosed
  <2>2. PastClosed'
    BY <1>1, <1>2, <1>5 DEF HttpBindFails, Go, At, objects, flags, PastClosed,
       WhileStarting, OnceStarted, Serving, BeingStopped, Stopped, Closed, At,
       StopInFlight, Stopping
  <2>3. WhileStarting'
    BY <1>1, <1>2, <1>5 DEF HttpBindFails, Go, At, objects, flags, PastClosed,
       WhileStarting, OnceStarted, Serving, BeingStopped, Stopped, Closed, At,
       StopInFlight, Stopping
  <2>4. OnceStarted'
    BY <1>1, <1>2, <1>5 DEF HttpBindFails, Go, At, objects, flags, PastClosed,
       WhileStarting, OnceStarted, Serving, BeingStopped, Stopped, Closed, At,
       StopInFlight, Stopping
  <2> QED BY <2>1, <2>2, <2>3, <2>4 DEF ServerInvariant
<1>6. CASE HttpCleanUp
  <2>1. ServerTypeOK'
    BY <1>1, <1>2, <1>6 DEF HttpCleanUp, Go, At, objects, flags, ServerTypeOK,
       Sockets, WhileStarting, PastClosed
  <2>2. PastClosed'
    BY <1>1, <1>2, <1>6 DEF HttpCleanUp, Go, At, objects, flags, PastClosed,
       WhileStarting, OnceStarted, Serving, BeingStopped, Stopped, Closed, At,
       StopInFlight, Stopping
  <2>3. WhileStarting'
    BY <1>1, <1>2, <1>6 DEF HttpCleanUp, Go, At, objects, flags, PastClosed,
       WhileStarting, OnceStarted, Serving, BeingStopped, Stopped, Closed, At,
       StopInFlight, Stopping
  <2>4. OnceStarted'
    BY <1>1, <1>2, <1>6 DEF HttpCleanUp, Go, At, objects, flags, PastClosed,
       WhileStarting, OnceStarted, Serving, BeingStopped, Stopped, Closed, At,
       StopInFlight, Stopping
  <2> QED BY <2>1, <2>2, <2>3, <2>4 DEF ServerInvariant
<1>7. ASSUME NEW free \in BOOLEAN, HttpBinds(free)
      PROVE  ServerInvariant'
  <2>1. ServerTypeOK'
    <3>1. /\ At(Main, "bind") /\ httpRunner = starts /\ starts \in Starts
          /\ http' = [http EXCEPT ![starts] = "serving"] /\ grpcServer' = starts
          /\ UNCHANGED <<httpRunner, httpSite, flags, starts>>
      BY <1>1, <1>2, <1>7 DEF HttpBinds, WhileStarting, At
    <3>2. http' \in [Starts -> Sockets]
      BY <1>1, <3>1 DEF Sockets
    <3>3. \E where \in {"grpcStart", "idle"}, what \in {starts, None} : Go(Main, where, what)
      BY <1>7 DEF HttpBinds
    <3>4. /\ task' \in [Tasks -> [pc : Starting \cup Started, on : 0 .. MaxStarts]]
          /\ \A u \in Signals : task'[u].pc \in Started \cup {"idle"}
      <4>1. PICK where \in {"grpcStart", "idle"}, what \in {starts, None} :
              Go(Main, where, what)
        BY <3>3
      <4>2. what \in 0 .. MaxStarts /\ where \in Starting \cup Started
        BY <1>1
      <4> QED BY <1>1, <1>2, <4>1, <4>2, Moved
    <3>5. grpc' = [grpc EXCEPT ![starts] = "open"] \/ grpc' = grpc
      BY <1>7 DEF HttpBinds
    <3>6. grpc' \in [Starts -> Sockets]
      BY <1>1, <3>1, <3>5 DEF Sockets
    <3> QED BY <1>1, <1>2, <3>1, <3>2, <3>4, <3>6 DEF ServerTypeOK, flags
  <2>2. PastClosed'
    BY <1>1, <1>2, <1>7 DEF HttpBinds, HttpPortTaken, Go, At, objects, flags,
       PastClosed, WhileStarting, OnceStarted, Serving, BeingStopped, Stopped,
       Closed, At, StopInFlight, Stopping
  <2>3. WhileStarting'
    BY <1>1, <1>2, <1>7 DEF HttpBinds, HttpPortTaken, Go, At, objects, flags,
       PastClosed, WhileStarting, OnceStarted, Serving, BeingStopped, Stopped,
       Closed, At, StopInFlight, Stopping
  <2>4. OnceStarted'
    BY <1>1, <1>2, <1>7 DEF HttpBinds, HttpPortTaken, Go, At, objects, flags,
       PastClosed, WhileStarting, OnceStarted, Serving, BeingStopped, Stopped,
       Closed, At, StopInFlight, Stopping
  <2> QED BY <2>1, <2>2, <2>3, <2>4 DEF ServerInvariant
<1>8. CASE GrpcStarts
  <2>1. ServerTypeOK'
    BY <1>1, <1>2, <1>8 DEF GrpcStarts, Go, At, objects, flags, ServerTypeOK,
       Sockets, WhileStarting, PastClosed
  <2>2. PastClosed'
    BY <1>1, <1>2, <1>8 DEF GrpcStarts, Go, At, objects, flags, PastClosed,
       WhileStarting, OnceStarted, Serving, BeingStopped, Stopped, Closed, At,
       StopInFlight, Stopping
  <2>3. WhileStarting'
    BY <1>1, <1>2, <1>8 DEF GrpcStarts, Go, At, objects, flags, PastClosed,
       WhileStarting, OnceStarted, Serving, BeingStopped, Stopped, Closed, At,
       StopInFlight, Stopping
  <2>4. OnceStarted'
    BY <1>1, <1>2, <1>8 DEF GrpcStarts, Go, At, objects, flags, PastClosed,
       WhileStarting, OnceStarted, Serving, BeingStopped, Stopped, Closed, At,
       StopInFlight, Stopping
  <2> QED BY <2>1, <2>2, <2>3, <2>4 DEF ServerInvariant
<1>9. CASE GrpcStartFails
  <2>1. ServerTypeOK'
    BY <1>1, <1>2, <1>9 DEF GrpcStartFails, Go, At, objects, flags, ServerTypeOK,
       Sockets, WhileStarting, PastClosed
  <2>2. PastClosed'
    BY <1>1, <1>2, <1>9 DEF GrpcStartFails, Go, At, objects, flags, PastClosed,
       WhileStarting, OnceStarted, Serving, BeingStopped, Stopped, Closed, At,
       StopInFlight, Stopping
  <2>3. WhileStarting'
    BY <1>1, <1>2, <1>9 DEF GrpcStartFails, Go, At, objects, flags, PastClosed,
       WhileStarting, OnceStarted, Serving, BeingStopped, Stopped, Closed, At,
       StopInFlight, Stopping
  <2>4. OnceStarted'
    BY <1>1, <1>2, <1>9 DEF GrpcStartFails, Go, At, objects, flags, PastClosed,
       WhileStarting, OnceStarted, Serving, BeingStopped, Stopped, Closed, At,
       StopInFlight, Stopping
  <2> QED BY <2>1, <2>2, <2>3, <2>4 DEF ServerInvariant
<1>10. ASSUME NEW s \in Signals, SignalArrives(s)
      PROVE  ServerInvariant'
  <2>1. ServerTypeOK'
    BY <1>1, <1>2, <1>10 DEF SignalArrives, Go, At, objects, flags, ServerTypeOK,
       Sockets, WhileStarting, PastClosed
  <2>2. PastClosed'
    BY <1>1, <1>2, <1>10 DEF SignalArrives, Go, At, objects, flags, PastClosed,
       WhileStarting, OnceStarted, Serving, BeingStopped, Stopped, Closed, At,
       StopInFlight, Stopping
  <2>3. WhileStarting'
    BY <1>1, <1>2, <1>10 DEF SignalArrives, Go, At, objects, flags, PastClosed,
       WhileStarting, OnceStarted, Serving, BeingStopped, Stopped, Closed, At,
       StopInFlight, Stopping
  <2>4. OnceStarted'
    BY <1>1, <1>2, <1>10 DEF SignalArrives, Go, At, objects, flags, PastClosed,
       WhileStarting, OnceStarted, Serving, BeingStopped, Stopped, Closed, At,
       StopInFlight, Stopping
  <2> QED BY <2>1, <2>2, <2>3, <2>4 DEF ServerInvariant
<1>11. ASSUME NEW why \in {"event", "own"}, WaitEnds(why)
      PROVE  ServerInvariant'
  <2>1. ServerTypeOK'
    BY <1>1, <1>2, <1>11 DEF WaitEnds, Go, At, objects, flags, ServerTypeOK,
       Sockets, WhileStarting, PastClosed
  <2>2. PastClosed'
    BY <1>1, <1>2, <1>11 DEF WaitEnds, Go, At, objects, flags, PastClosed,
       WhileStarting, OnceStarted, Serving, BeingStopped, Stopped, Closed, At,
       StopInFlight, Stopping
  <2>3. WhileStarting'
    BY <1>1, <1>2, <1>11 DEF WaitEnds, Go, At, objects, flags, PastClosed,
       WhileStarting, OnceStarted, Serving, BeingStopped, Stopped, Closed, At,
       StopInFlight, Stopping
  <2>4. OnceStarted'
    BY <1>1, <1>2, <1>11 DEF WaitEnds, Go, At, objects, flags, PastClosed,
       WhileStarting, OnceStarted, Serving, BeingStopped, Stopped, Closed, At,
       StopInFlight, Stopping
  <2> QED BY <2>1, <2>2, <2>3, <2>4 DEF ServerInvariant
<1>12. ASSUME NEW t \in Tasks, StopHttp(t)
      PROVE  ServerInvariant'
  <2>1. ServerTypeOK'
    BY <1>1, <1>2, <1>12 DEF StopHttp, EnterStop, StopSite, Go, At, objects, flags,
       ServerTypeOK, Sockets, WhileStarting, PastClosed
  <2>2. PastClosed'
    BY <1>1, <1>2, <1>12 DEF StopHttp, EnterStop, StopSite, Go, At, objects, flags,
       PastClosed, WhileStarting, OnceStarted, Serving, BeingStopped, Stopped,
       Closed, At, StopInFlight, Stopping
  <2>3. WhileStarting'
    BY <1>1, <1>2, <1>12 DEF StopHttp, EnterStop, StopSite, Go, At, objects, flags,
       PastClosed, WhileStarting, OnceStarted, Serving, BeingStopped, Stopped,
       Closed, At, StopInFlight, Stopping
  <2>4. OnceStarted'
    BY <1>1, <1>2, <1>12 DEF StopHttp, EnterStop, StopSite, Go, At, objects, flags,
       PastClosed, WhileStarting, OnceStarted, Serving, BeingStopped, Stopped,
       Closed, At, StopInFlight, Stopping
  <2> QED BY <2>1, <2>2, <2>3, <2>4 DEF ServerInvariant
<1>13. ASSUME NEW t \in Tasks, StopAfterHttp(t)
      PROVE  ServerInvariant'
  <2>1. BeingStopped /\ task[Main].pc \in Started \ {"stopped"} /\ starts \in Starts
    BY <1>1, <1>2, <1>13 DEF StopAfterHttp, WhileStarting, OnceStarted, Serving,
       Stopped, At
  <2>2. /\ grpcServer = starts /\ httpRunner = None /\ At(t, "scheduled")
        /\ http[starts] = "closed"
        /\ grpc' = [grpc EXCEPT ![starts] = IF @ = "closed" THEN @ ELSE "draining"]
        /\ Go(t, "grpcStop", starts)
        /\ UNCHANGED <<flags, httpRunner, httpSite, grpcServer, http, starts>>
    BY <1>1, <1>13, <2>1 DEF StopAfterHttp, EnterStopGrpc, BeingStopped, Stopped
  <2>3. /\ task'[t] = [pc |-> "grpcStop", on |-> starts]
        /\ \A u \in Tasks : u # t => task'[u] = task[u]
        /\ task' \in [Tasks -> [pc : Starting \cup Started, on : 0 .. MaxStarts]]
        /\ \A u \in Signals : task'[u].pc \in Started \cup {"idle"}
    BY <1>1, <1>2, <2>2, Moved
  <2>4. /\ grpc' \in [Starts -> Sockets]
        /\ \A n \in Starts : n # starts => grpc'[n] = grpc[n]
    BY <1>1, <2>1, <2>2 DEF Sockets
  <2>5. ServerTypeOK'
    BY <1>1, <1>2, <2>2, <2>3, <2>4 DEF ServerTypeOK, flags
  <2>6. task'[Main].pc \in Started \ {"stopped"}
    BY <1>1, <2>1, <2>3
  <2>7. PastClosed'
    BY <1>1, <1>2, <2>1, <2>2, <2>4, <2>6 DEF PastClosed, Closed
  <2>8. BeingStopped'
    <3>1. StopInFlight'
      BY <2>3 DEF StopInFlight, Stopping
    <3>2. ASSUME NEW u \in Tasks
          PROVE  (Stopping(u) => task[u].on = starts)' /\ (At(u, "grpcStop") => httpRunner = None)'
      BY <2>1, <2>2, <2>3 DEF BeingStopped, Stopping, At
    <3> QED BY <2>1, <2>2, <3>1, <3>2 DEF BeingStopped, flags
  <2>9. OnceStarted' /\ WhileStarting'
    BY <1>1, <2>1, <2>2, <2>6, <2>8 DEF OnceStarted, WhileStarting, At
  <2> QED BY <2>5, <2>7, <2>9 DEF ServerInvariant
<1>14. ASSUME NEW t \in Tasks, StopNotRunning(t)
      PROVE  ServerInvariant'
  <2>1. ServerTypeOK'
    BY <1>1, <1>2, <1>14 DEF StopNotRunning, Go, At, objects, flags, ServerTypeOK,
       Sockets, WhileStarting, PastClosed
  <2>2. PastClosed'
    BY <1>1, <1>2, <1>14 DEF StopNotRunning, Go, At, objects, flags, PastClosed,
       WhileStarting, OnceStarted, Serving, BeingStopped, Stopped, Closed, At,
       StopInFlight, Stopping
  <2>3. WhileStarting'
    BY <1>1, <1>2, <1>14 DEF StopNotRunning, Go, At, objects, flags, PastClosed,
       WhileStarting, OnceStarted, Serving, BeingStopped, Stopped, Closed, At,
       StopInFlight, Stopping
  <2>4. OnceStarted'
    BY <1>1, <1>2, <1>14 DEF StopNotRunning, Go, At, objects, flags, PastClosed,
       WhileStarting, OnceStarted, Serving, BeingStopped, Stopped, Closed, At,
       StopInFlight, Stopping
  <2> QED BY <2>1, <2>2, <2>3, <2>4 DEF ServerInvariant
<1>15. ASSUME NEW t \in Tasks, Drained(t)
      PROVE  ServerInvariant'
  <2>1. /\ BeingStopped \/ Stopped
        /\ task[Main].pc \in Started \ {"stopped"} \/ Stopped
        /\ task[Main].pc \in Started
        /\ starts \in Starts /\ task[t].on = starts
    BY <1>1, <1>2, <1>15 DEF Drained, At, WhileStarting, OnceStarted, Serving,
       BeingStopped, Stopped, StopInFlight, Stopping
  <2>2. /\ At(t, "drain") /\ http' = [http EXCEPT ![starts] = "closed"] /\ httpRunner' = None
        /\ UNCHANGED <<httpSite, grpcServer, starts>>
    BY <1>15, <2>1 DEF Drained
  <2>3. /\ http' \in [Starts -> Sockets] /\ http'[starts] = "closed"
        /\ \A n \in Starts : n # starts => http'[n] = http[n]
    BY <1>1, <2>1, <2>2 DEF Sockets
  <2>4. CASE BeingStopped
    <3>1. /\ grpcServer = starts
          /\ grpc' = [grpc EXCEPT ![starts] = IF @ = "closed" THEN @ ELSE "draining"]
          /\ Go(t, "grpcStop", starts) /\ UNCHANGED flags
      BY <1>1, <1>15, <2>1, <2>4 DEF Drained, EnterStopGrpc, BeingStopped
    <3>2. /\ task'[t] = [pc |-> "grpcStop", on |-> starts]
          /\ \A u \in Tasks : u # t => task'[u] = task[u]
          /\ task' \in [Tasks -> [pc : Starting \cup Started, on : 0 .. MaxStarts]]
          /\ \A u \in Signals : task'[u].pc \in Started \cup {"idle"}
      BY <1>1, <1>2, <3>1, Moved
    <3>3. /\ grpc' \in [Starts -> Sockets]
          /\ \A n \in Starts : n # starts => grpc'[n] = grpc[n]
      BY <1>1, <2>1, <3>1 DEF Sockets
    <3>4. ServerTypeOK'
      BY <1>1, <1>2, <2>2, <2>3, <3>1, <3>2, <3>3 DEF ServerTypeOK, flags, None
    <3>5. task'[Main].pc \in Started \ {"stopped"}
      <4>1. ~Stopped
        BY <2>4 DEF BeingStopped, Stopped
      <4> QED
        BY <1>1, <2>1, <3>2, <4>1
    <3>6. PastClosed'
      <4>1. \A n \in Starts : n # starts => http'[n] = http[n] /\ grpc'[n] = grpc[n]
        BY <2>3, <3>3
      <4>2. starts' = starts /\ starts \in Nat /\ Starts \subseteq Nat
        BY <1>1, <2>1, <2>2
      <4>3. \A n \in Starts : n > starts => http[n] = "new" /\ grpc[n] = "new"
        BY <1>1, <1>2 DEF PastClosed
      <4>4. \A n \in Starts : n < starts =>
              http[n] \in {"new", "closed"} /\ grpc[n] \in {"new", "closed"}
        BY <1>1, <1>2, <2>1 DEF PastClosed, Closed, Starting, Started
      <4>5. ASSUME NEW n \in Starts, n > starts'
            PROVE  http'[n] = "new" /\ grpc'[n] = "new"
        <5>1. n # starts /\ n > starts
          BY <4>2, <4>5
        <5> QED
          BY <4>1, <4>3, <5>1
      <4>6. ASSUME NEW n \in Starts, n < starts'
            PROVE  Closed(n)'
        <5>1. n # starts /\ n < starts
          BY <4>2, <4>6
        <5> QED
          BY <4>1, <4>4, <5>1 DEF Closed
      <4> QED
        BY <4>5, <4>6 DEF PastClosed
    <3>7. BeingStopped'
      <4>1. StopInFlight'
        BY <3>2 DEF StopInFlight, Stopping
      <4>2. ASSUME NEW u \in Tasks
            PROVE  (Stopping(u) => task[u].on = starts)' /\ (At(u, "grpcStop") => httpRunner = None)'
        BY <2>2, <2>4, <3>2 DEF BeingStopped, Stopping, At
      <4> QED BY <2>2, <2>3, <2>4, <3>1, <4>1, <4>2 DEF BeingStopped, flags
    <3>8. OnceStarted' /\ WhileStarting'
      BY <1>1, <2>1, <2>2, <3>5, <3>7 DEF OnceStarted, WhileStarting, At
    <3> QED BY <3>4, <3>6, <3>8 DEF ServerInvariant
  <2>5. CASE Stopped
    <3>1. grpcServer = None /\ EndOfStop /\ Go(t, "stopped", None) /\ UNCHANGED grpc
      BY <1>15, <2>5 DEF Drained, EnterStopGrpc, Stopped
    <3>2. /\ task'[t] = [pc |-> "stopped", on |-> None]
          /\ \A u \in Tasks : u # t => task'[u] = task[u]
          /\ task' \in [Tasks -> [pc : Starting \cup Started, on : 0 .. MaxStarts]]
          /\ \A u \in Signals : task'[u].pc \in Started \cup {"idle"}
      BY <1>1, <1>2, <3>1, Moved
    <3>3. ServerTypeOK'
      BY <1>1, <1>2, <2>2, <2>3, <3>1, <3>2 DEF ServerTypeOK, EndOfStop, None
    <3>4. task'[Main].pc \in Started
      BY <1>1, <2>1, <3>2
    <3>5. PastClosed'
      <4>1. \A n \in Starts : n # starts => http'[n] = http[n] /\ grpc'[n] = grpc[n]
        BY <2>3, <3>1
      <4>2. starts' = starts /\ starts \in Nat /\ Starts \subseteq Nat
        BY <1>1, <2>1, <2>2
      <4>3. \A n \in Starts : n > starts => http[n] = "new" /\ grpc[n] = "new"
        BY <1>1, <1>2 DEF PastClosed
      <4>4. \A n \in Starts : n < starts =>
              http[n] \in {"new", "closed"} /\ grpc[n] \in {"new", "closed"}
        BY <1>1, <1>2, <2>1 DEF PastClosed, Closed, Starting, Started
      <4>5. ASSUME NEW n \in Starts, n > starts'
            PROVE  http'[n] = "new" /\ grpc'[n] = "new"
        <5>1. n # starts /\ n > starts
          BY <4>2, <4>5
        <5> QED
          BY <4>1, <4>3, <5>1
      <4>6. ASSUME NEW n \in Starts, n < starts'
            PROVE  Closed(n)'
        <5>1. n # starts /\ n < starts
          BY <4>2, <4>6
        <5> QED
          BY <4>1, <4>4, <5>1 DEF Closed
      <4> QED
        BY <4>5, <4>6 DEF PastClosed
    <3>6. Stopped'
      <4>1. ~running' /\ httpRunner' = None /\ httpSite' = None /\ grpcServer' = None
        BY <2>2, <2>5, <3>1 DEF Stopped, EndOfStop
      <4>2. http'[starts] = "closed" /\ grpc'[starts] = "closed" /\ starts' = starts
        BY <2>2, <2>3, <2>5, <3>1 DEF Stopped
      <4>3. \A u \in Tasks : Stopping(u)' => task'[u].on = starts
        BY <2>5, <3>2 DEF Stopped, Stopping
      <4> QED
        BY <4>1, <4>2, <4>3 DEF Stopped
    <3>7. OnceStarted' /\ WhileStarting'
      BY <1>1, <2>1, <2>2, <3>4, <3>6 DEF OnceStarted, WhileStarting
    <3> QED BY <3>3, <3>5, <3>7 DEF ServerInvariant
  <2> QED BY <2>1, <2>4, <2>5
<1>16. ASSUME NEW t \in Tasks, GrpcStopped(t)
      PROVE  ServerInvariant'
  <2>1. /\ BeingStopped \/ Stopped
        /\ task[Main].pc \in Started /\ starts \in Starts /\ task[t].on = starts
        /\ httpRunner = None /\ httpSite = None /\ http[starts] = "closed"
    BY <1>1, <1>2, <1>16 DEF GrpcStopped, At, WhileStarting, OnceStarted, Serving,
       BeingStopped, Stopped, StopInFlight, Stopping
  <2>2. /\ grpc' = [grpc EXCEPT ![starts] = "closed"] /\ grpcServer' = None
        /\ EndOfStop /\ Go(t, "stopped", None)
        /\ UNCHANGED <<httpRunner, httpSite, http, starts>>
    BY <1>16, <2>1 DEF GrpcStopped
  <2>3. /\ task'[t] = [pc |-> "stopped", on |-> None]
        /\ \A u \in Tasks : u # t => task'[u] = task[u]
        /\ task' \in [Tasks -> [pc : Starting \cup Started, on : 0 .. MaxStarts]]
        /\ \A u \in Signals : task'[u].pc \in Started \cup {"idle"}
    BY <1>1, <1>2, <2>2, Moved
  <2>4. /\ grpc' \in [Starts -> Sockets] /\ grpc'[starts] = "closed"
        /\ \A n \in Starts : n # starts => grpc'[n] = grpc[n]
    BY <1>1, <2>1, <2>2 DEF Sockets
  <2>5. ServerTypeOK'
    <3>1. running' = FALSE /\ event' = event
      BY <2>2 DEF EndOfStop
    <3>2. grpcServer' \in 0 .. MaxStarts
      BY <1>1, <2>2
    <3> QED BY <1>2, <2>2, <2>3, <2>4, <3>1, <3>2 DEF ServerTypeOK
  <2>6. task'[Main].pc \in Started
    BY <1>1, <2>1, <2>3
  <2>7. PastClosed'
    BY <1>1, <1>2, <2>1, <2>2, <2>4, <2>6 DEF PastClosed, Closed
  <2>8. Stopped'
    <3>1. \A u \in Tasks : Stopping(u) => task[u].on = starts
      BY <2>1 DEF BeingStopped, Stopped
    <3>2. ASSUME NEW u \in Tasks
          PROVE  (Stopping(u) => task[u].on = starts)'
      BY <2>2, <2>3, <3>1 DEF Stopping
    <3> QED BY <2>1, <2>2, <2>4, <3>2 DEF Stopped, EndOfStop
  <2>9. OnceStarted' /\ WhileStarting'
    BY <1>1, <2>1, <2>2, <2>6, <2>8 DEF OnceStarted, WhileStarting
  <2> QED BY <2>5, <2>7, <2>9 DEF ServerInvariant
<1>17. CASE UNCHANGED serverVars
  BY <1>2, <1>17 DEF serverVars, objects, flags, ServerInvariant, ServerTypeOK,
     PastClosed, WhileStarting, OnceStarted, Serving, BeingStopped, Stopped, Closed,
     At, StopInFlight, Stopping
<1> QED
  BY <1>3, <1>4, <1>5, <1>6, <1>7, <1>8, <1>9, <1>10, <1>11, <1>12, <1>13, <1>14,
     <1>15, <1>16, <1>17 DEF ServerNext, StartSteps, Stop

(* The invariant contains both promises of the server's life.              *)
LEMMA ServerInvariantSuffices == ServerInvariant => RunningMeansServing /\ StopReturnsDrained
<1> SUFFICES ASSUME ServerInvariant PROVE RunningMeansServing /\ StopReturnsDrained
  OBVIOUS
<1> USE DEF Starting, Started
<1>1. /\ task[Main].pc \in Starting \cup Started
      /\ starts \in Nat /\ Starts \subseteq Nat
      /\ PastClosed /\ WhileStarting /\ OnceStarted
  BY ServerAssumption DEF ServerInvariant, ServerTypeOK, Tasks, Starts
<1>2. RunningMeansServing
  BY <1>1 DEF RunningMeansServing, WhileStarting, OnceStarted, Serving,
     BeingStopped, Stopped, None
<1>3. StopReturnsDrained
  BY <1>1 DEF StopReturnsDrained, AllClosed, At, OnceStarted, Stopped, PastClosed,
     Closed
<1> QED BY <1>2, <1>3

(* A server that says it is running, with no stop() under way, serves both *)
(* protocols and nobody has been told to shut down, for any number of      *)
(* signals and starts.                                                     *)
THEOREM RunningAlwaysServes == ServerSpec => []RunningMeansServing
BY ServerInitially, ServerStep, ServerInvariantSuffices, PTL DEF ServerSpec

(* When the program's own stop() returns both listeners are drained and    *)
(* closed, whichever stops of signals ran beside it.                       *)
THEOREM StopAlwaysReturnsDrained == ServerSpec => []StopReturnsDrained
BY ServerInitially, ServerStep, ServerInvariantSuffices, PTL DEF ServerSpec

-----------------------------------------------------------------------------
(* TRANSFERS *)

(* What the serializer may still have to read. *)
Rests ==
  {FieldOrder,
   <<"startedAt", "completedAt", "result", "error", "workerId">>,
   <<"completedAt", "result", "error", "workerId">>,
   <<"result", "error", "workerId">>, <<"error", "workerId">>, <<"workerId">>, <<>>}

Messages ==
  [status : Statuses \cup {"absent"}, startedAt : Times, completedAt : Times,
   result : Results \cup {NoValue}, error : Errors \cup {Cancelled, NoValue},
   workerId : Workers \cup {NoValue}]

(* What fields of job j, of which some are still to be read, may say.      *)
Faithful(fields, j, unread) ==
  /\ fields.status \in Terminal => fields.status = status[j]
  /\ fields.startedAt # NoTime =>
       /\ startedAt[j] = fields.startedAt
       /\ "workerId" \in unread \/ fields.workerId = workerId[j]
  /\ fields.completedAt # NoTime =>
       /\ completedAt[j] = fields.completedAt
       /\ "result" \in unread \/ fields.result = result[j]
       /\ "error" \in unread \/ fields.error = error[j]
  /\ fields.result # NoValue => result[j] = fields.result
  /\ fields.error # NoValue => error[j] = fields.error
  /\ fields.workerId # NoValue => workerId[j] = fields.workerId
  /\ "result" \in unread => fields.result = NoValue
  /\ "error" \in unread => fields.error = NoValue
  /\ "workerId" \in unread => fields.workerId = NoValue

(* An optional field that was there when it was tested.                    *)
Tested(j, f) ==
  \/ f = "startedAt" /\ startedAt[j] # NoTime
  \/ f = "completedAt" /\ completedAt[j] # NoTime
  \/ f = "result" /\ result[j] # NoValue
  \/ f = "error" /\ error[j] # NoValue
  \/ f = "workerId" /\ workerId[j] # NoValue

DraftShape ==
  /\ draft = [call |-> draft.call, id |-> draft.id, fields |-> draft.fields,
              todo |-> draft.todo, tested |-> draft.tested]
  /\ draft.call \in {"json", "proto"}
  /\ draft.id \in jobs
  /\ draft.fields \in Messages
  /\ draft.todo \in Rests
  /\ draft.tested \in BOOLEAN

DraftOK == draft = NoDraft \/
  /\ DraftShape
  /\ Faithful(draft.fields, draft.id, Pending(draft.todo))
  /\ draft.tested => draft.todo # <<>> /\ Tested(draft.id, Head(draft.todo))

WireShape ==
  /\ wire = [call |-> wire.call, form |-> wire.form, id |-> wire.id,
             fields |-> wire.fields, dict |-> wire.dict, verdict |-> wire.verdict]
  /\ wire.verdict \in {"none", "sent", "accepted", "refused"}
  /\ wire.fields \in Messages

WireOK ==
  /\ WireShape
  /\ wire.id # NoValue => wire.id \in jobs /\ Faithful(wire.fields, wire.id, {})

(* How a message came to be refused. *)
VerdictOK ==
  /\ wire.verdict = "none" \/ wire.call = "json" \/ wire.call = "proto"
  /\ wire.call = "json" => wire.form = "json"
  /\ wire.call = "proto" =>
       /\ wire.form = IF hosts.sender THEN "proto" ELSE "json"
       /\ Validates(wire.dict)
  /\ RefusalsJustified

TransferInvariant == IInv /\ DraftOK /\ WireOK /\ VerdictOK

(* What any step of the manager does to a job that has begun or has ended. *)
LEMMA FieldStep ==
  ASSUME IInv, [Next]_vars, NEW j \in JobIds
  PROVE  /\ startedAt[j] # NoTime =>
              startedAt'[j] = startedAt[j] /\ workerId'[j] = workerId[j]
         /\ workerId[j] # NoValue => workerId'[j] = workerId[j]
<1> USE DEF IInv, TypeOK
<1>1. CASE WriteDetail
  BY <1>1, CallShape DEF WriteDetail, WriteWorker, WriteResult, WriteError, Holds,
     MidRecords, MidRecord, Idle, stampVars
<1>2. CASE WriteStamp
  BY <1>2, CallShape DEF WriteStamp, MidRecords, MidRecord, Idle
<1>3. CASE StampPromoted
  BY <1>3 DEF StampPromoted
<1>4. CASE ~WriteDetail /\ ~WriteStamp /\ ~StampPromoted
  BY <1>4 DEF Next, CreateJob, InsertJob, StartJob, CompleteJob, FailJob,
     CancelRunning, CancelQueued, Begin, InLock, SettlePromoted, Tick, vars, jobVars,
     stampVars
<1> QED
  BY <1>1, <1>2, <1>3, <1>4

(* A message that is true of a job stays true. *)
LEMMA FaithfulStep ==
  ASSUME IInv, [Next]_vars, NEW j \in jobs, NEW m \in Messages, NEW unread,
         Faithful(m, j, unread)
  PROVE  /\ j \in jobs'
         /\ m.status \in Terminal => m.status = status'[j]
         /\ m.startedAt # NoTime =>
              /\ startedAt'[j] = m.startedAt
              /\ "workerId" \in unread \/ m.workerId = workerId'[j]
         /\ m.completedAt # NoTime =>
              /\ completedAt'[j] = m.completedAt
              /\ "result" \in unread \/ m.result = result'[j]
              /\ "error" \in unread \/ m.error = error'[j]
         /\ m.result # NoValue => result'[j] = m.result
         /\ m.error # NoValue => error'[j] = m.error
         /\ m.workerId # NoValue => workerId'[j] = m.workerId
<1>1. j \in JobIds /\ status[j] # "absent"
  BY DEF IInv, TypeOK, Tracked
<1>2. status[j] \in Terminal => status'[j] = status[j]
  BY <1>1, LiveStep DEF Later, Terminal
<1>3. completedAt[j] # NoTime =>
        /\ completedAt'[j] = completedAt[j]
        /\ result'[j] = result[j] /\ error'[j] = error[j]
  BY <1>1, VerdictStep
<1>4. /\ result[j] # NoValue => result'[j] = result[j]
      /\ error[j] # NoValue => error'[j] = error[j]
      /\ jobs \subseteq jobs'
  BY <1>1, LiveStep
<1>5. /\ startedAt[j] # NoTime =>
           startedAt'[j] = startedAt[j] /\ workerId'[j] = workerId[j]
      /\ workerId[j] # NoValue => workerId'[j] = workerId[j]
  BY <1>1, FieldStep
<1> QED
  BY <1>2, <1>3, <1>4, <1>5 DEF Faithful

(* So a step of the manager disturbs neither the serializer nor a message. *)
LEMMA ManagerKeeps ==
  ASSUME IInv, [Next]_vars, DraftOK, UNCHANGED draft
  PROVE  DraftOK'
<1>1. CASE draft = NoDraft
  BY <1>1 DEF DraftOK, NoDraft, Blank
<1>2. CASE draft # NoDraft
  <2>1. DraftShape /\ Faithful(draft.fields, draft.id, Pending(draft.todo))
    BY <1>2 DEF DraftOK
  <2>2. draft.id \in jobs /\ draft.id \in JobIds /\ draft.fields \in Messages
    BY <2>1 DEF DraftShape, IInv, TypeOK
  <2>3. draft.id \in jobs' /\ Faithful(draft.fields, draft.id, Pending(draft.todo))'
    <3>1. PICK i \in jobs, m \in Messages, unread \in {Pending(draft.todo)} :
            i = draft.id /\ m = draft.fields /\ unread = Pending(draft.todo)
      BY <2>2
    <3>2. Faithful(m, i, unread)
      BY <2>1, <3>1
    <3>3. i = draft'.id /\ m = draft'.fields /\ unread = Pending(draft.todo)'
      BY <3>1 DEF Pending
    <3>4. i \in jobs' /\ Faithful(m, i, unread)'
      BY <3>2, FaithfulStep DEF Faithful
    <3> QED
      BY <3>3, <3>4
  <2>4. Tested(draft.id, Head(draft.todo)) => Tested(draft.id, Head(draft.todo))'
    BY <2>2, FieldStep, LiveStep, VerdictStep DEF Tested
  <2>5. DraftShape'
    BY <2>1, <2>3 DEF DraftShape, Messages, Rests
  <2> QED
    BY <1>2, <2>3, <2>4, <2>5 DEF DraftOK
<1> QED
  BY <1>1, <1>2

(* Nor is a message on its way disturbed by the manager.                   *)
LEMMA WireKeeps ==
  ASSUME IInv, [Next]_vars, WireOK, VerdictOK, UNCHANGED <<wire, hosts>>
  PROVE  WireOK' /\ VerdictOK'
<1>1. WireShape' /\ VerdictOK'
  BY DEF WireOK, WireShape, VerdictOK, RefusalsJustified, Messages, Validates
<1>2. CASE wire.id = NoValue
  BY <1>1, <1>2 DEF WireOK
<1>3. CASE wire.id # NoValue
  <2>1. wire.id \in jobs /\ wire.fields \in Messages /\ Faithful(wire.fields, wire.id, {})
    BY <1>3 DEF WireOK, WireShape
  <2>2. wire.id \in jobs' /\ Faithful(wire.fields, wire.id, {})'
    <3>1. PICK i \in jobs, m \in Messages, unread \in {{}} :
            i = wire.id /\ m = wire.fields
      BY <2>1
    <3>2. Faithful(m, i, unread)
      BY <2>1, <3>1
    <3>3. i = wire'.id /\ m = wire'.fields /\ unread = {}
      BY <3>1
    <3>4. i \in jobs' /\ Faithful(m, i, unread)'
      BY <3>2, FaithfulStep DEF Faithful
    <3> QED
      BY <3>3, <3>4
  <2> QED
    BY <1>1, <2>2 DEF WireOK
<1> QED
  BY <1>2, <1>3

(* The order of the reads: what each leaves to be read. *)
LEMMA ReadNext ==
  ASSUME NEW t \in Rests, t # <<>>
  PROVE  /\ Tail(t) \in Rests
         /\ Head(t) \in Optional \cup {"status"}
         /\ \A f \in {"result", "error", "workerId"} :
              f \in Pending(Tail(t)) <=> f \in Pending(t) /\ f # Head(t)
         /\ Head(t) = "startedAt" => "workerId" \in Pending(Tail(t))
         /\ Head(t) = "completedAt" =>
              {"result", "error"} \subseteq Pending(Tail(t))
<1> USE DEF Rests, FieldOrder, Pending, Optional
<1>1. CASE t = FieldOrder
  <2>1. /\ Tail(t) = <<"startedAt", "completedAt", "result", "error", "workerId">>
        /\ Head(t) = "status"
    BY <1>1
  <2> QED
    BY <1>1, <2>1
<1>2. CASE t = <<"startedAt", "completedAt", "result", "error", "workerId">>
  <2>1. /\ Tail(t) = <<"completedAt", "result", "error", "workerId">>
        /\ Head(t) = "startedAt"
    BY <1>2
  <2> QED
    BY <1>2, <2>1
<1>3. CASE t = <<"completedAt", "result", "error", "workerId">>
  <2>1. Tail(t) = <<"result", "error", "workerId">> /\ Head(t) = "completedAt"
    BY <1>3
  <2> QED
    BY <1>3, <2>1
<1>4. CASE t = <<"result", "error", "workerId">>
  <2>1. Tail(t) = <<"error", "workerId">> /\ Head(t) = "result"
    BY <1>4
  <2> QED
    BY <1>4, <2>1
<1>5. CASE t = <<"error", "workerId">>
  <2>1. Tail(t) = <<"workerId">> /\ Head(t) = "error"
    BY <1>5
  <2> QED
    BY <1>5, <2>1
<1>6. CASE t = <<"workerId">>
  <2>1. Tail(t) = <<>> /\ Head(t) = "workerId"
    BY <1>6
  <2> QED
    BY <1>6, <2>1
<1> QED
  BY <1>1, <1>2, <1>3, <1>4, <1>5, <1>6

(* One read of the serializer: what it writes is true of the job, what it  *)
(* skips the job lacks, and what it tests is there to stay.                *)
LEMMA FieldReadKeeps ==
  ASSUME TransferInvariant, ReadField
  PROVE  DraftOK'
<1>1. draft # NoDraft /\ DraftShape
  BY DEF ReadField, NoDraft, TransferInvariant, DraftOK
<1>2. PICK j \in jobs, m \in Messages, t \in Rests :
        j = draft.id /\ m = draft.fields /\ t = draft.todo
  BY <1>1 DEF DraftShape
<1>3. Faithful(m, j, Pending(t)) /\ t # <<>>
  BY <1>1, <1>2 DEF ReadField, TransferInvariant, DraftOK
<1>4. j \in JobIds
  BY DEF TransferInvariant, IInv, TypeOK
<1>5. PICK rest \in Rests : rest = Tail(t)
  BY <1>3, ReadNext
<1>6. /\ \A f \in {"result", "error", "workerId"} :
           f \in Pending(rest) <=> f \in Pending(t) /\ f # Head(t)
      /\ Head(t) = "startedAt" => "workerId" \in Pending(rest)
      /\ Head(t) = "completedAt" => {"result", "error"} \subseteq Pending(rest)
      /\ Head(t) \in Optional \cup {"status"}
  BY <1>3, <1>5, ReadNext
<1>7. /\ jobs' = jobs /\ status' = status /\ startedAt' = startedAt
      /\ completedAt' = completedAt /\ result' = result /\ error' = error
      /\ workerId' = workerId
  BY DEF ReadField, vars, jobVars, birthVars, stampVars, outcomeVars
<1>8. ASSUME NEW k \in Messages, NEW left \in Rests, NEW b \in BOOLEAN,
             draft' = [draft EXCEPT !.fields = k, !.todo = left, !.tested = b],
             Faithful(k, j, Pending(left)),
             b => left # <<>> /\ Tested(j, Head(left))
      PROVE  DraftOK'
  <2>1. draft' = [call |-> draft.call, id |-> j, fields |-> k, todo |-> left, tested |-> b]
    BY <1>1, <1>2, <1>8 DEF DraftShape
  <2>2. DraftShape'
    BY <1>1, <1>7, <2>1 DEF DraftShape, Messages, Rests
  <2>3. Faithful(k, j, Pending(left))'
    BY <1>7, <1>8 DEF Faithful, Pending
  <2>4. b => left # <<>> /\ Tested(j, Head(left))'
    BY <1>7, <1>8 DEF Tested
  <2> QED
    BY <2>1, <2>2, <2>3, <2>4 DEF DraftOK
<1>9. /\ draft.tested \in BOOLEAN
      /\ \/ /\ Head(t) \notin Optional \/ draft.tested
            /\ draft' = [draft EXCEPT !.fields[Head(t)] = LiveJob(j)[Head(t)],
                                      !.todo = rest, !.tested = FALSE]
         \/ /\ ~draft.tested /\ Head(t) \in Optional
            /\ LiveJob(j)[Head(t)] = Blank[Head(t)]
            /\ draft' = [draft EXCEPT !.todo = rest]
         \/ /\ ~draft.tested /\ Head(t) \in Optional
            /\ LiveJob(j)[Head(t)] # Blank[Head(t)]
            /\ draft' = [draft EXCEPT !.tested = TRUE]
  BY <1>1, <1>2, <1>5 DEF ReadField, DraftShape
<1>10. CASE /\ ~draft.tested /\ Head(t) \in Optional
            /\ LiveJob(j)[Head(t)] # Blank[Head(t)]
            /\ draft' = [draft EXCEPT !.tested = TRUE]
  <2>1. draft' = [draft EXCEPT !.fields = m, !.todo = t, !.tested = TRUE]
    BY <1>1, <1>2, <1>10 DEF DraftShape
  <2>2. Tested(j, Head(t))
    BY <1>10 DEF Tested, LiveJob, Blank, Optional
  <2> QED
    BY <1>3, <1>8, <2>1, <2>2
<1>11. CASE /\ ~draft.tested /\ Head(t) \in Optional
            /\ LiveJob(j)[Head(t)] = Blank[Head(t)]
            /\ draft' = [draft EXCEPT !.todo = rest]
  <2>1. draft' = [draft EXCEPT !.fields = m, !.todo = rest, !.tested = FALSE]
    BY <1>1, <1>2, <1>11 DEF DraftShape
  <2>2. Faithful(m, j, Pending(rest))
    BY <1>3, <1>6, <1>11 DEF Faithful, LiveJob, Blank, Optional
  <2> QED
    BY <1>8, <2>1, <2>2
<1>12. CASE draft' = [draft EXCEPT !.fields[Head(t)] = LiveJob(j)[Head(t)],
                                  !.todo = rest, !.tested = FALSE]
  <2>1. PICK f \in Optional \cup {"status"} : f = Head(t)
    BY <1>6
  <2> DEFINE n == [m EXCEPT ![f] = LiveJob(j)[f]]
  <2>2. draft' = [draft EXCEPT !.fields = n, !.todo = rest, !.tested = FALSE]
    BY <1>1, <1>2, <1>12, <2>1 DEF DraftShape
  <2>3. LiveJob(j) \in Messages
    BY <1>4 DEF LiveJob, Messages, TransferInvariant, IInv, TypeOK
  <2>4. n \in Messages
    BY <2>1, <2>3 DEF Messages, Optional
  <2>5. /\ n.status = IF f = "status" THEN status[j] ELSE m.status
        /\ n.startedAt = IF f = "startedAt" THEN startedAt[j] ELSE m.startedAt
        /\ n.completedAt = IF f = "completedAt" THEN completedAt[j] ELSE m.completedAt
        /\ n.result = IF f = "result" THEN result[j] ELSE m.result
        /\ n.error = IF f = "error" THEN error[j] ELSE m.error
        /\ n.workerId = IF f = "workerId" THEN workerId[j] ELSE m.workerId
    BY DEF LiveJob, Messages
  <2> HIDE DEF n
  <2>6. Faithful(n, j, Pending(rest))
    <3>1. CASE f \in {"status", "startedAt", "completedAt"}
      BY <1>3, <1>6, <2>1, <2>5, <3>1 DEF Faithful
    <3>2. CASE f \in {"result", "error", "workerId"}
      BY <1>3, <1>6, <2>1, <2>5, <3>2 DEF Faithful
    <3> QED
      BY <3>1, <3>2 DEF Optional
  <2> QED
    BY <1>8, <2>2, <2>4, <2>6
<1> QED
  BY <1>9, <1>10, <1>11, <1>12, Zenon

(* Who starts, ends or receives a message keeps the invariant. *)
LEMMA MessageKeeps ==
  ASSUME TransferInvariant, JobMessageNext \/ DictNext
  PROVE  DraftOK' /\ WireOK' /\ VerdictOK'
<1> USE DEF TransferInvariant
<1>0. [Next]_vars => IInv'
  BY NextIInv, StutterIInv
<1>1. CASE Next /\ UNCHANGED messageVars
  BY <1>1, ManagerKeeps, WireKeeps DEF messageVars
<1>2. ASSUME NEW j \in JobIds, NEW callee \in {"json", "proto"}, SerializeJob(j, callee)
      PROVE  DraftOK' /\ WireOK' /\ VerdictOK'
  <2>1. draft' = [call |-> callee, id |-> j, fields |-> Blank, todo |-> FieldOrder,
                  tested |-> FALSE] /\ j \in jobs /\ wire' = NoMessage
        /\ UNCHANGED <<vars, hosts>>
    BY <1>2 DEF SerializeJob
  <2>2. Blank \in Messages
    BY DEF Blank, Messages, Times, NoTime
  <2>3. DraftShape'
    BY <2>1, <2>2 DEF DraftShape, Messages, Rests, vars, jobVars, birthVars
  <2>4. Faithful(Blank, j, Pending(FieldOrder))'
    BY DEF Faithful, Blank, Terminal
  <2>5. DraftOK'
    BY <2>1, <2>3, <2>4 DEF DraftOK
  <2>6. WireOK'
    BY <2>1, <2>2 DEF WireOK, WireShape, NoMessage, Messages
  <2>7. VerdictOK'
    BY <2>1 DEF VerdictOK, NoMessage, RefusalsJustified
  <2> QED
    BY <2>5, <2>6, <2>7
<1>3. CASE ReadField
  <2>1. UNCHANGED <<vars, hosts, wire>>
    BY <1>3 DEF ReadField
  <2> QED
    BY <1>3, <2>1, FieldReadKeeps, WireKeeps
<1>4. CASE SendJob
  <2>1. /\ draft # NoDraft /\ draft.todo = <<>> /\ draft' = NoDraft
        /\ wire' = [call |-> draft.call, form |-> Form(draft.call), id |-> draft.id,
                    fields |-> draft.fields, dict |-> DictOf(draft.fields),
                    verdict |-> "sent"]
        /\ UNCHANGED <<vars, hosts>>
    BY <1>4 DEF SendJob
  <2>2. DraftShape /\ Faithful(draft.fields, draft.id, Pending(<<>>))
    BY <2>1 DEF DraftOK
  <2>3. Pending(<<>>) = {}
    BY DEF Pending
  <2>4. UNCHANGED <<jobs, status, startedAt, completedAt, result, error, workerId>>
    BY <2>1 DEF vars, jobVars, birthVars, stampVars, outcomeVars
  <2>5. wire'.id \in jobs' /\ Faithful(wire.fields, wire.id, {})'
    BY <2>1, <2>2, <2>3, <2>4 DEF Faithful, DraftShape
  <2>6. WireShape'
    BY <2>1, <2>2 DEF WireShape, DraftShape, Messages
  <2>7. VerdictOK'
    BY <2>1, <2>2 DEF VerdictOK, DraftShape, RefusalsJustified, Validates, DictOf, Form
  <2>8. DraftOK'
    BY <2>1 DEF DraftOK, NoDraft, Blank
  <2> QED
    BY <2>5, <2>6, <2>7, <2>8 DEF WireOK
<1>5. ASSUME NEW d \in Dicts, SendDict(d)
      PROVE  DraftOK' /\ WireOK' /\ VerdictOK'
  <2>1. /\ draft = NoDraft /\ UNCHANGED <<vars, hosts, draft>>
        /\ wire' = [call |-> "json", form |-> "json", id |-> NoValue, fields |-> Blank,
                    dict |-> d, verdict |-> "sent"]
    BY <1>5 DEF SendDict, NoMessage
  <2>2. Blank \in Messages'
    BY DEF Blank, Messages, Times, NoTime
  <2>3. WireOK' /\ VerdictOK'
    BY <2>1, <2>2 DEF WireOK, WireShape, VerdictOK, RefusalsJustified
  <2> QED
    BY <2>1, <2>3 DEF DraftOK, NoDraft, Blank
<1>6. ASSUME NEW j \in JobIds, SendResult(j)
      PROVE  DraftOK' /\ WireOK' /\ VerdictOK'
  <2>0. PICK m : m = [Blank EXCEPT !.result = result[j]]
    OBVIOUS
  <2>1. /\ draft = NoDraft /\ UNCHANGED <<vars, hosts, draft>> /\ j \in jobs
        /\ wire' = [call |-> "json", form |-> "json", id |-> j, fields |-> m,
                    dict |-> NoMessage.dict, verdict |-> "sent"]
    BY <1>6, <2>0 DEF SendResult, NoMessage
  <2>2. m = [status |-> "absent", startedAt |-> NoTime, completedAt |-> NoTime,
             result |-> result[j], error |-> NoValue, workerId |-> NoValue]
    BY <2>0 DEF Blank
  <2>3. UNCHANGED <<jobs, status, startedAt, completedAt, result, error, workerId>>
    BY <2>1 DEF vars, jobVars, birthVars, stampVars, outcomeVars
  <2>4. m \in Messages'
    BY <2>2 DEF Messages, Times, NoTime, IInv, TypeOK
  <2>5. Faithful(m, j, {})'
    BY <2>2, <2>3 DEF Faithful, Terminal
  <2>6. WireOK' /\ VerdictOK'
    BY <2>1, <2>3, <2>4, <2>5 DEF WireOK, WireShape, VerdictOK, RefusalsJustified
  <2> QED
    BY <2>1, <2>6 DEF DraftOK, NoDraft, Blank
<1>7. CASE Receive
  <2>1. /\ wire.verdict = "sent" /\ UNCHANGED <<vars, hosts, draft>>
        /\ wire' = [wire EXCEPT !.verdict =
                     IF Understands(wire) THEN "accepted" ELSE "refused"]
    BY <1>7 DEF Receive
  <2>2. wire' = [call |-> wire.call, form |-> wire.form, id |-> wire.id,
                 fields |-> wire.fields, dict |-> wire.dict,
                 verdict |-> IF Understands(wire) THEN "accepted" ELSE "refused"]
    BY <2>1 DEF WireOK, WireShape
  <2>3. UNCHANGED <<jobs, status, startedAt, completedAt, result, error, workerId>>
    BY <2>1 DEF vars, jobVars, birthVars, stampVars, outcomeVars
  <2>4. WireOK'
    BY <2>2, <2>3 DEF WireOK, WireShape, Messages, Faithful
  <2>5. VerdictOK'
    BY <2>1, <2>2 DEF VerdictOK, RefusalsJustified, Understands, ParsesJson, Validates
  <2> QED
    BY <2>1, <2>4, <2>5, ManagerKeeps
<1> QED
  BY <1>1, <1>2, <1>3, <1>4, <1>5, <1>6, <1>7 DEF JobMessageNext, DictNext

(* The chunks of a transfer: all full but for the last, which has what was *)
(* left of the tensor, and of one moment unless the buffer is shared.      *)
TensorOK ==
  /\ tensor = [kind |-> tensor.kind, contiguous |-> tensor.contiguous,
               made |-> tensor.made, size |-> tensor.size, chunks |-> tensor.chunks,
               open |-> tensor.open]
  /\ tensor.size \in Nat
  /\ tensor.open \in BOOLEAN
  /\ tensor.chunks \in Seq([bytes : Int, version : Nat])
  /\ LET n == Len(tensor.chunks)
     IN  /\ n > 0 => Chunk * (n - 1) < tensor.size
         /\ ~tensor.open => Chunk * n >= tensor.size
         /\ \A k \in 1 .. n :
              /\ tensor.chunks[k].bytes =
                   IF k < n \/ Chunk < tensor.size - Chunk * (n - 1)
                   THEN Chunk ELSE tensor.size - Chunk * (n - 1)
              /\ Shares(tensor.kind, tensor.contiguous)
                   \/ tensor.chunks[k].version = tensor.made
  /\ tensor.made \in Nat /\ written \in Nat

(* The number of chunks that just cover a tensor is the quotient rounded up. *)
LEMMA RoundedUp ==
  ASSUME NEW n \in Nat, NEW s \in Nat, Chunk * n >= s, n > 0 => Chunk * (n - 1) < s
  PROVE  n = (s + Chunk - 1) \div Chunk
<1> DEFINE q == (s + Chunk - 1) \div Chunk
           r == (s + Chunk - 1) % Chunk
<1>1. Chunk \in Nat \ {0}
  BY SerializationAssumption
<1>2. q \in Int /\ r \in 0 .. Chunk - 1 /\ s + Chunk - 1 = Chunk * q + r
  BY <1>1
<1>3. Chunk * q >= s /\ Chunk * q < s + Chunk
  BY <1>1, <1>2
<1>4. q >= 0
  <2>1. ASSUME q < 0 PROVE FALSE
    <3>1. PICK d \in Nat : q = 0 - 1 - d
      <4>1. 0 - 1 - q \in Nat /\ q = 0 - 1 - (0 - 1 - q)
        BY <1>2, <2>1
      <4> QED
        BY <4>1
    <3>2. Chunk * q = 0 - Chunk - Chunk * d
      BY <1>1, <3>1
    <3>3. Chunk * d >= 0 /\ Chunk * d \in Int
      BY <1>1
    <3> QED
      BY <1>1, <1>3, <3>2, <3>3
  <2> QED
    BY <1>2, <2>1
<1> HIDE DEF q, r
<1>5. ASSUME n < q
      PROVE  FALSE
  <2>1. PICK d \in Nat : q = n + 1 + d
    <3>1. q - n - 1 \in Nat /\ q = n + 1 + (q - n - 1)
      BY <1>2, <1>5
    <3> QED
      BY <3>1
  <2>2. Chunk * q = Chunk * n + Chunk + Chunk * d
    BY <1>1, <2>1
  <2>3. Chunk * d >= 0 /\ Chunk * d \in Int /\ Chunk * n \in Int
    BY <1>1
  <2> QED
    BY <1>1, <1>3, <2>2, <2>3
<1>6. ASSUME q < n
      PROVE  FALSE
  <2>1. PICK d \in Nat : n = q + 1 + d
    <3>1. n - q - 1 \in Nat /\ n = q + 1 + (n - q - 1)
      BY <1>2, <1>6
    <3> QED
      BY <3>1
  <2>2. Chunk * (n - 1) = Chunk * q + Chunk * d
    BY <1>1, <1>2, <2>1
  <2>3. Chunk * d >= 0 /\ Chunk * d \in Int /\ Chunk * q \in Int
    BY <1>1, <1>2
  <2>4. n > 0
    BY <1>2, <1>4, <1>6
  <2> QED
    BY <1>1, <1>3, <2>2, <2>3, <2>4
<1>7. n = q
  BY <1>2, <1>5, <1>6
<1> QED
  BY <1>7 DEF q

(* Before the first transfer there is nothing to get wrong.                *)
LEMMA TensorInitially == TensorInit => TensorOK
BY SerializationAssumption DEF TensorInit, NoTensor, TensorOK, Shares

(* Each turn of the loop yields the next full chunk, or the rest of the    *)
(* tensor and then no more, whatever the owner writes meanwhile.           *)
LEMMA TensorKeeps ==
  ASSUME TensorOK, [TensorNext]_tensorVars
  PROVE  TensorOK'
<1>0. Chunk \in Nat \ {0} /\ TensorSizes \subseteq Nat /\ MaxWrites \in Nat
  BY SerializationAssumption
<1>1. ASSUME NEW kind \in {"bytes", "bytearray", "memoryview"}, NEW contiguous \in BOOLEAN,
             NEW s \in TensorSizes, SerializeTensor(kind, contiguous, s)
      PROVE  TensorOK'
  BY <1>0, <1>1 DEF SerializeTensor, TensorOK
<1>2. CASE YieldChunk
  <2>1. PICK s \in Nat, n \in Nat, p \in Int, c \in Seq([bytes : Int, version : Nat]) :
          /\ s = tensor.size /\ c = tensor.chunks /\ n = Len(c) /\ p = Chunk * n
    <3>1. /\ tensor.size \in Nat /\ tensor.chunks \in Seq([bytes : Int, version : Nat])
          /\ tensor.made \in Nat /\ written \in Nat
      BY DEF TensorOK
    <3>2. Len(tensor.chunks) \in Nat
      BY <3>1
    <3>3. Chunk * Len(tensor.chunks) \in Int
      BY <1>0, <3>2
    <3> QED
      BY <3>1, <3>2, <3>3
  <2>2. p < s /\ (n > 0 => Chunk < s - Chunk * (n - 1))
    <3>1. p < s
      BY <1>2, <2>1 DEF YieldChunk, Sent
    <3>2. Chunk * (n - 1) = p - Chunk
      BY <1>0, <2>1
    <3> QED
      BY <1>0, <3>1, <3>2
  <2>3. PICK chunk \in [bytes : Int, version : Nat] :
          chunk = [bytes |-> IF Chunk < s - p THEN Chunk ELSE s - p,
                   version |-> IF Shares(tensor.kind, tensor.contiguous)
                               THEN written ELSE tensor.made]
    <3>1. (IF Chunk < s - p THEN Chunk ELSE s - p) \in Int
      BY <1>0
    <3>2. tensor.made \in Nat /\ written \in Nat
      BY DEF TensorOK
    <3>3. (IF Shares(tensor.kind, tensor.contiguous) THEN written ELSE tensor.made) \in Nat
      BY <3>2, Zenon
    <3> QED
      BY <3>1, <3>3
  <2>4. tensor' = [tensor EXCEPT !.chunks = Append(c, chunk)] /\ written' = written
    BY <1>2, <2>1, <2>3 DEF YieldChunk, Sent
  <2>5. /\ tensor' = [kind |-> tensor.kind, contiguous |-> tensor.contiguous,
                      made |-> tensor.made, size |-> s, chunks |-> Append(c, chunk),
                      open |-> tensor.open]
        /\ tensor.open
    BY <1>2, <2>1, <2>4 DEF TensorOK, YieldChunk
  <2>6. /\ Len(Append(c, chunk)) = n + 1
        /\ Append(c, chunk) \in Seq([bytes : Int, version : Nat])
        /\ \A k \in 1 .. n : Append(c, chunk)[k] = c[k]
        /\ Append(c, chunk)[n + 1] = chunk
    BY <2>1
  <2>7. ASSUME NEW k \in 1 .. n + 1
        PROVE  /\ Append(c, chunk)[k].bytes =
                    IF k < n + 1 \/ Chunk < s - p THEN Chunk ELSE s - p
               /\ Shares(tensor.kind, tensor.contiguous)
                    \/ Append(c, chunk)[k].version = tensor.made
    <3>1. CASE k \in 1 .. n
      <4>1. n > 0 /\ k < n + 1
        BY <3>1
      <4>2. /\ c[k].bytes = IF k < n \/ Chunk < s - Chunk * (n - 1)
                            THEN Chunk ELSE s - Chunk * (n - 1)
            /\ Shares(tensor.kind, tensor.contiguous) \/ c[k].version = tensor.made
        BY <2>1, <3>1 DEF TensorOK
      <4> QED
        BY <2>2, <2>6, <3>1, <4>1, <4>2
    <3>2. CASE k = n + 1
      <4>1. ~(k < n + 1)
        BY <3>2
      <4> QED
        BY <2>3, <2>6, <3>2, <4>1
    <3>3. k \in 1 .. n \/ k = n + 1
      OBVIOUS
    <3> QED
      BY <3>1, <3>2, <3>3, Zenon
  <2>8. /\ tensor'.kind = tensor.kind /\ tensor'.contiguous = tensor.contiguous
        /\ tensor'.made = tensor.made /\ tensor'.size = s /\ tensor'.open
        /\ tensor'.chunks = Append(c, chunk) /\ Len(tensor'.chunks) = n + 1
        /\ Len(tensor'.chunks) - 1 = n /\ Chunk * (Len(tensor'.chunks) - 1) = p
    BY <2>1, <2>5, <2>6
  <2>9. \A k \in 1 .. Len(tensor'.chunks) :
          /\ tensor'.chunks[k].bytes =
               IF k < Len(tensor'.chunks)
                  \/ Chunk < tensor'.size - Chunk * (Len(tensor'.chunks) - 1)
               THEN Chunk ELSE tensor'.size - Chunk * (Len(tensor'.chunks) - 1)
          /\ Shares(tensor'.kind, tensor'.contiguous)
               \/ tensor'.chunks[k].version = tensor'.made
    BY <2>7, <2>8
  <2>10. /\ tensor'.open \in BOOLEAN /\ tensor'.made \in Nat /\ written' \in Nat
    BY <2>4, <2>5, <2>8 DEF TensorOK
  <2> QED
    BY <2>1, <2>2, <2>5, <2>6, <2>8, <2>9, <2>10 DEF TensorOK
<1>3. CASE EndTensor
  BY <1>3 DEF EndTensor, TensorOK, Sent
<1>4. CASE WriteBuffer
  BY <1>4 DEF WriteBuffer, TensorOK
<1>5. CASE UNCHANGED tensorVars
  BY <1>5 DEF tensorVars, TensorOK
<1> QED
  BY <1>1, <1>2, <1>3, <1>4, <1>5 DEF TensorNext

(* A transfer that ended has yielded every byte.                           *)
LEMMA TensorSuffices == TensorOK => TensorsWhole
<1> SUFFICES ASSUME TensorOK, tensor # NoTensor, ~tensor.open
             PROVE  LET n == Len(tensor.chunks)
                    IN  /\ n = (tensor.size + Chunk - 1) \div Chunk
                        /\ \A k \in 1 .. n :
                             /\ tensor.chunks[k].bytes =
                                  IF k < n THEN Chunk ELSE tensor.size - Chunk * (n - 1)
                             /\ ~tensor.contiguous =>
                                  tensor.chunks[k].version = tensor.made
  BY DEF TensorsWhole
<1>1. PICK s \in Nat, n \in Nat : s = tensor.size /\ n = Len(tensor.chunks)
  BY DEF TensorOK
<1>2. Chunk * n >= s /\ (n > 0 => Chunk * (n - 1) < s) /\ Chunk \in Nat \ {0}
  BY <1>1, SerializationAssumption DEF TensorOK
<1>3. n = (s + Chunk - 1) \div Chunk
  BY <1>2, RoundedUp
<1>4. Chunk * (n - 1) \in Int /\ Chunk * n = Chunk * (n - 1) + Chunk
  BY <1>1, <1>2
<1>5. ~(Chunk < s - Chunk * (n - 1))
  BY <1>2, <1>4
<1> QED
  BY <1>1, <1>3, <1>5 DEF TensorOK, Shares

(* Before the first message the invariant holds.                           *)
LEMMA TransferInitially ==
  Init /\ MessageInit /\ TensorInit => TransferInvariant /\ TensorOK
<1> SUFFICES ASSUME Init, MessageInit, TensorInit
             PROVE  TransferInvariant /\ TensorOK
  OBVIOUS
<1>1. IInv /\ TensorOK
  BY InitIInv, TensorInitially
<1>2. draft = NoDraft /\ wire = NoMessage
  BY DEF MessageInit
<1>3. DraftOK
  BY <1>2 DEF DraftOK
<1>4. Blank \in Messages
  BY DEF Blank, Messages, Times, NoTime
<1>5. WireOK
  BY <1>2, <1>4 DEF WireOK, WireShape, NoMessage
<1>6. VerdictOK
  BY <1>2 DEF VerdictOK, NoMessage, RefusalsJustified
<1> QED
  BY <1>1, <1>3, <1>5, <1>6 DEF TransferInvariant

(* Every step of messages and tensors keeps the invariant.                 *)
LEMMA TransferStep ==
  TransferInvariant /\ TensorOK /\ [TransferNext]_transferVars
    => TransferInvariant' /\ TensorOK'
<1> SUFFICES ASSUME TransferInvariant, TensorOK, [TransferNext]_transferVars
             PROVE  TransferInvariant' /\ TensorOK'
  OBVIOUS
<1>1. CASE MessageNext /\ UNCHANGED tensorVars
  <2>1. [Next]_vars
    BY <1>1 DEF MessageNext, JobMessageNext, DictNext, SerializeJob, ReadField, SendJob,
       SendDict, SendResult, Receive
  <2>2. IInv'
    BY <2>1, NextIInv, StutterIInv DEF TransferInvariant
  <2>3. DraftOK' /\ WireOK' /\ VerdictOK'
    BY <1>1, MessageKeeps DEF MessageNext
  <2>4. TensorOK'
    BY <1>1, TensorKeeps
  <2> QED
    BY <2>2, <2>3, <2>4 DEF TransferInvariant
<1>2. CASE TensorNext /\ UNCHANGED <<vars, messageVars>>
  <2>1. IInv' /\ DraftOK' /\ WireOK' /\ VerdictOK'
    BY <1>2, StutterIInv, ManagerKeeps, WireKeeps DEF TransferInvariant, messageVars
  <2>2. TensorOK'
    BY <1>2, TensorKeeps
  <2> QED
    BY <2>1, <2>2 DEF TransferInvariant
<1>3. CASE UNCHANGED transferVars
  <2>1. UNCHANGED vars /\ UNCHANGED messageVars /\ UNCHANGED tensorVars
    BY <1>3 DEF transferVars
  <2>2. IInv' /\ DraftOK' /\ WireOK' /\ VerdictOK'
    BY <2>1, StutterIInv, ManagerKeeps, WireKeeps DEF TransferInvariant, messageVars
  <2>3. TensorOK'
    BY <2>1, TensorKeeps
  <2> QED
    BY <2>2, <2>3 DEF TransferInvariant
<1> QED
  BY <1>1, <1>2, <1>3 DEF TransferNext

(* The invariant contains what is promised of a transfer.                  *)
LEMMA TransferSuffices ==
  ASSUME TransferInvariant, TensorOK
  PROVE  TransfersFaithful
<1> USE DEF TransferInvariant
<1>1. FieldsTrue
  <2> SUFFICES ASSUME wire.id # NoValue PROVE FieldsTrue
    BY DEF FieldsTrue
  <2>1. PICK j \in JobIds, m \in Messages : j = wire.id /\ m = wire.fields
    BY DEF WireOK, WireShape, IInv, TypeOK
  <2>2. Faithful(m, j, {})
    BY <2>1 DEF WireOK
  <2>3. /\ result[j] # NoValue => status[j] = "completed"
        /\ error[j] # NoValue => status[j] \in {"failed", "timeout"}
        /\ completedAt[j] # NoTime => RecordOf(j)
    BY OutcomeMatches
  <2>4. /\ m.startedAt # NoTime => m.startedAt = startedAt[j] /\ m.workerId = workerId[j]
        /\ m.completedAt # NoTime =>
             /\ m.completedAt = completedAt[j]
             /\ m.result = result[j] /\ m.error = error[j]
        /\ m.result # NoValue => m.result = result[j]
        /\ m.error # NoValue => m.error = error[j]
        /\ m.workerId # NoValue => m.workerId = workerId[j]
        /\ m.status \in Terminal => m.status = status[j]
    BY <2>2 DEF Faithful
  <2>5. ASSUME NEW f \in Optional, Present(m, f)
        PROVE  m[f] = LiveJob(j)[f]
    BY <2>4, <2>5 DEF Optional, Present, Blank, LiveJob
  <2>6. ~(m.result # NoValue /\ m.error # NoValue)
    BY <2>3, <2>4
  <2>7. m.completedAt # NoTime => m.result # NoValue \/ m.error # NoValue
    BY <2>3, <2>4, ValuesAssumption DEF RecordOf, Terminal
  <2>8. /\ Present(m, "result") <=> m.result # NoValue
        /\ Present(m, "error") <=> m.error # NoValue
        /\ Present(m, "completedAt") <=> m.completedAt # NoTime
        /\ Present(m, "startedAt") <=> m.startedAt # NoTime
    BY DEF Present, Blank
  <2> QED
    BY <2>1, <2>4, <2>5, <2>6, <2>7, <2>8 DEF FieldsTrue
<1>2. TestsHold
  BY DEF TestsHold, DraftOK, NoDraft, Tested, LiveJob, Blank
<1>3. RefusalsJustified /\ TensorsWhole
  BY TensorSuffices DEF VerdictOK
<1> QED
  BY <1>1, <1>2, <1>3 DEF TransfersFaithful

(* What a host receives is what the sender had: a job message never says   *)
(* what its job contradicts, the serializer never meets None where it      *)
(* tested, only hosts that differ refuse a valid message, and tensors      *)
(* arrive whole, for any jobs, values, lengths and chunk size.             *)
THEOREM TransfersAlwaysFaithful == TransferSpec => []TransfersFaithful
<1>1. TransferInvariant /\ TensorOK => TransfersFaithful
  BY TransferSuffices
<1> QED
  BY <1>1, TransferInitially, TransferStep, PTL DEF TransferSpec
=============================================================================
