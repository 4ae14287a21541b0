----------------------------- MODULE JobService -----------------------------
(***************************************************************************)
(* The handlers: POST /jobs and GET /jobs/{id} (rest_api.py), SubmitJob,   *)
(* GetJobStatus and StreamResults (grpc_service.py), GET /health and       *)
(* /health/ready (health.py).  They run on one event loop, so one handler  *)
(* is in progress at a time; the mutators of JobManager run on other       *)
(* threads and may interleave between any two attribute reads, because     *)
(* get_job returns the live Job.                                           *)
(*                                                                         *)
(* A result is represented by its length in bytes: the handlers cut it and *)
(* count it, they never look inside.                                       *)
(***************************************************************************)
EXTENDS JobManager, Sequences, FiniteSets

CONSTANTS
  ChunkSize,         (* _STREAM_CHUNK_SIZE                                 *)
  OverloadThreshold  (* HealthService(overload_threshold)                  *)

ASSUME ServiceAssumption ==
  /\ Results \subseteq Nat
  /\ ChunkSize \in Nat \ {0}
  /\ OverloadThreshold \in Nat

VARIABLES
  req,     (* the handler in progress: its kind, job and reads to come      *)
  view,    (* the attributes of the live Job it has read so far             *)
  stream,  (* the last StreamResults reply: job, bytes and chunks received  *)
  probe,   (* the counts of the health or readiness probe in progress, and  *)
           (* the jobs that were active when it began (history)             *)
  seen     (* seen[j]: the status last replied to the client polling j      *)

serviceVars == <<req, view, stream, probe, seen>>
allVars     == <<vars, serviceVars>>

(* The attributes each handler reads, in its order. *)
RestReads   == <<"status", "result", "error">>

(* Mutant: completed_at is read with the other attributes, after status.   *)
LateStampReads == <<"status", "result", "error", "completedAt">>

GrpcReads   == <<"completedAt", "status", "result", "error">>
StreamReads == <<"status", "result">>

(* Mutant: running jobs are counted before queued ones.                    *)
RunningFirst == <<"running", "queued">>

(* _active_job_count makes two list_jobs calls.                            *)
ProbeCounts == <<"queued", "running">>

Live(j) == [status |-> status[j], result |-> result[j],
            error |-> error[j], completedAt |-> completedAt[j]]

Unread    == [status |-> "queued", result |-> NoValue, error |-> NoValue,
              completedAt |-> NoTime]
NoRequest == [kind |-> "none", id |-> NoValue, todo |-> <<>>]
NoStream  == [id |-> NoValue, bytes |-> 0, chunks |-> 0, last |-> FALSE]
NoProbe   == [load |-> 0, body |-> 0, atStart |-> {}]

WithStatus(s) == {j \in jobs : status[j] = s}
ActiveJobs    == {j \in jobs : status[j] \in Active}

ServiceInit ==
  /\ req = NoRequest
  /\ view = Unread
  /\ stream = NoStream
  /\ probe = NoProbe
  /\ seen = [j \in JobIds |-> "queued"]

-----------------------------------------------------------------------------
(* POST /jobs and SubmitJob call submit_job.  REST answers a timeout that  *)
(* is not positive, or a payload that is none, with 400 before it does.    *)
SubmitJob(j, t) ==
  /\ req = NoRequest
  /\ CreateJob(j, t)
  /\ req' = [kind |-> "submit", id |-> j, todo |-> <<>>]
  /\ UNCHANGED <<view, stream, probe, seen>>

PostJob(j, t) == t > 0 /\ SubmitJob(j, t)

(* The reply says "queued", whatever has become of the job by now.         *)
ReplySubmitted ==
  /\ req.kind = "submit"
  /\ req.id \in jobs
  /\ seen' = [seen EXCEPT ![req.id] = "queued"]
  /\ req' = NoRequest
  /\ UNCHANGED <<vars, view, stream, probe>>

-----------------------------------------------------------------------------
(* get_job succeeds; a request for an unknown id is answered 404/NOT_FOUND *)
(* and leaves no trace.                                                    *)
Fetch(kind, j, reads) ==
  /\ req = NoRequest
  /\ LockFree
  /\ j \in jobs
  /\ req' = [kind |-> kind, id |-> j, todo |-> reads]
  /\ UNCHANGED <<vars, view, probe, seen>>

GetJob(j)        == Fetch("rest", j, RestReads) /\ UNCHANGED stream
GetJobStatus(j)  == Fetch("grpc", j, GrpcReads) /\ UNCHANGED stream
StreamResults(j) == Fetch("stream", j, StreamReads) /\ stream' = NoStream

(* One attribute read of the live object.  StreamResults gives up with     *)
(* FAILED_PRECONDITION when the status it reads is not completed.          *)
ReadAttribute ==
  /\ req.kind \in {"rest", "grpc", "stream"}
  /\ req.todo # <<>>
  /\ LET field == Head(req.todo)
         value == Live(req.id)[field]
     IN  IF req.kind = "stream" /\ field = "status" /\ value # "completed"
         THEN req' = NoRequest /\ view' = Unread
         ELSE /\ req' = [req EXCEPT !.todo = Tail(@)]
              /\ view' = [view EXCEPT ![field] = value]
  /\ UNCHANGED <<vars, stream, probe, seen>>

(* The JSON or protobuf reply reaches the client. *)
ReplyJob ==
  /\ req.kind \in {"rest", "grpc"}
  /\ req.todo = <<>>
  /\ seen' = [seen EXCEPT ![req.id] = view.status]
  /\ req' = NoRequest
  /\ view' = Unread
  /\ UNCHANGED <<vars, stream, probe>>

(* job.result or b"" *)
ResultSize(r) == IF r = NoValue THEN 0 ELSE r

(* Mutant: the last, partial chunk is forgotten. *)
WholeChunks(size) == size \div ChunkSize

TotalChunks(size) == (size + ChunkSize - 1) \div ChunkSize

Least(a, b) == IF a < b THEN a ELSE b

(* One yield of StreamResults; an empty result is one empty last chunk.    *)
SendChunk ==
  /\ req.kind = "stream" /\ req.todo = <<>>
  /\ LET total == ResultSize(view.result)
         start == stream.chunks * ChunkSize
         last  == total = 0 \/ stream.chunks = TotalChunks(total) - 1
     IN  /\ stream' = [id |-> req.id,
                       bytes |-> stream.bytes
                                 + (Least(start + ChunkSize, total) - start),
                       chunks |-> stream.chunks + 1,
                       last |-> last]
         /\ IF last
            THEN req' = NoRequest /\ view' = Unread
            ELSE UNCHANGED <<req, view>>
  /\ UNCHANGED <<vars, probe, seen>>

-----------------------------------------------------------------------------
(* handle_health counts for the body of its reply (twice locked);          *)
(* handle_readiness counts, decides, and counts again for the body.        *)
BeginHealth ==
  /\ req = NoRequest
  /\ req' = [kind |-> "health", id |-> NoValue, todo |-> ProbeCounts]
  /\ probe' = [NoProbe EXCEPT !.atStart = ActiveJobs]
  /\ UNCHANGED <<vars, view, stream, seen>>

BeginProbe ==
  /\ req = NoRequest
  /\ req' = [kind |-> "ready", id |-> NoValue, todo |-> ProbeCounts \o ProbeCounts]
  /\ probe' = [NoProbe EXCEPT !.atStart = ActiveJobs]
  /\ UNCHANGED <<vars, view, stream, seen>>

CountJobs ==
  /\ req.kind \in {"health", "ready"}
  /\ req.todo # <<>>
  /\ LockFree
  /\ LET n == Cardinality(WithStatus(Head(req.todo)))
     IN  IF Len(req.todo) > Len(ProbeCounts)
         THEN probe' = [probe EXCEPT !.load = @ + n]
         ELSE probe' = [probe EXCEPT !.body = @ + n]
  /\ req' = [req EXCEPT !.todo = Tail(@)]
  /\ UNCHANGED <<vars, view, stream, seen>>

Overloaded == probe.load >= OverloadThreshold

ReplyProbe ==
  /\ req.kind \in {"health", "ready"}
  /\ req.todo = <<>>
  /\ req' = NoRequest
  /\ probe' = NoProbe
  /\ UNCHANGED <<vars, view, stream, seen>>

Serve ==
  \/ ReplySubmitted
  \/ ReadAttribute
  \/ ReplyJob
  \/ SendChunk
  \/ CountJobs
  \/ ReplyProbe

ServiceNext ==
  \/ Next /\ UNCHANGED serviceVars
  \/ \E j \in JobIds, t \in Timeouts : SubmitJob(j, t) \/ PostJob(j, t)
  \/ \E j \in JobIds : GetJob(j) \/ GetJobStatus(j) \/ StreamResults(j)
  \/ BeginHealth \/ BeginProbe
  \/ Serve

ServiceSpec == Init /\ ServiceInit /\ [][ServiceNext]_allVars

-----------------------------------------------------------------------------
(* Properties.                                                             *)

Replying == req.kind \in {"rest", "grpc"} /\ req.todo = <<>>

(* A reply is assembled from unlocked reads of a job that moves meanwhile; *)
(* still it never contradicts itself: a result comes only with a job that  *)
(* did complete and never with an error or another verdict, an error only  *)
(* with a job that failed or timed out, and completed_at only with a       *)
(* terminal status and the outcome that goes with it (GetJobStatus reads   *)
(* completed_at first, the mutators write it last).                        *)
RepliesConsistent == Replying =>
  /\ view.result # NoValue =>
       /\ status[req.id] = "completed"
       /\ view.status \notin {"failed", "timeout"}
       /\ view.error = NoValue
  /\ view.error # NoValue =>
       /\ status[req.id] \in {"failed", "timeout"}
       /\ view.status # "completed"
  /\ view.completedAt # NoTime =>
       /\ view.status \in Terminal
       /\ view.status = "completed" <=> view.result # NoValue
       /\ view.status \in {"failed", "timeout"} <=> view.error # NoValue

Rank(s) == CASE s = "queued" -> 0 [] s = "running" -> 1 [] OTHER -> 2

(* A client that submits a job and polls it over REST and gRPC sees it     *)
(* advance only: never back to an earlier stage, the reply to its own      *)
(* submission included, and never from one verdict to another.             *)
PollsNeverGoBack == [][\A j \in JobIds :
  /\ Rank(seen[j]) <= Rank(seen'[j])
  /\ seen[j] \in Terminal => seen'[j] = seen[j]]_allVars

(* /health and /health/ready count queued and running jobs under two       *)
(* separate holds of the lock.  A job that stays active throughout is never *)
(* missed, however it moves in between: a server that had more jobs than   *)
(* the threshold all along never answers "ready".  Of exactly the threshold *)
(* nothing is said: the code answers 503, its docs say "exceeds".          *)
ReadinessNeverMissesLoad == req.kind \in {"health", "ready"} /\ req.todo = <<>> =>
  LET steady == Cardinality(probe.atStart \cap ActiveJobs)
  IN  /\ steady <= probe.body
      /\ req.kind = "ready" =>
           /\ steady <= probe.load
           /\ steady > OverloadThreshold => Overloaded

(* A stream that ends has carried either all the bytes of the result in    *)
(* ceil(size / chunk) chunks or, when the result was not there yet, one    *)
(* empty chunk; it never ends in the middle.                               *)
StreamsAreWhole == stream.last =>
  \/ stream.bytes = 0 /\ stream.chunks = 1
  \/ /\ stream.bytes = result[stream.id]
     /\ stream.chunks * ChunkSize >= stream.bytes
     /\ (stream.chunks - 1) * ChunkSize < stream.bytes

(* "Yields ResultChunk messages until all result bytes have been sent": a  *)
(* stream that said is_last carried what the completed job's result holds. *)
StreamDeliversResult == stream.last /\ result[stream.id] # NoValue =>
  stream.bytes = result[stream.id]
=============================================================================
