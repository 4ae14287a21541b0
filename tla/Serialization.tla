---------------------------- MODULE Serialization ----------------------------
(***************************************************************************)
(* serialization.py: a host writes a job as JSON or as a protobuf Struct,  *)
(* another reads it; a tensor is handed over and cut into chunks.  The     *)
(* serializer holds the live Job and no lock, so the mutators of           *)
(* JobManager may run between any two of its reads; a field that may be    *)
(* None is read twice, for the test and for the value.                     *)
(*                                                                         *)
(* Base64, ISO times and the two encodings lose nothing and are left out:  *)
(* a message is what it says.  A Struct and a JSON text are told apart by  *)
(* either parser: the first control byte of a Struct is no JSON, and JSON  *)
(* text has no byte that would be a field of a Struct.                     *)
(***************************************************************************)
EXTENDS JobManager, Sequences

CONSTANTS
  TensorSizes,  (* lengths of the tensors sent, in bytes                   *)
  Chunk,        (* chunk_size                                              *)
  MaxWrites     (* bound on the owner's writes to a buffer (model only)    *)

ASSUME SerializationAssumption ==
  /\ TensorSizes \subseteq Nat
  /\ Chunk \in Nat \ {0}
  /\ MaxWrites \in Nat

VARIABLES
  hosts,   (* which hosts could import protobuf                            *)
  draft,   (* the serializer at work: its call, job, fields and next reads *)
  wire,    (* the last message and what its receiver made of it            *)
  tensor,  (* the tensor transfer                                          *)
  written  (* how often the owner has written to its buffer since          *)

messageVars == <<hosts, draft, wire>>
tensorVars  == <<tensor, written>>

-----------------------------------------------------------------------------
(* Dicts of the job format, as the validators tell them apart.             *)

PayloadKinds == {"missing", "none", "number", "empty", "garbled", "encoded"}
TimeoutKinds == {"missing", "text", "negative", "zero", "positive"}
IdKinds      == {"missing", "none", "text", "number"}

Dicts == [payload : PayloadKinds, timeout : TimeoutKinds,
          workerId : IdKinds, jobId : IdKinds]

(* validate_payload *)
Validates(d) ==
  /\ d.payload = "encoded"
  /\ d.timeout \in {"missing", "positive"}
  /\ {d.workerId, d.jobId} \subseteq {"missing", "none", "text"}

(* deserialize_job_from_json, of a JSON object: null is a payload, base64  *)
(* is not looked into, and the ids are not checked.                        *)
ParsesJson(d) ==
  /\ d.payload \notin {"missing", "number"}
  /\ d.timeout \in {"missing", "positive"}

-----------------------------------------------------------------------------
(* The fields of a live Job. *)
Optional == {"startedAt", "completedAt", "result", "error", "workerId"}

(* Mutant: the outcome is written before its time. *)
OutcomeFirst == <<"status", "startedAt", "result", "error", "completedAt", "workerId">>

(* The order of the reads.  id, payload, submitted_at and timeout_seconds  *)
(* never change after the Job is built and go with the status.             *)
FieldOrder == <<"status", "startedAt", "completedAt", "result", "error", "workerId">>

LiveJob(j) ==
  [status |-> status[j], startedAt |-> startedAt[j],
   completedAt |-> completedAt[j], result |-> result[j],
   error |-> error[j], workerId |-> workerId[j]]

(* A field that is None is a key the message lacks. *)
Blank == [status |-> "absent", startedAt |-> NoTime, completedAt |-> NoTime,
          result |-> NoValue, error |-> NoValue, workerId |-> NoValue]

Present(fields, f) == fields[f] # Blank[f]

NoDraft   == [call |-> "none", id |-> NoValue, fields |-> Blank, todo |-> <<>>,
              tested |-> FALSE]
NoMessage == [call |-> "none", form |-> "none", id |-> NoValue, fields |-> Blank,
              dict |-> [payload |-> "missing", timeout |-> "missing",
                        workerId |-> "missing", jobId |-> "missing"],
              verdict |-> "none"]

(* serialize_job_to_proto falls back to JSON bytes without protobuf.       *)
Form(callee) == IF callee = "proto" /\ hosts.sender THEN "proto" ELSE "json"

(* What a serialized job looks like to the validators: its time limit is   *)
(* under "timeout_seconds", a key they do not know.                        *)
DictOf(fields) ==
  [payload |-> "encoded", timeout |-> "missing", jobId |-> "missing",
   workerId |-> IF Present(fields, "workerId") THEN "text" ELSE "missing"]

MessageInit ==
  /\ hosts \in [sender : BOOLEAN, receiver : BOOLEAN]
  /\ draft = NoDraft
  /\ wire = NoMessage

(* serialize_job_to_json, serialize_job_to_proto: the caller has the Job   *)
(* from get_job.                                                           *)
SerializeJob(j, callee) ==
  /\ draft = NoDraft
  /\ wire.verdict # "sent"
  /\ LockFree
  /\ j \in jobs
  /\ draft' = [call |-> callee, id |-> j, fields |-> Blank, todo |-> FieldOrder,
               tested |-> FALSE]
  /\ wire' = NoMessage
  /\ UNCHANGED <<vars, hosts>>

(* One read of the live Job: the value of a field that is always written,  *)
(* the test of an optional one, or the value after the test.               *)
ReadField ==
  /\ draft.todo # <<>>
  /\ LET f     == Head(draft.todo)
         value == LiveJob(draft.id)[f]
     IN  \/ /\ f \notin Optional \/ draft.tested
            /\ draft' = [draft EXCEPT !.fields[f] = value,
                                      !.todo = Tail(@), !.tested = FALSE]
         \/ /\ f \in Optional /\ ~draft.tested
            /\ IF value = Blank[f]
               THEN draft' = [draft EXCEPT !.todo = Tail(@)]
               ELSE draft' = [draft EXCEPT !.tested = TRUE]
  /\ UNCHANGED <<vars, hosts, wire>>

SendJob ==
  /\ draft # NoDraft
  /\ draft.todo = <<>>
  /\ wire' = [call |-> draft.call, form |-> Form(draft.call), id |-> draft.id,
              fields |-> draft.fields, dict |-> DictOf(draft.fields),
              verdict |-> "sent"]
  /\ draft' = NoDraft
  /\ UNCHANGED <<vars, hosts>>

(* A client sends a dict of its own, whatever validate_payload says of it. *)
SendDict(d) ==
  /\ draft = NoDraft
  /\ wire.verdict # "sent"
  /\ wire' = [NoMessage EXCEPT !.call = "json", !.form = "json", !.dict = d,
                               !.verdict = "sent"]
  /\ UNCHANGED <<vars, hosts, draft>>

(* serialize_result_to_json: of bytes, otherwise a TypeError.  Its dict has *)
(* neither payload nor timeout.                                            *)
SendResult(j) ==
  /\ draft = NoDraft
  /\ wire.verdict # "sent"
  /\ j \in jobs
  /\ result[j] # NoValue
  /\ wire' = [NoMessage EXCEPT !.call = "json", !.form = "json", !.id = j,
                               !.fields.result = result[j], !.verdict = "sent"]
  /\ UNCHANGED <<vars, hosts, draft>>

(* deserialize_job_from_proto with protobuf takes any Struct that is not   *)
(* empty; all else goes through deserialize_job_from_json.                 *)
Understands(m) ==
  IF m.call = "proto" /\ hosts.receiver THEN m.form = "proto"
  ELSE m.form = "json" /\ ParsesJson(m.dict)

Receive ==
  /\ wire.verdict = "sent"
  /\ wire' = [wire EXCEPT !.verdict = IF Understands(wire) THEN "accepted" ELSE "refused"]
  /\ UNCHANGED <<vars, hosts, draft>>

(* A client's dict needs no job. *)
DictNext == (\E d \in Dicts : SendDict(d)) \/ Receive

JobMessageNext ==
  \/ Next /\ UNCHANGED messageVars
  \/ \E j \in JobIds, callee \in {"json", "proto"} : SerializeJob(j, callee)
  \/ ReadField
  \/ SendJob
  \/ \E j \in JobIds : SendResult(j)
  \/ Receive

MessageNext == JobMessageNext \/ DictNext

-----------------------------------------------------------------------------
(* Tensors.  A transfer: what was handed over, the version of the bytes    *)
(* when it began, the length, and the chunks yielded.                      *)

NoTensor == [kind |-> "bytes", contiguous |-> TRUE, made |-> 0, size |-> 0, chunks |-> <<>>, open |-> FALSE]

Sent == Chunk * Len(tensor.chunks)

TensorInit == tensor = NoTensor /\ written = 0

(* Mutant: what is no view goes through, whatever its layout. *)
SharesAll(kind, contiguous) == kind = "bytearray"

(* serialize_tensor copies a memoryview, contiguous or not, and whatever is *)
(* not contiguous; a contiguous bytearray goes through as the object it is. *)
Shares(kind, contiguous) == kind = "bytearray" /\ contiguous

(* serialize_tensor and the call of chunk_tensor, which runs nothing yet.  *)
SerializeTensor(kind, contiguous, size) ==
  /\ ~tensor.open
  /\ tensor' = [kind |-> kind, contiguous |-> contiguous, made |-> written,
                size |-> size, chunks |-> <<>>, open |-> TRUE]
  /\ UNCHANGED written

(* One turn of chunk_tensor's loop: the chunk is cut when it is asked for. *)
YieldChunk ==
  /\ tensor.open
  /\ Sent < tensor.size
  /\ LET left  == tensor.size - Sent
         chunk == [bytes |-> IF Chunk < left THEN Chunk ELSE left,
                   version |-> IF Shares(tensor.kind, tensor.contiguous)
                               THEN written ELSE tensor.made]
     IN  tensor' = [tensor EXCEPT !.chunks = Append(@, chunk)]
  /\ UNCHANGED written

EndTensor ==
  /\ tensor.open
  /\ Sent >= tensor.size
  /\ tensor' = [tensor EXCEPT !.open = FALSE]
  /\ UNCHANGED written

(* The owner goes on using its buffer. *)
WriteBuffer ==
  /\ written < MaxWrites
  /\ written' = written + 1
  /\ UNCHANGED tensor

TensorNext ==
  \/ \E kind \in {"bytes", "bytearray", "memoryview"}, contiguous \in BOOLEAN,
        size \in TensorSizes : SerializeTensor(kind, contiguous, size)
  \/ YieldChunk
  \/ EndTensor
  \/ WriteBuffer

transferVars == <<vars, messageVars, tensorVars>>

TransferNext ==
  \/ MessageNext /\ UNCHANGED tensorVars
  \/ TensorNext /\ UNCHANGED <<vars, messageVars>>

TransferSpec == Init /\ MessageInit /\ TensorInit /\ [][TransferNext]_transferVars

-----------------------------------------------------------------------------
(* Properties.                                                             *)

(* The job message is assembled from unlocked reads; still what it says    *)
(* stays true: no field it carries is ever contradicted by the job, a      *)
(* verdict is the job's, a message with a completion time has the one      *)
(* outcome, and one with a start time has the worker, unless the job never *)
(* gets one.                                                               *)
FieldsTrue == wire.id # NoValue =>
  LET m == wire.fields
      j == wire.id
  IN  /\ \A f \in Optional : Present(m, f) => m[f] = LiveJob(j)[f]
      /\ m.status \in Terminal => m.status = status[j]
      /\ ~(Present(m, "result") /\ Present(m, "error"))
      /\ Present(m, "completedAt") => Present(m, "result") \/ Present(m, "error")
      /\ Present(m, "startedAt") => m.workerId = workerId[j]

(* A field that was there when it was tested is there when it is read: the *)
(* serializer never calls isoformat or b64encode on None.                  *)
TestsHold == draft.tested =>
  LET f == Head(draft.todo) IN LiveJob(draft.id)[f] # Blank[f]

(* Nothing that validate_payload passes is refused at the other end, nor is *)
(* a serialized job, except between a host with protobuf and one without.  *)
RefusalsJustified == wire.verdict = "refused" =>
  ~Validates(wire.dict) \/ hosts.sender # hosts.receiver

(* A finished tensor transfer has yielded every byte in chunks that are    *)
(* full but for the last, none for an empty tensor; and the bytes of data  *)
(* that is not contiguous, of which serialize_tensor promises a copy, are  *)
(* those of the moment of the call, whatever the owner writes meanwhile.   *)
(* Contiguous data is promised uncopied, and nothing is said of its bytes. *)
TensorsWhole == tensor # NoTensor /\ ~tensor.open =>
  LET n == Len(tensor.chunks)
  IN  /\ n = (tensor.size + Chunk - 1) \div Chunk
      /\ \A k \in 1 .. n :
           /\ tensor.chunks[k].bytes = IF k < n THEN Chunk ELSE tensor.size - Chunk * (n - 1)
           /\ ~tensor.contiguous => tensor.chunks[k].version = tensor.made

(* What a host receives is what the sender had ("lossless round-trip" and  *)
(* "error on invalid input", Properties 8 and 9 of test_serialization.py). *)
TransfersFaithful == FieldsTrue /\ TestsHold /\ RefusalsJustified /\ TensorsWhole
=============================================================================
