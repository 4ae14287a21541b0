------------------------------ MODULE MCService ------------------------------
(* The handlers, the life of the server, the messages between hosts and    *)
(* the tensors share no state but the jobs: a behaviour is one of these,   *)
(* and the others stay as they began.                                      *)
(*                                                                         *)
(* Handlers: two jobs under one event loop; results of 0, 2 and 3 bytes in *)
(* chunks of 2: an empty result, a full chunk, and a full and a partial one. *)
(* Only both jobs together exceed the threshold, so that one missed job    *)
(* changes the readiness answer.  The clock stands still: the handlers only tell a      *)
(* stamp from None.  The timeouts asked for are one that means the default, *)
(* and that REST refuses, and one that both take.                          *)
(* Messages: one job, as a message is about one, between hosts that have   *)
(* protobuf or have not; and every dict of a client.                       *)
(* Tensors: of no byte, of a full chunk and of one more than two chunks.   *)
(* Server: two signals and three starts: a signal's stop can meet the      *)
(* program's and another signal's, and a signal of the first life can      *)
(* arrive in the middle of the second start.                               *)
EXTENDS JobService, ProtocolServer, Serialization

VARIABLE component

sumVars == <<component, allVars, serverVars, messageVars, tensorVars>>

SumInit ==
  /\ component \in {"handlers", "server", "messages", "dicts", "tensors"}
  /\ Init /\ ServiceInit /\ ServerInit /\ MessageInit /\ TensorInit
  /\ component \in {"handlers", "server", "tensors"} =>
       hosts = [sender |-> TRUE, receiver |-> TRUE]

Of(k) == component = k /\ UNCHANGED component

Built == {j \in JobIds : status[j] # "absent"}

SumNext ==
  \/ Of("handlers") /\ ServiceNext /\ UNCHANGED <<serverVars, messageVars, tensorVars>>
  \/ Of("server") /\ ServerNext /\ UNCHANGED <<allVars, messageVars, tensorVars>>
  \/ Of("messages") /\ JobMessageNext /\ Cardinality(Built') <= 1
       /\ UNCHANGED <<serviceVars, serverVars, tensorVars>>
  \/ Of("dicts") /\ DictNext /\ UNCHANGED <<serviceVars, serverVars, tensorVars>>
  \/ Of("tensors") /\ TensorNext /\ UNCHANGED <<allVars, serverVars, messageVars>>

SumSpec ==
  /\ SumInit /\ [][SumNext]_sumVars
  /\ component = "server" => ServerFairness

Lengths == {0, 2, 5}

AskedTimeouts == {-1, 1}
=============================================================================
