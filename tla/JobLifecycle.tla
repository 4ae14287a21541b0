---------------------------- MODULE JobLifecycle ----------------------------
(***************************************************************************)
(* What the job manager promises (the docstring of JobStatus and Job in    *)
(* src/uhcr/network/jobs.py): a job goes                                   *)
(*     queued -> running -> completed | failed | timeout                   *)
(* never leaves a terminal stage, and gets one outcome, of the kind its    *)
(* terminal stage calls for, which nothing overwrites.  Who moves a job,   *)
(* under which lock and in how many field writes is JobManager's business. *)
(***************************************************************************)
CONSTANTS
  JobIds,     (* the identifiers submit_job hands out                      *)
  Results,    (* what complete_job may be given                            *)
  Errors,     (* what fail_job may be given                                *)
  Cancelled,  (* the fixed error text cancel_job writes                    *)
  NoValue     (* Python's None                                             *)

VARIABLES
  stage,      (* stage[j]: where job j is in its life                      *)
  outcome     (* outcome[j]: the result or error a client may read         *)

lifecycleVars == <<stage, outcome>>

Terminal == {"completed", "failed", "timeout"}

(* Stage s admits outcome o. *)
Admits(s, o) ==
  \/ s = "completed" /\ o \in Results
  \/ s = "failed"    /\ o \in Errors
  \/ s = "timeout"   /\ o = Cancelled

Init ==
  /\ stage   = [j \in JobIds |-> "unsubmitted"]
  /\ outcome = [j \in JobIds |-> NoValue]

Move(j, from, to) ==
  /\ stage[j] = from
  /\ stage' = [stage EXCEPT ![j] = to]
  /\ UNCHANGED outcome

Submit(j)    == Move(j, "unsubmitted", "queued")
Start(j)     == Move(j, "queued", "running")
Settle(j, s) == Move(j, "running", s)

(* The outcome becomes readable, once, some time after the job settled.    *)
Publish(j) ==
  /\ outcome[j] = NoValue
  /\ \E o \in Results \cup Errors \cup {Cancelled} :
       /\ Admits(stage[j], o)
       /\ outcome' = [outcome EXCEPT ![j] = o]
  /\ UNCHANGED stage

Next == \E j \in JobIds :
  \/ Submit(j)
  \/ Start(j)
  \/ \E s \in Terminal : Settle(j, s)
  \/ Publish(j)

(* The manager owes a settled job its outcome; it owes nobody a submission, *)
(* a start or a verdict.                                                   *)
Spec == Init /\ [][Next]_lifecycleVars

FairSpec == Spec /\ \A j \in JobIds : WF_lifecycleVars(Publish(j))
=============================================================================
