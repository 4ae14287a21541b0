---------------------------- MODULE MCJobManager ----------------------------
(* Two jobs, two workers that race for them, one result and one error: all *)
(* the ways in which start, complete, fail and cancel can meet on a job    *)
(* while another job is at any other stage.                                *)
EXTENDS JobManager

(* A client may pass anything; what is not positive asks for the default.  *)
SomeTimeouts == {-1, 1}
=============================================================================
