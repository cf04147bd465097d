------------------------------- MODULE MCJobs -------------------------------
(***************************************************************************)
(* Jobs with two jobs and two process ids: a service job and a job of the  *)
(* session bridge.  The second PID lets a job lose its PID to another      *)
(* process, or to the other job, and meet it again.                        *)
(***************************************************************************)
EXTENDS Jobs
=============================================================================
