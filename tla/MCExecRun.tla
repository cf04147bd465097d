----------------------------- MODULE MCExecRun ------------------------------
(***************************************************************************)
(* ExecRun with three descendants: children of the leader, or of each      *)
(* other.                                                                  *)
(***************************************************************************)
EXTENDS ExecRun
=============================================================================
