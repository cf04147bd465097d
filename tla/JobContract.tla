---------------------------- MODULE JobContract ----------------------------
(***************************************************************************)
(* What a job handle promises (README.md, design contract 6, and           *)
(* docs/STABILITY.md): the life of a process, and what the job store       *)
(* reports about it across calls and runtime restarts.                     *)
(*                                                                         *)
(* A job is reported only after its process has been created, it is        *)
(* reported as ended only when the process is gone, and it is forgotten    *)
(* only after it was reported as ended.  The promise says nothing of how   *)
(* long a report takes, and a signal may turn a report of the end back     *)
(* into "active": the store does that (Signal in manager.go).              *)
(***************************************************************************)
CONSTANT Job

VARIABLES
  life,     \* the process of each job: unborn, alive or dead
  report    \* what the store says of it: none, active, ended or gone

contractVars == <<life, report>>

Init ==
  /\ life = [j \in Job |-> "unborn"]
  /\ report = [j \in Job |-> "none"]

Becomes(j, l, r) == life'[j] = l /\ report'[j] = r

Born(j) == life[j] = "unborn" /\ Becomes(j, "alive", report[j])

Dies(j) == life[j] = "alive" /\ Becomes(j, "dead", report[j])

Announced(j) ==
  life[j] # "unborn" /\ report[j] = "none" /\ Becomes(j, life[j], "active")

Ended(j) ==
  life[j] = "dead" /\ report[j] = "active" /\ Becomes(j, "dead", "ended")

Reopened(j) ==
  life[j] = "dead" /\ report[j] = "ended" /\ Becomes(j, "dead", "active")

Forgotten(j) ==
  life[j] = "dead" /\ report[j] = "ended" /\ Becomes(j, "dead", "gone")

\* One step of the store may concern several jobs: recovery and pruning do.
Next ==
  \A j \in Job :
    \/ Becomes(j, life[j], report[j])
    \/ Born(j) \/ Dies(j) \/ Announced(j) \/ Ended(j) \/ Reopened(j) \/ Forgotten(j)

Spec == Init /\ [][Next]_contractVars
=============================================================================
