-------------------------------- MODULE Jobs --------------------------------
(***************************************************************************)
(* The persistent background jobs of internal/jobs/manager.go: the job     *)
(* table in memory, the record and log files on disk, the operating-system *)
(* processes the records point at, and the goroutines that watch them.     *)
(*                                                                         *)
(* Covered: runtime crashes at any point and restarts (recover), launches  *)
(* that fail or whose answer is lost, record files that cannot be written, *)
(* signals whose delivery comes after the lock is released, and process    *)
(* ids that the operating system hands out again.                          *)
(*                                                                         *)
(* Each critical section under Manager.mu is one action, and so is each    *)
(* piece of code between two of them that another thread or the operating  *)
(* system can observe.  A process and its process group are one entity:    *)
(* both are named by the PID (Setsid makes them equal).  A child is        *)
(* reaped in the step in which it exits; until then its PID is not free.   *)
(***************************************************************************)
CONSTANTS
  Job,        \* job ids; each is used by at most one start call
  External,   \* the jobs that are started through the session bridge
  Unsaved,    \* the jobs whose record file the filesystem may fail to update
  Pid,        \* process ids of the operating system
  NoPid,      \* the job has not been given a process
  Nobody,     \* owner of a PID that is free
  Other       \* owner of a PID that belongs to an unrelated process

ASSUME JobsAssumption ==
  /\ External \subseteq Job
  /\ Unsaved \subseteq Job
  /\ NoPid \notin Pid
  /\ {Nobody, Other} \cap Job = {}
  /\ Nobody # Other

VARIABLES
  up,      \* the runtime process is running
  mem,     \* Manager.jobs: the record of each job in memory
  disk,    \* the record file <id>.json of each job
  logs,    \* the jobs whose log file exists
  start,   \* where the start call of each job stands
  pid,     \* the PID each job was launched with
  owner,   \* which process each PID names
  watch,   \* where the goroutine that watches each job stands
  kill     \* the signal a Signal call has recorded and not yet delivered

vars == <<up, mem, disk, logs, start, pid, owner, watch, kill>>

-----------------------------------------------------------------------------
Unfinished == {"running", "running-recovered", "terminating"}

Finished == {"exited", "terminated", "exited-external",
             "exited-while-runtime-offline", "exited-after-recovery"}

Absent == [status |-> "absent", code |-> FALSE]

\* A record keeps the status and whether an exit code has been written to it.
\* Absent stands for a job that has no record.
Record == {Absent} \cup [status : Unfinished \cup Finished, code : BOOLEAN]

\* TERM and INT do what TERM does; HUP, USR1 and USR2 what HUP does.
Signals == {"TERM", "KILL", "HUP"}

Watch == {"none", "wait", "reaped", "external", "externalDead",
          "recovered", "recoveredDead"}

Start == {"idle", "logged", "launched", "done", "failed", "cut"}

\* The process of the job is running.
Alive(j) == \E p \in Pid : owner[p] = j

\* kill(pid, 0) finds some process under the PID of the job.
ProcessAlive(j) == \E p \in Pid : pid[j] = p /\ owner[p] # Nobody

-----------------------------------------------------------------------------
Init ==
  /\ up = TRUE
  /\ mem = [j \in Job |-> Absent]
  /\ disk = [j \in Job |-> Absent]
  /\ logs = {}
  /\ start = [j \in Job |-> "idle"]
  /\ pid = [j \in Job |-> NoPid]
  /\ owner = [p \in Pid |-> Nobody]
  /\ watch = [j \in Job |-> "none"]
  /\ kill = [j \in Job |-> "none"]

\* persistLocked writes a temporary file and renames it; every caller ignores
\* its error, and then the old record file stays.
Persist(j, rec) ==
  \/ disk' = [disk EXCEPT ![j] = rec]
  \/ j \in Unsaved /\ UNCHANGED disk

Save(j, rec) ==
  /\ mem' = [mem EXCEPT ![j] = rec]
  /\ Persist(j, rec)

\* What Wait returns to the goroutine of a process that dies.
Reap(p) == [j \in Job |-> IF owner[p] = j /\ watch[j] = "wait"
                            THEN "reaped" ELSE watch[j]]

\* The parent of a service process is the runtime that started it, and that
\* runtime calls Wait only once it has recorded the job.
Reapable(j) == ~ (up /\ j \notin External /\ start[j] = "launched")

-----------------------------------------------------------------------------
(* Starting a job: StartWithContext and StartExternal                      *)

\* The log file is created first.
OpenLog(j) ==
  /\ up
  /\ start[j] = "idle"
  /\ start' = [start EXCEPT ![j] = "logged"]
  /\ logs' = logs \cup {j}
  /\ UNCHANGED <<up, mem, disk, pid, owner, watch, kill>>

\* The operating system, or the session bridge, creates the process.
Spawn(j) ==
  /\ up
  /\ start[j] = "logged"
  /\ \E p \in Pid :
       /\ owner[p] = Nobody
       /\ owner' = [owner EXCEPT ![p] = j]
       /\ pid' = [pid EXCEPT ![j] = p]

Launch(j) ==
  /\ Spawn(j)
  /\ start' = [start EXCEPT ![j] = "launched"]
  /\ UNCHANGED <<up, mem, disk, logs, watch, kill>>

\* No process was created.  Only StartExternal removes the log file again.
LaunchFails(j) ==
  /\ up
  /\ start[j] = "logged"
  /\ start' = [start EXCEPT ![j] = "failed"]
  /\ logs' = IF j \in External THEN logs \ {j} ELSE logs
  /\ UNCHANGED <<up, mem, disk, pid, owner, watch, kill>>

\* The bridge created the process, but its answer did not reach the runtime.
LaunchAnswerLost(j) ==
  /\ j \in External
  /\ Spawn(j)
  /\ start' = [start EXCEPT ![j] = "failed"]
  /\ logs' = logs \ {j}
  /\ UNCHANGED <<up, mem, disk, watch, kill>>

RecordStartedJob(j) ==
  /\ up
  /\ start[j] = "launched"
  /\ Save(j, [status |-> "running", code |-> FALSE])
  /\ start' = [start EXCEPT ![j] = "done"]
  /\ watch' = [watch EXCEPT ![j] = IF j \in External THEN "external" ELSE "wait"]
  /\ UNCHANGED <<up, logs, pid, owner, kill>>

-----------------------------------------------------------------------------
(* The end of a job: the process, and the goroutine that watches it        *)

ProcessExits(j) ==
  /\ Reapable(j)
  /\ \E p \in Pid :
       /\ owner[p] = j
       /\ owner' = [owner EXCEPT ![p] = Nobody]
       /\ watch' = Reap(p)
  /\ UNCHANGED <<up, mem, disk, logs, start, pid, kill>>

FinishJob(j) ==
  /\ up
  /\ watch[j] = "reaped"
  /\ watch' = [watch EXCEPT ![j] = "none"]
  /\ IF mem[j] = Absent
       THEN UNCHANGED <<mem, disk>>
       ELSE Save(j, [status |-> IF mem[j].status = "terminating"
                                  THEN "terminated" ELSE "exited",
                     code   |-> TRUE])
  /\ UNCHANGED <<up, logs, start, pid, owner, kill>>

\* Mutant: the tick does not ask whether the process is alive.
MonitorTickUnchecked(j) ==
  /\ up
  /\ watch[j] \in {"external", "recovered"}
  /\ watch' = [watch EXCEPT ![j] = IF @ = "external"
                                     THEN "externalDead" ELSE "recoveredDead"]
  /\ UNCHANGED <<up, mem, disk, logs, start, pid, owner, kill>>

\* A tick of monitorExternal or monitorRecovered that finds the PID unused.
\* The lock is taken only afterwards.
MonitorTick(j) ==
  /\ up
  /\ watch[j] \in {"external", "recovered"}
  /\ ~ ProcessAlive(j)
  /\ watch' = [watch EXCEPT ![j] = IF @ = "external"
                                     THEN "externalDead" ELSE "recoveredDead"]
  /\ UNCHANGED <<up, mem, disk, logs, start, pid, owner, kill>>

MonitorExternalEnds(j) ==
  /\ up
  /\ watch[j] = "externalDead"
  /\ watch' = [watch EXCEPT ![j] = "none"]
  /\ IF mem[j].status \in Unfinished
       THEN Save(j, [status |-> IF mem[j].status = "terminating"
                                  THEN "terminated" ELSE "exited-external",
                     code   |-> TRUE])
       ELSE UNCHANGED <<mem, disk>>
  /\ UNCHANGED <<up, logs, start, pid, owner, kill>>

\* Mutant: the watcher looks for the status of a job that was never recovered.
MonitorRecoveredEndsMisses(j) ==
  /\ up
  /\ watch[j] = "recoveredDead"
  /\ watch' = [watch EXCEPT ![j] = "none"]
  /\ IF mem[j].status = "running"
       THEN Save(j, [status |-> "exited-after-recovery", code |-> TRUE])
       ELSE UNCHANGED <<mem, disk>>
  /\ UNCHANGED <<up, logs, start, pid, owner, kill>>

\* Unlike monitorExternal, it leaves a job alone that a signal has marked
\* "terminating", and nobody watches that job from then on.
MonitorRecoveredEnds(j) ==
  /\ up
  /\ watch[j] = "recoveredDead"
  /\ watch' = [watch EXCEPT ![j] = "none"]
  /\ IF mem[j].status = "running-recovered"
       THEN Save(j, [status |-> "exited-after-recovery", code |-> TRUE])
       ELSE UNCHANGED <<mem, disk>>
  /\ UNCHANGED <<up, logs, start, pid, owner, kill>>

-----------------------------------------------------------------------------
(* job_signal and job_prune                                                *)

\* The first half of Signal, under the lock.  The status the job has is not
\* looked at.
SignalMark(j, s) ==
  /\ up
  /\ kill[j] = "none"
  /\ mem[j] # Absent
  /\ Save(j, IF s = "HUP" THEN mem[j] ELSE [mem[j] EXCEPT !.status = "terminating"])
  /\ kill' = [kill EXCEPT ![j] = s]
  /\ UNCHANGED <<up, logs, start, pid, owner, watch>>

\* The second half, after the unlock: whoever has the PID now gets the signal.
\* KILL ends it.  After another signal it may end by a step of its own, and a
\* free PID makes the call return an error.
SignalSend(j) ==
  /\ up
  /\ kill[j] # "none"
  /\ kill' = [kill EXCEPT ![j] = "none"]
  /\ IF kill[j] = "KILL" /\ \A k \in Job : owner[pid[j]] = k => Reapable(k)
       THEN /\ owner' = [owner EXCEPT ![pid[j]] = Nobody]
            /\ watch' = Reap(pid[j])
       ELSE UNCHANGED <<owner, watch>>
  /\ UNCHANGED <<up, mem, disk, logs, start, pid>>

\* Mutant: only the prefix "running" protects a job.
PrunableTerminating(j) == mem[j].status \in Finished \cup {"terminating"}

Prunable(j) == mem[j].status \in Finished

\* Mutant: only the log files are removed.
RemoveLogs(D, K) == logs' = logs \ D /\ UNCHANGED disk

\* The files of the jobs of D are removed, and the record files of K stay.
RemoveFiles(D, K) ==
  /\ logs' = logs \ D
  /\ disk' = [j \in Job |-> IF j \in D \ K THEN Absent ELSE disk[j]]

\* Which finished jobs are older than the caller's window is left open.
Prune ==
  /\ up
  /\ \E D \in SUBSET {j \in Job : Prunable(j)} \ {{}} :
       /\ mem' = [j \in Job |-> IF j \in D THEN Absent ELSE mem[j]]
       /\ \E K \in SUBSET (D \cap Unsaved) : RemoveFiles(D, K)
  /\ UNCHANGED <<up, start, pid, owner, watch, kill>>

-----------------------------------------------------------------------------
(* Crash and recovery of the runtime                                       *)

RuntimeGone ==
  /\ up
  /\ up' = FALSE
  /\ mem' = [j \in Job |-> Absent]
  /\ start' = [j \in Job |-> IF start[j] \in {"logged", "launched"}
                               THEN "cut" ELSE start[j]]
  /\ watch' = [j \in Job |-> "none"]
  /\ kill' = [j \in Job |-> "none"]
  /\ UNCHANGED <<pid, owner>>

Crash ==
  /\ RuntimeGone
  /\ UNCHANGED <<disk, logs>>

\* The crash comes while Prune is at work on k: the log file of a job goes
\* before its record file.
CrashInPrune ==
  /\ RuntimeGone
  /\ \E D \in SUBSET {j \in Job : Prunable(j)} : \E k \in D :
       \E K \in SUBSET (D \cap (Unsaved \cup {k})) : RemoveFiles(D, K)

\* Mutant: recovery does not ask for the process.
RecoveredUnprobed(j) ==
  IF disk[j].status \notin Unfinished THEN disk[j]
  ELSE [status |-> "exited-while-runtime-offline", code |-> TRUE]

\* What recover makes of the record file of a job.
Recovered(j) ==
  IF disk[j].status \notin Unfinished THEN disk[j]
  ELSE IF ProcessAlive(j) THEN [disk[j] EXCEPT !.status = "running-recovered"]
  ELSE [status |-> "exited-while-runtime-offline", code |-> TRUE]

\* Mutant: recovery does not start watchers.
RestartUnwatched ==
  /\ ~ up
  /\ up' = TRUE
  /\ mem' = [j \in Job |-> Recovered(j)]
  /\ disk' = mem'
  /\ UNCHANGED <<logs, start, pid, owner, watch, kill>>

Restart ==
  /\ ~ up
  /\ up' = TRUE
  /\ mem' = [j \in Job |-> Recovered(j)]
  /\ \E K \in SUBSET Unsaved :
       disk' = [j \in Job |-> IF j \in K THEN disk[j] ELSE Recovered(j)]
  /\ watch' = [j \in Job |-> IF Recovered(j).status = "running-recovered"
                               THEN "recovered" ELSE "none"]
  /\ UNCHANGED <<logs, start, pid, owner, kill>>

\* The runtime is started and dies again when some record files are rewritten.
CrashInRecover ==
  /\ ~ up
  /\ \E D \in SUBSET Job :
       disk' = [j \in Job |-> IF j \in D THEN Recovered(j) ELSE disk[j]]
  /\ UNCHANGED <<up, mem, logs, start, pid, owner, watch, kill>>

-----------------------------------------------------------------------------
(* The rest of the machine                                                 *)

OtherStarts(p) ==
  /\ owner[p] = Nobody
  /\ owner' = [owner EXCEPT ![p] = Other]
  /\ UNCHANGED <<up, mem, disk, logs, start, pid, watch, kill>>

OtherExits(p) ==
  /\ owner[p] = Other
  /\ owner' = [owner EXCEPT ![p] = Nobody]
  /\ UNCHANGED <<up, mem, disk, logs, start, pid, watch, kill>>

-----------------------------------------------------------------------------
StartStep(j) ==
  OpenLog(j) \/ Launch(j) \/ LaunchFails(j) \/ LaunchAnswerLost(j) \/ RecordStartedJob(j)

WatchStep(j) ==
  FinishJob(j) \/ MonitorTick(j) \/ MonitorExternalEnds(j) \/ MonitorRecoveredEnds(j)

Next ==
  \/ \E j \in Job : StartStep(j)
  \/ \E j \in Job : ProcessExits(j)
  \/ \E j \in Job : WatchStep(j)
  \/ \E j \in Job, s \in Signals : SignalMark(j, s)
  \/ \E j \in Job : SignalSend(j)
  \/ Prune
  \/ Crash
  \/ CrashInPrune
  \/ Restart
  \/ CrashInRecover
  \/ \E p \in Pid : OtherStarts(p)
  \/ \E p \in Pid : OtherExits(p)

Spec == Init /\ [][Next]_vars

\* The Go scheduler runs every goroutine that can run, the tickers fire, and
\* systemd starts the runtime again (Restart=always).  Nothing makes a client
\* call, a process exit, or a crash happen.
Fairness ==
  /\ \A j \in Job : WF_vars(WatchStep(j)) /\ WF_vars(SignalSend(j))
  /\ WF_vars(Restart)

FairSpec == Spec /\ Fairness

-----------------------------------------------------------------------------
(* Properties                                                              *)

\* Every variable has its type.
TypeOK ==
  /\ up \in BOOLEAN
  /\ mem \in [Job -> Record]
  /\ disk \in [Job -> Record]
  /\ logs \subseteq Job
  /\ start \in [Job -> Start]
  /\ pid \in [Job -> Pid \cup {NoPid}]
  /\ owner \in [Pid -> Job \cup {Nobody, Other}]
  /\ watch \in [Job -> Watch]
  /\ kill \in [Job -> Signals \cup {"none"}]

\* The record a client can get: from memory, or after the next start from disk.
Known(j) == IF up THEN mem[j] ELSE disk[j]

\* A job that memory or disk reports as finished has no running process: no
\* watcher and no recovery writes the end of a job before it has happened.
FinishedMeansDead ==
  \A j \in Job :
    mem[j].status \in Finished \/ disk[j].status \in Finished => ~ Alive(j)

\* A running process whose start call returned a job id can be found, watched
\* and read under that id, also across restarts (docs/STABILITY.md:21).
LiveJobAddressable ==
  \A j \in Job \ Unsaved :
    Alive(j) /\ start[j] = "done" => Known(j).status \in Unfinished /\ j \in logs

\* Outside the critical sections the record file says what memory says, so a
\* crash loses nothing that a client was told.
MemoryMatchesDisk ==
  up => \A j \in Job \ Unsaved : mem[j] = disk[j]

\* Somebody watches every job that is reported as running.
RunningIsWatched ==
  \A j \in Job :
    mem[j].status \in {"running", "running-recovered"} => watch[j] # "none"

\* A job that was removed by job_prune never comes back.
PrunedStaysGone ==
  [][\A j \in Job \ Unsaved :
       start[j] = "done" /\ Known(j) = Absent => Known(j)' = Absent]_vars

\* The job store keeps the promise of JobContract for every job whose record
\* file can be written.
Life(j) ==
  IF Alive(j) THEN "alive" ELSE IF pid[j] = NoPid THEN "unborn" ELSE "dead"

Report(j) ==
  CASE start[j] # "done" -> "none"
    [] start[j] = "done" /\ Known(j) = Absent -> "gone"
    [] start[j] = "done" /\ Known(j).status \in Unfinished -> "active"
    [] OTHER -> "ended"

Contract == INSTANCE JobContract WITH
  Job    <- Job \ Unsaved,
  life   <- [j \in Job \ Unsaved |-> Life(j)],
  report <- [j \in Job \ Unsaved |-> Report(j)]

ContractSpec == Contract!Spec

\* While the runtime stays up and the PID of a job stays free, a job that is
\* reported as running does not stay so: its watcher sees the end.
DeathNoticed ==
  \A j \in Job :
    <>[](up /\ pid[j] # NoPid /\ ~ ProcessAlive(j)) =>
      <>[](mem[j].status \notin {"running", "running-recovered"})

\* README.md:417: a job recovered after its runtime died "can know that it later
\* exited".  (A record that has an exit code was finished before: see above.)
\* monitorRecovered gives up on a job that was signalled after the recovery.
TerminationNoticed ==
  \A j \in Job :
    <>[](up /\ pid[j] # NoPid /\ ~ ProcessAlive(j)) =>
      <>[](mem[j].status = "terminating" => mem[j].code)
=============================================================================
