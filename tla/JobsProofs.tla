----------------------------- MODULE JobsProofs -----------------------------
(***************************************************************************)
(* Proofs about Jobs, for any sets of jobs and process ids.                *)
(***************************************************************************)
EXTENDS Jobs, TLAPS

Records == mem \in [Job -> Record] /\ disk \in [Job -> Record]

\* The records the code writes are records.
LEMMA WrittenRecords ==
  ASSUME Records, NEW j \in Job
  PROVE  /\ Absent \in Record
         /\ [status |-> "running", code |-> FALSE] \in Record
         /\ \A st \in Finished : [status |-> st, code |-> TRUE] \in Record
         /\ [mem[j] EXCEPT !.status = "terminating"] \in Record
         /\ Recovered(j) \in Record
<1>1. \A st \in Unfinished \cup Finished, c \in BOOLEAN : [status |-> st, code |-> c] \in Record
  BY DEF Record
<1>3. mem[j] \in Record /\ disk[j] \in Record /\ Absent \in Record
  BY DEF Records, Record
<1>4. ASSUME NEW r \in Record, NEW st \in Unfinished PROVE [r EXCEPT !.status = st] \in Record
  <2>1. CASE r = Absent
    <3>1. r \in [status : {"absent"}, code : BOOLEAN]
      BY <2>1 DEF Absent
    <3>2. [r EXCEPT !.status = st] \in [status : Unfinished \cup Finished, code : BOOLEAN]
      BY <3>1
    <3> QED BY <3>2 DEF Record
  <2>2. CASE r \in [status : Unfinished \cup Finished, code : BOOLEAN]
    BY <2>2 DEF Record
  <2> QED BY <2>1, <2>2 DEF Record
<1>5. Recovered(j) \in Record
  BY <1>1, <1>3, <1>4 DEF Recovered, Finished, Unfinished
<1> QED BY <1>1, <1>3, <1>4, <1>5 DEF Finished, Unfinished

\* A table that keeps, clears or rewrites each of its records is well typed.
LEMMA ClearedTyped ==
  ASSUME NEW R, R \in [Job -> Record], NEW D
  PROVE  [j \in Job |-> IF j \in D THEN Absent ELSE R[j]] \in [Job -> Record]
<1>1. Absent \in Record
  BY DEF Record
<1> QED BY <1>1

\* Saving a record keeps memory and disk well typed.
LEMMA SaveTyped ==
  ASSUME Records, NEW j \in Job, NEW rec \in Record, Save(j, rec)
  PROVE  Records'
BY DEF Records, Save, Persist

\* Type correctness: every action keeps every variable in its set.
LEMMA JobsTypeOKStep == TypeOK /\ [Next]_vars => TypeOK'
<1> SUFFICES ASSUME TypeOK, [Next]_vars PROVE TypeOK'
  OBVIOUS
<1> DEFINE Rest ==
      /\ up \in BOOLEAN
      /\ logs \subseteq Job
      /\ start \in [Job -> Start]
      /\ pid \in [Job -> Pid \cup {NoPid}]
      /\ owner \in [Pid -> Job \cup {Nobody, Other}]
      /\ watch \in [Job -> Watch]
      /\ kill \in [Job -> Signals \cup {"none"}]
<1>a. Records /\ Rest
  BY DEF TypeOK, Records
<1>b. Records' /\ Rest' => TypeOK'
  BY DEF TypeOK, Records
<1>1. ASSUME NEW j \in Job, StartStep(j) PROVE TypeOK'
  <2> USE <1>a, <1>b DEF Start, Watch
  <2>1. CASE OpenLog(j)
    BY <2>1 DEF OpenLog, Records
  <2>2. CASE Launch(j)
    BY <2>2 DEF Launch, Spawn, Records
  <2>3. CASE LaunchFails(j)
    BY <2>3 DEF LaunchFails, Records
  <2>4. CASE LaunchAnswerLost(j)
    BY <2>4 DEF LaunchAnswerLost, Spawn, Records
  <2>5. CASE RecordStartedJob(j)
    <3>1. Records'
      BY <2>5, WrittenRecords, SaveTyped DEF RecordStartedJob
    <3> QED BY <2>5, <3>1 DEF RecordStartedJob
  <2> QED BY <1>1, <2>1, <2>2, <2>3, <2>4, <2>5 DEF StartStep
<1>2. ASSUME NEW j \in Job, ProcessExits(j) PROVE TypeOK'
  BY <1>2, <1>a, <1>b DEF ProcessExits, Reap, Records, Watch
<1>3. ASSUME NEW j \in Job, WatchStep(j) PROVE TypeOK'
  <2>1. Records'
    <3>1. CASE FinishJob(j)
      <4>1. \/ UNCHANGED <<mem, disk>>
            \/ \E st \in Finished : Save(j, [status |-> st, code |-> TRUE])
        BY <3>1 DEF FinishJob, Finished
      <4> QED BY <4>1, <1>a, WrittenRecords, SaveTyped DEF Records
    <3>2. CASE MonitorTick(j)
      BY <3>2, <1>a DEF MonitorTick, Records
    <3>3. CASE MonitorExternalEnds(j)
      <4>1. \/ UNCHANGED <<mem, disk>>
            \/ \E st \in Finished : Save(j, [status |-> st, code |-> TRUE])
        BY <3>3 DEF MonitorExternalEnds, Finished
      <4> QED BY <4>1, <1>a, WrittenRecords, SaveTyped DEF Records
    <3>4. CASE MonitorRecoveredEnds(j)
      <4>1. \/ UNCHANGED <<mem, disk>>
            \/ \E st \in Finished : Save(j, [status |-> st, code |-> TRUE])
        BY <3>4 DEF MonitorRecoveredEnds, Finished
      <4> QED BY <4>1, <1>a, WrittenRecords, SaveTyped DEF Records
    <3> QED BY <1>3, <3>1, <3>2, <3>3, <3>4 DEF WatchStep
  <2>2. Rest'
    BY <1>3, <1>a
       DEF WatchStep, FinishJob, MonitorTick, MonitorExternalEnds, MonitorRecoveredEnds, Watch
  <2> QED BY <2>1, <2>2, <1>b
<1>4. ASSUME NEW j \in Job, NEW s \in Signals, SignalMark(j, s) PROVE TypeOK'
  <2>1. \E rec \in Record : Save(j, rec)
    BY <1>4, <1>a, WrittenRecords DEF SignalMark, Records
  <2>2. Records'
    BY <2>1, <1>a, SaveTyped
  <2> QED BY <1>4, <1>a, <1>b, <2>2 DEF SignalMark
<1>5. ASSUME NEW j \in Job, SignalSend(j) PROVE TypeOK'
  BY <1>5, <1>a, <1>b DEF SignalSend, Reap, Watch, Records
<1>6. CASE Prune
  <2>1. PICK D \in SUBSET Job, K \in SUBSET Job :
          /\ mem' = [j \in Job |-> IF j \in D THEN Absent ELSE mem[j]]
          /\ disk' = [j \in Job |-> IF j \in D \ K THEN Absent ELSE disk[j]]
    BY <1>6 DEF Prune, RemoveFiles
  <2>2. Records'
    BY <2>1, <1>a, ClearedTyped DEF Records
  <2> QED BY <1>6, <1>a, <1>b, <2>2 DEF Prune, RemoveFiles
<1>7. CASE Crash
  <2>1. Records'
    BY <1>7, <1>a, WrittenRecords DEF Crash, RuntimeGone, Records
  <2> QED BY <1>7, <1>a, <1>b, <2>1 DEF Crash, RuntimeGone, Start, Watch
<1>8. CASE CrashInPrune
  <2>1. Records'
    BY <1>8, <1>a, WrittenRecords DEF CrashInPrune, RuntimeGone, RemoveFiles, Records
  <2> QED
    BY <1>8, <1>a, <1>b, <2>1 DEF CrashInPrune, RuntimeGone, RemoveFiles, Start, Watch
<1>9. CASE Restart
  <2>1. Records'
    BY <1>9, <1>a, WrittenRecords DEF Restart, Records
  <2> QED BY <1>9, <1>a, <1>b, <2>1 DEF Restart, Watch
<1>10. CASE CrashInRecover
  <2>1. Records'
    BY <1>10, <1>a, WrittenRecords DEF CrashInRecover, Records
  <2> QED BY <1>10, <1>a, <1>b, <2>1 DEF CrashInRecover
<1>11. ASSUME NEW p \in Pid, OtherStarts(p) \/ OtherExits(p) PROVE TypeOK'
  BY <1>11, <1>a, <1>b DEF OtherStarts, OtherExits, Records
<1>12. CASE UNCHANGED vars
  BY <1>12, <1>a, <1>b DEF vars, Records
<1> QED
  BY <1>1, <1>2, <1>3, <1>4, <1>5, <1>6, <1>7, <1>8, <1>9, <1>10, <1>11, <1>12 DEF Next

\* Every reachable state is well typed.
THEOREM JobsTypeCorrect == Spec => []TypeOK
<1>1. Init => TypeOK
  BY JobsAssumption DEF Init, TypeOK, Record, Absent, Start, Watch
<1> QED BY <1>1, JobsTypeOKStep, PTL DEF Spec

-----------------------------------------------------------------------------
(* The inductive invariant.  What a client may rely on rests on how start   *)
(* calls, processes and watchers relate.                                    *)

\* A process of a job runs under the PID the job was launched with.
PidNamesOwner ==
  \A p \in Pid, j \in Job : owner[p] = j => pid[j] = p

\* Nothing is known of a job before its start call has recorded it, a process
\* id is assigned once, and the log file is there from the beginning.
StartOrder ==
  \A j \in Job :
    /\ start[j] # "done" =>
         mem[j] = Absent /\ disk[j] = Absent /\ watch[j] = "none" /\ kill[j] = "none"
    /\ start[j] \in {"idle", "logged"} => pid[j] = NoPid
    /\ start[j] \in {"launched", "done"} => pid[j] \in Pid
    /\ start[j] \in {"logged", "launched"} => j \in logs

\* A watcher that is about to report the end of a job is right.
SawDeath ==
  \A j \in Job : watch[j] \in {"reaped", "externalDead", "recoveredDead"} => ~ Alive(j)

\* Memory and goroutines do not outlive the runtime.
DownMeansEmpty ==
  ~ up => \A j \in Job : mem[j] = Absent /\ watch[j] = "none" /\ kill[j] = "none"

\* A job that was recovered is not reported as "running" any more, which is
\* why monitorRecovered need not look for that status.
WatcherFits ==
  \A j \in Job : watch[j] \in {"recovered", "recoveredDead"} => mem[j].status # "running"

Consistent ==
  /\ PidNamesOwner
  /\ StartOrder
  /\ SawDeath
  /\ DownMeansEmpty
  /\ WatcherFits
  /\ FinishedMeansDead
  /\ LiveJobAddressable
  /\ MemoryMatchesDisk
  /\ RunningIsWatched

JobsInv == TypeOK /\ Consistent

\* What saving a record does to memory and disk, job by job.
LEMMA SaveEffect ==
  ASSUME TypeOK, NEW j \in Job, NEW rec, Save(j, rec)
  PROVE  /\ mem'[j] = rec
         /\ disk'[j] \in {rec, disk[j]}
         /\ j \notin Unsaved => disk'[j] = rec
         /\ \A k \in Job \ {j} : mem'[k] = mem[k] /\ disk'[k] = disk[k]
BY DEF TypeOK, Save, Persist

\* StartOrder survives what leaves the jobs alone that are not recorded yet.
LEMMA UnrecordedKept ==
  ASSUME StartOrder, UNCHANGED <<start, pid>>,
         \A j \in Job : start[j] # "done" =>
           /\ mem'[j] = mem[j] /\ disk'[j] = disk[j]
           /\ watch'[j] = watch[j] /\ kill'[j] = kill[j]
           /\ j \in logs => j \in logs'
  PROVE  StartOrder'
BY DEF StartOrder

\* A watcher that saw the end of a job and writes it keeps the invariant,
\* whichever of the watchers it is.
LEMMA EndKeepsConsistent ==
  ASSUME JobsInv, TypeOK', NEW j \in Job, up,
         watch[j] \in {"reaped", "externalDead", "recoveredDead"},
         watch' = [watch EXCEPT ![j] = "none"],
         \/ /\ UNCHANGED <<mem, disk>>
            /\ mem[j].status \notin {"running", "running-recovered"}
         \/ /\ mem[j] # Absent
            /\ \E st \in Finished : Save(j, [status |-> st, code |-> TRUE]),
         UNCHANGED <<up, logs, start, pid, owner, kill>>
  PROVE  Consistent'
<1> USE JobsAssumption DEF JobsInv, TypeOK, Consistent
<1>1. ~ Alive(j) /\ start[j] = "done"
  BY DEF SawDeath, StartOrder
<1>2. \A k \in Job : Alive(k)' <=> Alive(k)
  BY DEF Alive
<1>3. \A k \in Job \ {j} : /\ mem'[k] = mem[k] /\ disk'[k] = disk[k]
                           /\ watch'[k] = watch[k] /\ Known(k)' = Known(k)
  <2> SUFFICES ASSUME NEW k \in Job \ {j} PROVE mem'[k] = mem[k] /\ disk'[k] = disk[k]
    BY DEF Known
  <2>1. CASE UNCHANGED <<mem, disk>>
    BY <2>1
  <2>2. ASSUME NEW st \in Finished, Save(j, [status |-> st, code |-> TRUE])
        PROVE  mem'[k] = mem[k] /\ disk'[k] = disk[k]
    BY <2>2, SaveEffect
  <2> QED BY <2>1, <2>2
<1>4. \/ mem'[j] = mem[j] /\ disk'[j] = disk[j]
      \/ /\ mem'[j].status \in Finished
         /\ disk'[j] \in {mem'[j], disk[j]}
         /\ j \notin Unsaved => disk'[j] = mem'[j]
  <2>1. ASSUME NEW st \in Finished, Save(j, [status |-> st, code |-> TRUE])
        PROVE  /\ mem'[j].status \in Finished
               /\ disk'[j] \in {mem'[j], disk[j]}
               /\ j \notin Unsaved => disk'[j] = mem'[j]
    BY <2>1, SaveEffect
  <2> QED BY <2>1
<1>5. watch'[j] = "none"
  OBVIOUS
<1>6. PidNamesOwner' /\ DownMeansEmpty'
  BY DEF PidNamesOwner, DownMeansEmpty
<1>7. StartOrder'
  BY <1>1, <1>3, <1>5 DEF StartOrder
<1>8. SawDeath' /\ WatcherFits'
  BY <1>2, <1>3, <1>5 DEF SawDeath, WatcherFits
<1>9. FinishedMeansDead' /\ LiveJobAddressable'
  BY <1>1, <1>2, <1>3, <1>4 DEF FinishedMeansDead, LiveJobAddressable
<1>10. MemoryMatchesDisk'
  BY <1>3, <1>4 DEF MemoryMatchesDisk
<1>11. RunningIsWatched'
  <2>1. mem'[j].status \notin {"running", "running-recovered"}
    BY <1>4, SaveEffect DEF Finished
  <2> QED BY <2>1, <1>3 DEF RunningIsWatched
<1> QED BY <1>6, <1>7, <1>8, <1>9, <1>10, <1>11

\* Every action keeps the inductive invariant.
LEMMA JobsInvStep == JobsInv /\ [Next]_vars => JobsInv'
<1> SUFFICES ASSUME JobsInv, [Next]_vars PROVE JobsInv'
  OBVIOUS
<1>t. TypeOK /\ TypeOK'
  BY JobsTypeOKStep DEF JobsInv
<1>p. Consistent
  BY DEF JobsInv
<1>q. SUFFICES Consistent'
  BY <1>t DEF JobsInv
\* A watcher saw the end before it writes it.
<1>3. ASSUME NEW j \in Job, WatchStep(j) PROVE Consistent'
  <2>1. CASE FinishJob(j)
    <3>1. mem[j] # Absent =>
            \E st \in Finished : Save(j, [status |-> st, code |-> TRUE])
      BY <2>1 DEF FinishJob, Finished
    <3>2. mem[j] = Absent => mem[j].status \notin {"running", "running-recovered"}
      BY DEF Absent
    <3>3. mem[j] = Absent => UNCHANGED <<mem, disk>>
      BY <2>1 DEF FinishJob
    <3> QED BY <2>1, <3>1, <3>2, <3>3, <1>t, EndKeepsConsistent DEF FinishJob
  <2>2. CASE MonitorTick(j)
    BY <2>2, <1>t, <1>p, JobsAssumption
       DEF Absent, MonitorTick, ProcessAlive, TypeOK, Consistent, PidNamesOwner, StartOrder, SawDeath,
           DownMeansEmpty, WatcherFits, FinishedMeansDead, LiveJobAddressable,
           MemoryMatchesDisk, RunningIsWatched, Alive, Known
  <2>3. CASE MonitorExternalEnds(j)
    <3>1. \/ mem[j] # Absent /\ \E st \in Finished : Save(j, [status |-> st, code |-> TRUE])
          \/ UNCHANGED <<mem, disk>> /\ mem[j].status \notin {"running", "running-recovered"}
      <4>1. CASE mem[j].status = "terminating"
        BY <2>3, <4>1 DEF MonitorExternalEnds, Finished, Unfinished, Absent
      <4>2. CASE mem[j].status # "terminating"
        BY <2>3, <4>2 DEF MonitorExternalEnds, Finished, Unfinished, Absent
      <4> QED BY <4>1, <4>2
    <3> QED BY <2>3, <3>1, <1>t, EndKeepsConsistent DEF MonitorExternalEnds
  <2>4. CASE MonitorRecoveredEnds(j)
    <3>1. mem[j].status # "running"
      BY <2>4, <1>p DEF MonitorRecoveredEnds, Consistent, WatcherFits
    <3>2. \/ mem[j] # Absent /\ \E st \in Finished : Save(j, [status |-> st, code |-> TRUE])
          \/ UNCHANGED <<mem, disk>> /\ mem[j].status \notin {"running", "running-recovered"}
      BY <2>4, <3>1 DEF MonitorRecoveredEnds, Finished, Absent
    <3> QED BY <2>4, <3>2, <1>t, EndKeepsConsistent DEF MonitorRecoveredEnds
  <2> QED BY <1>3, <2>1, <2>2, <2>3, <2>4 DEF WatchStep
<1> USE <1>t, <1>p, JobsAssumption
    DEF TypeOK, Consistent, PidNamesOwner, StartOrder, SawDeath, DownMeansEmpty, WatcherFits,
        FinishedMeansDead, LiveJobAddressable, MemoryMatchesDisk, RunningIsWatched,
        Alive, Known, Absent, Finished, Unfinished
\* Starting a job: the new process has a fresh PID, and the record is "running".
<1>1. ASSUME NEW j \in Job, StartStep(j) PROVE Consistent'
  <2>1. CASE OpenLog(j)
    BY <2>1 DEF OpenLog
  <2>2. CASE Launch(j)
    BY <2>2 DEF Launch, Spawn
  <2>3. CASE LaunchFails(j)
    BY <2>3 DEF LaunchFails
  <2>4. CASE LaunchAnswerLost(j)
    BY <2>4 DEF LaunchAnswerLost, Spawn
  <2>5. CASE RecordStartedJob(j)
    BY <2>5 DEF RecordStartedJob, Save, Persist
  <2> QED BY <1>1, <2>1, <2>2, <2>3, <2>4, <2>5 DEF StartStep
\* A process that exits frees the one PID it had.
<1>2. ASSUME NEW j \in Job, ProcessExits(j) PROVE Consistent'
  BY <1>2 DEF ProcessExits, Reap
<1>4. ASSUME NEW j \in Job, NEW s \in Signals, SignalMark(j, s) PROVE Consistent'
  <2> DEFINE rec == IF s = "HUP" THEN mem[j] ELSE [mem[j] EXCEPT !.status = "terminating"]
  <2>1. rec = mem[j] \/ rec.status = "terminating"
    <3>1. mem[j] \in Record
      OBVIOUS
    <3> QED BY <3>1 DEF Record
  <2>2. /\ mem'[j] = rec
        /\ disk'[j] \in {rec, disk[j]}
        /\ j \notin Unsaved => disk'[j] = rec
        /\ \A k \in Job \ {j} : mem'[k] = mem[k] /\ disk'[k] = disk[k]
    BY <1>4, SaveEffect DEF SignalMark
  <2>3. start[j] = "done" /\ up
    BY <1>4 DEF SignalMark
  <2> HIDE DEF rec
  <2>4. PidNamesOwner' /\ SawDeath' /\ DownMeansEmpty' /\ WatcherFits'
    BY <1>4, <2>1, <2>2, <2>3 DEF SignalMark
  <2>5. StartOrder'
    <3>1. \A k \in Job : start[k] # "done" => k # j
      BY <2>3
    <3> QED BY <1>4, <2>2, <3>1 DEF SignalMark
  <2>6. FinishedMeansDead'
    BY <1>4, <2>1, <2>2 DEF SignalMark
  <2>7. LiveJobAddressable'
    BY <1>4, <2>1, <2>2, <2>3 DEF SignalMark
  <2>8. MemoryMatchesDisk' /\ RunningIsWatched'
    BY <1>4, <2>1, <2>2 DEF SignalMark
  <2> QED BY <2>4, <2>5, <2>6, <2>7, <2>8
<1>5. ASSUME NEW j \in Job, SignalSend(j) PROVE Consistent'
  BY <1>5 DEF SignalSend, Reap
\* Only finished jobs lose their files, and those have no process.
<1>6. CASE Prune
  <2>1. PICK D \in SUBSET {j \in Job : Prunable(j)} :
          /\ mem' = [j \in Job |-> IF j \in D THEN Absent ELSE mem[j]]
          /\ \E K \in SUBSET (D \cap Unsaved) : RemoveFiles(D, K)
    BY <1>6 DEF Prune
  <2>2. PICK K \in SUBSET (D \cap Unsaved) : RemoveFiles(D, K)
    BY <2>1
  <2>3. \A j \in D : start[j] = "done" /\ ~ Alive(j)
    BY DEF Prunable
  <2>4. \A j \in Job : Known(j)' = IF j \in D THEN Absent ELSE Known(j)
    BY <1>6, <2>1 DEF Prune
  <2>5. \A j \in Job : Alive(j)' <=> Alive(j)
    BY <1>6 DEF Prune
  <2>6. PidNamesOwner' /\ SawDeath' /\ DownMeansEmpty' /\ WatcherFits'
    BY <1>6, <2>1 DEF Prune
  <2>9. StartOrder'
    <3>1. \A j \in Job : start[j] # "done" => /\ mem'[j] = mem[j] /\ disk'[j] = disk[j]
                                              /\ j \in logs <=> j \in logs'
      BY <2>1, <2>2, <2>3 DEF RemoveFiles
    <3>2. UNCHANGED <<start, pid, watch, kill>>
      BY <1>6 DEF Prune
    <3> HIDE DEF StartOrder
    <3> QED BY <3>1, <3>2, UnrecordedKept
  <2>7. FinishedMeansDead' /\ LiveJobAddressable'
    BY <1>6, <2>1, <2>2, <2>3, <2>4, <2>5 DEF Prune, RemoveFiles
  <2>8. MemoryMatchesDisk' /\ RunningIsWatched'
    BY <1>6, <2>1, <2>2 DEF Prune, RemoveFiles
  <2> QED BY <2>6, <2>7, <2>8, <2>9
<1>7. CASE Crash
  BY <1>7 DEF Crash, RuntimeGone
<1>8. CASE CrashInPrune
  <2>1. PICK D \in SUBSET {j \in Job : Prunable(j)}, K \in SUBSET Job : RemoveFiles(D, K)
    BY <1>8 DEF CrashInPrune
  <2>2. \A j \in D : start[j] = "done" /\ ~ Alive(j)
    BY DEF Prunable
  <2>3. \A j \in Job : Alive(j)' <=> Alive(j)
    BY <1>8 DEF CrashInPrune, RuntimeGone
  <2>4. PidNamesOwner' /\ SawDeath' /\ DownMeansEmpty' /\ WatcherFits'
    BY <1>8 DEF CrashInPrune, RuntimeGone
  <2>7. StartOrder'
    <3>1. \A j \in Job : start[j] # "done" => disk'[j] = disk[j]
      BY <2>1, <2>2 DEF RemoveFiles
    <3>2. \A j \in Job : /\ mem'[j] = Absent /\ watch'[j] = "none" /\ kill'[j] = "none"
                         /\ pid'[j] = pid[j] /\ start'[j] \notin {"logged", "launched"}
                         /\ start'[j] \in {"idle", "done"} => start'[j] = start[j]
                         /\ start'[j] # "done" => start[j] # "done"
      BY <1>8 DEF CrashInPrune, RuntimeGone
    <3> QED BY <3>1, <3>2
  <2>5. FinishedMeansDead' /\ LiveJobAddressable'
    BY <1>8, <2>1, <2>2, <2>3 DEF CrashInPrune, RuntimeGone, RemoveFiles
  <2>6. MemoryMatchesDisk' /\ RunningIsWatched'
    BY <1>8 DEF CrashInPrune, RuntimeGone
  <2> QED BY <2>4, <2>5, <2>6, <2>7
\* Recovery calls a job finished only if nothing runs under its PID.
<1>9. \A j \in Job : /\ disk[j].status \notin Unfinished => Recovered(j) = disk[j]
                     /\ disk[j].status \in Unfinished =>
                          \/ Recovered(j).status = "running-recovered" /\ ProcessAlive(j)
                          \/ Recovered(j).status \in Finished /\ ~ Alive(j)
  <2> SUFFICES ASSUME NEW j \in Job
               PROVE  /\ disk[j].status \notin Unfinished => Recovered(j) = disk[j]
                      /\ disk[j].status \in Unfinished =>
                           \/ Recovered(j).status = "running-recovered" /\ ProcessAlive(j)
                           \/ Recovered(j).status \in Finished /\ ~ Alive(j)
    OBVIOUS
  <2>1. [disk[j] EXCEPT !.status = "running-recovered"].status = "running-recovered"
    <3>1. disk[j] \in Record
      OBVIOUS
    <3> QED BY <3>1 DEF Record
  <2>2. ~ ProcessAlive(j) => ~ Alive(j)
    BY DEF ProcessAlive
  <2> QED BY <2>1, <2>2 DEF Recovered
<1>10. CASE Restart
  <2>1. PICK K \in SUBSET Unsaved :
          disk' = [j \in Job |-> IF j \in K THEN disk[j] ELSE Recovered(j)]
    BY <1>10 DEF Restart
  <2>2. \A j \in Job : Alive(j)' <=> Alive(j)
    BY <1>10 DEF Restart
  <2>3. \A j \in Job : Known(j)' = Recovered(j) /\ Known(j) = disk[j]
    BY <1>10 DEF Restart
  <2>4. \A j \in Job : start[j] # "done" => Recovered(j) = Absent
    BY <1>9
  <2>5. PidNamesOwner' /\ DownMeansEmpty' /\ SawDeath'
    BY <1>10 DEF Restart
  <2>6. StartOrder'
    <3>1. \A j \in Job : watch'[j] # "none" => start[j] = "done"
      BY <1>10, <2>4 DEF Restart
    <3>2. \A j \in Job : start[j] # "done" => mem'[j] = Absent /\ disk'[j] = Absent
      BY <1>10, <2>1, <2>4 DEF Restart
    <3>3. UNCHANGED <<start, pid, logs, kill>>
      BY <1>10 DEF Restart
    <3>4. \A j \in Job : watch'[j] = "none" \/ start[j] = "done"
      BY <3>1
    <3> QED BY <3>2, <3>3, <3>4
  <2>7. WatcherFits' /\ RunningIsWatched'
    <3>1. \A j \in Job : watch'[j] = IF mem'[j].status = "running-recovered"
                                        THEN "recovered" ELSE "none"
      BY <1>10 DEF Restart
    <3>2. \A j \in Job : mem'[j].status # "running"
      BY <1>9, <1>10 DEF Restart
    <3> QED BY <3>1, <3>2
  <2>8. FinishedMeansDead'
    BY <1>9, <1>10, <2>1, <2>2 DEF Restart
  <2>9. LiveJobAddressable'
    BY <1>9, <1>10, <2>2, <2>3 DEF Restart
  <2>10. MemoryMatchesDisk'
    BY <1>10, <2>1 DEF Restart
  <2> QED BY <2>5, <2>6, <2>7, <2>8, <2>9, <2>10
<1>13. CASE CrashInRecover
  <2>1. PICK D \in SUBSET Job :
          disk' = [j \in Job |-> IF j \in D THEN Recovered(j) ELSE disk[j]]
    BY <1>13 DEF CrashInRecover
  <2>2. \A j \in Job : Alive(j)' <=> Alive(j)
    BY <1>13 DEF CrashInRecover
  <2>3. PidNamesOwner' /\ DownMeansEmpty' /\ SawDeath' /\ WatcherFits' /\ RunningIsWatched'
    BY <1>13 DEF CrashInRecover
  <2>4. StartOrder'
    <3>1. \A j \in Job : start[j] # "done" => Recovered(j) = Absent
      BY <1>9
    <3>2. \A j \in Job : start[j] # "done" => disk'[j] = disk[j]
      BY <2>1, <3>1
    <3>3. UNCHANGED <<mem, start, pid, logs, watch, kill>>
      BY <1>13 DEF CrashInRecover
    <3> HIDE DEF StartOrder
    <3> QED BY <3>2, <3>3, UnrecordedKept
  <2>5. FinishedMeansDead'
    BY <1>9, <1>13, <2>1, <2>2 DEF CrashInRecover
  <2>6. LiveJobAddressable'
    BY <1>9, <1>13, <2>1, <2>2 DEF CrashInRecover
  <2>7. MemoryMatchesDisk'
    BY <1>13 DEF CrashInRecover
  <2> QED BY <2>3, <2>4, <2>5, <2>6, <2>7
<1>11. ASSUME NEW p \in Pid, OtherStarts(p) \/ OtherExits(p) PROVE Consistent'
  <2>1. UNCHANGED <<up, mem, disk, logs, start, pid, watch, kill>>
    BY <1>11 DEF OtherStarts, OtherExits
  <2>2. \A q \in Pid, j \in Job : owner'[q] = j <=> owner[q] = j
    BY <1>11 DEF OtherStarts, OtherExits
  <2>3. \A j \in Job : Alive(j)' <=> Alive(j)
    BY <2>2
  <2>4. PidNamesOwner' /\ StartOrder' /\ DownMeansEmpty' /\ WatcherFits'
    BY <2>1, <2>2
  <2> HIDE DEF Alive
  <2>5. SawDeath' /\ FinishedMeansDead' /\ LiveJobAddressable'
    BY <2>1, <2>3
  <2>6. MemoryMatchesDisk' /\ RunningIsWatched'
    BY <2>1
  <2> QED BY <2>4, <2>5, <2>6
<1>12. CASE UNCHANGED vars
  BY <1>12 DEF vars
<1> QED
  BY <1>1, <1>2, <1>3, <1>4, <1>5, <1>6, <1>7, <1>8, <1>10, <1>11, <1>12, <1>13 DEF Next

\* Nothing has been started, so the invariant holds.
LEMMA JobsInvInit == Init => JobsInv
BY JobsAssumption, JobsTypeCorrect
   DEF Init, JobsInv, Consistent, PidNamesOwner, StartOrder, SawDeath, DownMeansEmpty, WatcherFits,
       FinishedMeansDead, LiveJobAddressable, MemoryMatchesDisk, RunningIsWatched,
       Alive, Known, Absent, Finished, Unfinished, TypeOK, Record, Start, Watch

\* The inductive invariant holds in every reachable state.
THEOREM JobsInvariant == Spec => []JobsInv
BY JobsInvInit, JobsInvStep, PTL DEF Spec

\* No job is reported as finished while its process runs.
THEOREM JobsFinishedMeansDead == Spec => []FinishedMeansDead
<1>1. JobsInv => FinishedMeansDead
  BY DEF JobsInv, Consistent
<1> QED BY <1>1, JobsInvariant, PTL

\* A running job keeps its id, its record and its log across restarts.
THEOREM JobsLiveJobAddressable == Spec => []LiveJobAddressable
<1>1. JobsInv => LiveJobAddressable
  BY DEF JobsInv, Consistent
<1> QED BY <1>1, JobsInvariant, PTL

\* The record file agrees with memory whenever the lock is free.
THEOREM JobsMemoryMatchesDisk == Spec => []MemoryMatchesDisk
<1>1. JobsInv => MemoryMatchesDisk
  BY DEF JobsInv, Consistent
<1> QED BY <1>1, JobsInvariant, PTL

\* A job that is reported as running has a watcher.
THEOREM JobsRunningIsWatched == Spec => []RunningIsWatched
<1>1. JobsInv => RunningIsWatched
  BY DEF JobsInv, Consistent
<1> QED BY <1>1, JobsInvariant, PTL

-----------------------------------------------------------------------------
(* The job store implements JobContract.                                    *)

\* What a step may do to the process of a job and to the report about it.
ContractStep(j) ==
  \/ Life(j)' = Life(j) /\ Report(j)' = Report(j)
  \/ /\ Report(j)' = Report(j)
     /\ \/ Life(j) = "unborn" /\ Life(j)' = "alive"
        \/ Life(j) = "alive" /\ Life(j)' = "dead"
  \/ /\ Life(j)' = Life(j)
     /\ \/ Life(j) # "unborn" /\ Report(j) = "none" /\ Report(j)' = "active"
        \/ Life(j) = "dead" /\ Report(j) = "active" /\ Report(j)' = "ended"
        \/ Life(j) = "dead" /\ Report(j) = "ended" /\ Report(j)' \in {"active", "gone"}

\* The report changes with what is known of the job, and with nothing else.
LEMMA SameReport ==
  ASSUME NEW j \in Job, start'[j] = "done" <=> start[j] = "done",
         start[j] = "done" => Known(j)' = Known(j)
  PROVE  Report(j)' = Report(j)
BY DEF Report

\* A job does not change its process when no PID changes its owner.
LEMMA SameLife ==
  ASSUME NEW j \in Job, UNCHANGED <<owner, pid>>
  PROVE  Life(j)' = Life(j)
BY DEF Life, Alive

\* Freeing one PID ends at most the job that had it.
LEMMA FreedLife ==
  ASSUME JobsInv, NEW j \in Job, NEW p \in Pid, UNCHANGED pid,
         owner' = [owner EXCEPT ![p] = Nobody]
  PROVE  Life(j)' = Life(j) \/ (Life(j) = "alive" /\ Life(j)' = "dead")
<1>1. Alive(j)' => Alive(j)
  BY JobsAssumption DEF JobsInv, TypeOK, Alive
<1>2. Alive(j) => pid[j] # NoPid
  BY JobsAssumption DEF JobsInv, Consistent, PidNamesOwner, Alive
<1> QED BY <1>1, <1>2 DEF Life

LEMMA JobsContractStep ==
  ASSUME JobsInv, JobsInv', [Next]_vars, NEW j \in Job \ Unsaved
  PROVE  ContractStep(j)
<1> USE DEF ContractStep
<1>a. TypeOK /\ TypeOK' /\ Consistent
  BY DEF JobsInv
<1>b. start[j] # "done" => mem[j] = Absent /\ disk[j] = Absent
  BY <1>a DEF Consistent, StartOrder
<1>c. up => mem[j] = disk[j]
  BY <1>a DEF Consistent, MemoryMatchesDisk
<1>d. Known(j).status \in Finished => Life(j) = "dead" /\ start[j] = "done"
  <2>1. Known(j).status \in Finished => ~ Alive(j) /\ start[j] = "done" /\ pid[j] # NoPid
    BY <1>a, <1>b, JobsAssumption
       DEF Known, Consistent, FinishedMeansDead, StartOrder, Absent, Finished
  <2> QED BY <2>1 DEF Life
<1>e. /\ Known(j) # Absent => start[j] = "done"
      /\ Known(j) = Absent => start[j] # "done" \/ Report(j) = "gone"
      /\ Known(j).status \in Finished => Report(j) = "ended"
      /\ Known(j).status \in Unfinished => Report(j) = "active"
      /\ start[j] # "done" => Report(j) = "none"
  BY <1>b, <1>d DEF Known, Report, Absent, Finished, Unfinished
<1>1. ASSUME NEW k \in Job, StartStep(k) PROVE ContractStep(j)
  <2>1. CASE OpenLog(k) \/ LaunchFails(k)
    BY <1>a, <2>1, SameLife, SameReport DEF OpenLog, LaunchFails, Known, TypeOK
  <2>2. CASE Launch(k) \/ LaunchAnswerLost(k)
    <3>1. Report(j)' = Report(j)
      BY <1>a, <2>2, SameReport DEF Launch, LaunchAnswerLost, Spawn, Known, TypeOK
    <3>2. CASE j = k
      <4>1. pid[j] = NoPid /\ ~ Alive(j)
        BY <1>a, <2>2, <3>2, JobsAssumption
           DEF Launch, LaunchAnswerLost, Spawn, Consistent, StartOrder, PidNamesOwner, Alive
      <4>2. Alive(j)'
        BY <1>a, <2>2, <3>2 DEF Launch, LaunchAnswerLost, Spawn, TypeOK, Alive
      <4> QED BY <3>1, <4>1, <4>2 DEF Life
    <3>3. CASE j # k
      <4>1. (Alive(j)' <=> Alive(j)) /\ pid'[j] = pid[j]
        BY <1>a, <2>2, <3>3, JobsAssumption
           DEF Launch, LaunchAnswerLost, Spawn, TypeOK, Alive
      <4> QED BY <3>1, <4>1 DEF Life
    <3> QED BY <3>2, <3>3
  <2>3. CASE RecordStartedJob(k)
    <3>1. Life(j)' = Life(j)
      BY <2>3, SameLife DEF RecordStartedJob
    <3>2. CASE j = k
      <4>1. Life(j) # "unborn" /\ Report(j) = "none"
        BY <1>a, <2>3, <3>2, JobsAssumption
           DEF RecordStartedJob, Consistent, StartOrder, Life, Report
      <4>2. Report(j)' = "active"
        BY <1>a, <2>3, <3>2, SaveEffect
           DEF RecordStartedJob, Report, Known, Absent, Unfinished, TypeOK
      <4> QED BY <3>1, <4>1, <4>2
    <3>3. CASE j # k
      BY <1>a, <2>3, <3>1, <3>3, SaveEffect, SameReport DEF RecordStartedJob, Known, TypeOK
    <3> QED BY <3>2, <3>3
  <2> QED BY <1>1, <2>1, <2>2, <2>3 DEF StartStep
<1>2. ASSUME NEW k \in Job, ProcessExits(k) PROVE ContractStep(j)
  <2>1. Report(j)' = Report(j)
    BY <1>2, SameReport DEF ProcessExits, Known
  <2> QED BY <1>2, <2>1, FreedLife DEF ProcessExits
<1>3. ASSUME NEW k \in Job, WatchStep(k) PROVE ContractStep(j)
  <2>1. Life(j)' = Life(j)
    BY <1>3, SameLife
       DEF WatchStep, FinishJob, MonitorTick, MonitorExternalEnds, MonitorRecoveredEnds
  <2>2. \/ Known(j)' = Known(j)
        \/ k = j /\ up /\ mem[j] # Absent /\ Known(j)'.status \in Finished
           /\ watch[j] \in {"reaped", "externalDead", "recoveredDead"}
    <3>1. UNCHANGED up /\ up
      BY <1>3 DEF WatchStep, FinishJob, MonitorTick, MonitorExternalEnds, MonitorRecoveredEnds
    <3>2. CASE UNCHANGED <<mem, disk>>
      BY <3>1, <3>2 DEF Known
    <3>3. ASSUME NEW st \in Finished, Save(k, [status |-> st, code |-> TRUE]),
                 mem[k] # Absent, watch[k] \in {"reaped", "externalDead", "recoveredDead"}
          PROVE  \/ Known(j)' = Known(j)
                 \/ k = j /\ up /\ mem[j] # Absent /\ Known(j)'.status \in Finished
                    /\ watch[j] \in {"reaped", "externalDead", "recoveredDead"}
      BY <1>a, <3>1, <3>3, SaveEffect DEF Known
    <3>4. \/ UNCHANGED <<mem, disk>>
          \/ /\ \E st \in Finished : Save(k, [status |-> st, code |-> TRUE])
             /\ mem[k] # Absent
             /\ watch[k] \in {"reaped", "externalDead", "recoveredDead"}
      <4>1. CASE mem[k].status = "terminating"
        BY <1>3, <4>1
           DEF WatchStep, FinishJob, MonitorTick, MonitorExternalEnds, MonitorRecoveredEnds,
               Finished, Unfinished, Absent
      <4>2. CASE mem[k].status # "terminating"
        BY <1>3, <4>2
           DEF WatchStep, FinishJob, MonitorTick, MonitorExternalEnds, MonitorRecoveredEnds,
               Finished, Unfinished, Absent
      <4> QED BY <4>1, <4>2
    <3> QED BY <3>2, <3>3, <3>4
  <2>3. UNCHANGED start
    BY <1>3 DEF WatchStep, FinishJob, MonitorTick, MonitorExternalEnds, MonitorRecoveredEnds
  <2>4. CASE Known(j)' = Known(j)
    BY <2>1, <2>3, <2>4, SameReport
  <2>5. CASE k = j /\ up /\ mem[j] # Absent /\ Known(j)'.status \in Finished
             /\ watch[j] \in {"reaped", "externalDead", "recoveredDead"}
    <3>1. Life(j) = "dead"
      BY <1>a, <1>b, <2>5, JobsAssumption
         DEF Consistent, SawDeath, StartOrder, Life
    <3>2. Report(j)' = "ended" /\ Report(j) \in {"active", "ended"}
      BY <1>a, <1>b, <2>3, <2>5 
         DEF Report, Known, Absent, Finished, Unfinished
    <3> QED BY <2>1, <3>1, <3>2
  <2> QED BY <2>2, <2>4, <2>5
<1>4. ASSUME NEW k \in Job, NEW s \in Signals, SignalMark(k, s) PROVE ContractStep(j)
  <2> DEFINE rec == IF s = "HUP" THEN mem[k] ELSE [mem[k] EXCEPT !.status = "terminating"]
  <2>1. rec = mem[k] \/ rec.status = "terminating"
    <3>1. mem[k] \in Record
      BY <1>a DEF TypeOK
    <3> QED BY <3>1 DEF Record
  <2>2. Life(j)' = Life(j)
    BY <1>4, SameLife DEF SignalMark
  <2>3. \/ Known(j)' = Known(j)
        \/ Known(j) # Absent /\ Known(j)'.status = "terminating"
    <3>1. /\ up /\ up' /\ mem[k] # Absent /\ mem'[k] = rec
          /\ k # j => mem'[j] = mem[j]
      BY <1>4, <1>a, SaveEffect DEF SignalMark
    <3> HIDE DEF rec
    <3> QED BY <2>1, <3>1 DEF Known
  <2>4. UNCHANGED start
    BY <1>4 DEF SignalMark
  <2>5. CASE Known(j)' = Known(j)
    BY <2>2, <2>4, <2>5, SameReport
  <2>6. CASE Known(j) # Absent /\ Known(j)'.status = "terminating"
    <3>1. Report(j)' = "active"
      BY <1>e, <2>4, <2>6 DEF Report, Absent, Unfinished
    <3>2. Report(j) = "active" \/ (Report(j) = "ended" /\ Life(j) = "dead")
      <4>1. Known(j).status \in Unfinished \cup Finished
        BY <1>a, <2>6 DEF TypeOK, Record, Known, Absent
      <4> QED BY <1>d, <1>e, <4>1
    <3> QED BY <2>2, <3>1, <3>2
  <2> QED BY <2>3, <2>5, <2>6
<1>5. ASSUME NEW k \in Job, SignalSend(k) PROVE ContractStep(j)
  <2>1. Report(j)' = Report(j)
    BY <1>5, SameReport DEF SignalSend, Known
  <2>2. CASE UNCHANGED owner
    BY <1>5, <2>1, <2>2, SameLife DEF SignalSend
  <2>3. CASE owner' = [owner EXCEPT ![pid[k]] = Nobody]
    <3>1. pid[k] \in Pid
      BY <1>5, <1>a DEF SignalSend, Consistent, StartOrder, TypeOK, Start
    <3> QED BY <1>5, <2>1, <2>3, <3>1, FreedLife DEF SignalSend
  <2> QED BY <1>5, <2>2, <2>3 DEF SignalSend
<1>6. CASE Prune
  <2>1. Life(j)' = Life(j)
    BY <1>6, SameLife DEF Prune
  <2>2. \/ Known(j)' = Known(j)
        \/ Known(j).status \in Finished /\ Known(j)' = Absent
    BY <1>6, <1>a DEF Prune, Prunable, Known, TypeOK
  <2>3. CASE Known(j)' = Known(j)
    BY <1>6, <2>1, <2>3, SameReport DEF Prune
  <2>4. CASE Known(j).status \in Finished /\ Known(j)' = Absent
    <3>1. Report(j)' = "gone"
      BY <1>6, <1>d, <2>4 DEF Prune, Report, Absent, Unfinished
    <3> QED BY <1>d, <1>e, <2>1, <2>4, <3>1
  <2> QED BY <2>2, <2>3, <2>4
\* A crash loses memory only, and the record file says the same.
<1>7. CASE Crash \/ CrashInPrune
  <2>1. Life(j)' = Life(j)
    BY <1>7, SameLife DEF Crash, CrashInPrune, RuntimeGone
  <2>2. start'[j] = "done" <=> start[j] = "done"
    BY <1>7 DEF Crash, CrashInPrune, RuntimeGone
  <2>3. Known(j) = disk[j] /\ Known(j)' = disk'[j]
    BY <1>7, <1>c DEF Crash, CrashInPrune, RuntimeGone, Known
  <2>4. disk'[j] = disk[j] \/ (mem[j].status \in Finished /\ up /\ disk'[j] = Absent)
    BY <1>7, <1>a DEF Crash, CrashInPrune, RuntimeGone, RemoveFiles, Prunable, TypeOK
  <2>5. CASE disk'[j] = disk[j]
    BY <2>1, <2>2, <2>3, <2>5, SameReport
  <2>6. CASE mem[j].status \in Finished /\ up /\ disk'[j] = Absent
    <3>1. Life(j) = "dead" /\ start[j] = "done" /\ Report(j) = "ended"
      BY <1>c, <1>d, <1>e, <2>3, <2>6
    <3>2. Report(j)' = "gone"
      BY <2>2, <2>3, <2>6, <3>1 DEF Report, Absent, Unfinished
    <3> QED BY <2>1, <3>1, <3>2
  <2> QED BY <2>4, <2>5, <2>6
\* Recovery ends the report of a job whose process is gone.
<1>8. CASE Restart \/ CrashInRecover
  <2>1. Life(j)' = Life(j) /\ UNCHANGED start
    BY <1>8, SameLife DEF Restart, CrashInRecover
  <2>2. Known(j) = disk[j] /\ Known(j)' \in {disk[j], Recovered(j)}
    BY <1>8, <1>a DEF Restart, CrashInRecover, Known, TypeOK
  <2>3. CASE Known(j)' = Known(j)
    BY <2>1, <2>3, SameReport
  <2>4. CASE disk[j].status \in Unfinished /\ Known(j)' = Recovered(j)
    <3>1. disk[j] \in Record /\ Report(j) = "active" /\ start[j] = "done"
      BY <1>a, <1>e, <2>2, <2>4 DEF TypeOK, Absent, Unfinished
    <3>2. CASE ProcessAlive(j)
      <4>1. Known(j)'.status = "running-recovered"
        BY <2>4, <3>1, <3>2 DEF Recovered, Record, Unfinished
      <4>2. Report(j)' = "active"
        BY <2>1, <3>1, <4>1 DEF Report, Absent, Unfinished
      <4> QED BY <2>1, <3>1, <4>2
    <3>3. CASE ~ ProcessAlive(j)
      <4>1. Known(j)'.status = "exited-while-runtime-offline"
        BY <2>4, <3>3 DEF Recovered
      <4>2. Report(j)' = "ended"
        BY <2>1, <3>1, <4>1 DEF Report, Absent, Unfinished
      <4>3. Life(j) = "dead"
        BY <1>a, <3>1, <3>3, JobsAssumption
           DEF ProcessAlive, Life, Alive, Consistent, PidNamesOwner, StartOrder
      <4> QED BY <2>1, <3>1, <4>2, <4>3
    <3> QED BY <3>2, <3>3
  <2> QED BY <2>2, <2>3, <2>4 DEF Recovered
<1>9. ASSUME NEW p \in Pid, OtherStarts(p) \/ OtherExits(p) PROVE ContractStep(j)
  <2>1. Report(j)' = Report(j)
    BY <1>9, SameReport DEF OtherStarts, OtherExits, Known
  <2>2. Alive(j)' <=> Alive(j)
    BY <1>9, <1>a, JobsAssumption DEF OtherStarts, OtherExits, TypeOK, Alive
  <2> QED BY <1>9, <2>1, <2>2 DEF OtherStarts, OtherExits, Life
<1>10. CASE UNCHANGED vars
  BY <1>10, SameLife, SameReport DEF vars, Known
<1> QED
  BY <1>1, <1>2, <1>3, <1>4, <1>5, <1>6, <1>7, <1>8, <1>9, <1>10 DEF Next

\* The detailed store implements the promise that JobContract states, for every
\* job whose record file can be written.
THEOREM JobsImplementContract == Spec => ContractSpec
<1>1. Init => Contract!Init
  BY JobsAssumption DEF Init, Contract!Init, Life, Report, Alive
<1>2. JobsInv /\ JobsInv' /\ [Next]_vars => [Contract!Next]_(Contract!contractVars)
  <2> SUFFICES ASSUME JobsInv, JobsInv', [Next]_vars PROVE Contract!Next
    OBVIOUS
  <2>1. \A j \in Job \ Unsaved : ContractStep(j)
    BY JobsContractStep
  <2> QED
    BY <2>1
       DEF ContractStep, Contract!Next, Contract!Becomes, Contract!Born, Contract!Dies,
           Contract!Announced, Contract!Ended, Contract!Reopened, Contract!Forgotten
<1> QED BY <1>1, <1>2, JobsInvariant, PTL DEF Spec, ContractSpec, Contract!Spec

\* A pruned job never comes back.
THEOREM JobsPrunedStaysGone == Spec => PrunedStaysGone
<1>1. JobsInv /\ JobsInv' /\ [Next]_vars =>
        [\A j \in Job \ Unsaved :
           start[j] = "done" /\ Known(j) = Absent => Known(j)' = Absent]_vars
  <2> SUFFICES ASSUME JobsInv, JobsInv', [Next]_vars, NEW j \in Job \ Unsaved,
                      start[j] = "done", Known(j) = Absent
               PROVE  Known(j)' = Absent
    OBVIOUS
  <2>1. ContractStep(j)
    BY JobsContractStep
  <2>2. Report(j) = "gone"
    BY DEF Report, Absent, Unfinished
  <2>3. Report(j)' = "gone"
    BY <2>1, <2>2 DEF ContractStep
  <2>4. Report(j)' = "gone" => Known(j)' = Absent
    BY DEF Report
  <2> QED BY <2>3, <2>4
<1> QED BY <1>1, JobsInvariant, PTL DEF Spec, PrunedStaysGone
=============================================================================
