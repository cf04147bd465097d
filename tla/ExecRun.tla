------------------------------ MODULE ExecRun -------------------------------
(***************************************************************************)
(* How a command is run with a time limit.  The same code stands in five   *)
(* places: processExec (internal/tools/process.go), targets.Manager.Exec,  *)
(* plugins.execute, sessionbridge.runExec, and execute of the root broker. *)
(*                                                                         *)
(* The command is the leader of a process group of its own, and its output *)
(* goes through a pipe.  cmd.Wait, in a goroutine, reaps the leader and    *)
(* then reads until every holder of the pipe is gone.  The caller waits    *)
(* for that or for its context, kills the group in the second case, and    *)
(* then waits for the goroutine after all.                                 *)
(*                                                                         *)
(* The descendants of the command may stay in the group or leave it        *)
(* (setsid, if Escapes), and may hold the pipe or have closed it.  Once    *)
(* the group is empty its id may be given to another process.              *)
(***************************************************************************)
CONSTANTS
  Child,     \* the descendants of the command
  Escapes    \* whether descendants may leave the process group

ASSUME ExecAssumption == Escapes \in BOOLEAN

VARIABLES
  leader,    \* the shell that runs the command
  child,     \* what has become of each descendant
  inGroup,   \* the descendants that are members of the group
  holds,     \* the descendants that hold the pipe
  reused,    \* the id of the group belongs to another process
  waiter,    \* where the goroutine that calls cmd.Wait stands
  context,   \* the caller's context: it runs, is past its deadline, or cancelled
  caller,    \* where the caller stands
  result,    \* what the caller returns
  killed     \* whom the caller's kill has hit

vars == <<leader, child, inGroup, holds, reused, waiter, context, caller, result, killed>>

processes == <<leader, child, inGroup, holds>>
calls == <<waiter, context, caller, result, killed>>

Alive(d) == child[d] = "alive"

\* The kernel does not hand out the id of a group that has members; a leader
\* counts until it is reaped.
GroupEmpty ==
  /\ leader \in {"unborn", "reaped"}
  /\ \A d \in inGroup : ~ Alive(d)

PipeHeld == leader = "running" \/ \E d \in holds : Alive(d)

Init ==
  /\ leader = "unborn"
  /\ child = [d \in Child |-> "unborn"]
  /\ inGroup = {}
  /\ holds = {}
  /\ reused = FALSE
  /\ waiter = "none"
  /\ context = "running"
  /\ caller = "new"
  /\ result = "none"
  /\ killed = "nobody"

-----------------------------------------------------------------------------
(* The caller and its goroutine                                            *)

Start ==
  /\ caller = "new"
  /\ caller' = "select"
  /\ leader' = "running"
  /\ waiter' = "waiting"
  /\ UNCHANGED <<child, inGroup, holds, reused, context, result, killed>>

StartFails ==
  /\ caller = "new"
  /\ caller' = "returned"
  /\ result' = "error"
  /\ UNCHANGED <<processes, reused, waiter, context, killed>>

\* cmd.Wait reaps the leader ...
Reap ==
  /\ waiter = "waiting"
  /\ leader = "exited"
  /\ leader' = "reaped"
  /\ waiter' = "copying"
  /\ UNCHANGED <<child, inGroup, holds, reused, context, caller, result, killed>>

\* ... and returns when the pipe has been read to its end.
CopyEnds ==
  /\ waiter = "copying"
  /\ ~ PipeHeld
  /\ waiter' = "done"
  /\ UNCHANGED <<processes, reused, context, caller, result, killed>>

\* The select takes the goroutine's answer, even if the context is over too.
TakeDone ==
  /\ caller = "select"
  /\ waiter = "done"
  /\ caller' = "returned"
  /\ result' = "exited"
  /\ UNCHANGED <<processes, reused, waiter, context, killed>>

\* Mutants: the signal goes to the leader alone; a cancelled call returns at once.
KillLeader ==
  /\ caller = "select"
  /\ context # "running"
  /\ caller' = "await"
  /\ killed' = "group"
  /\ leader' = IF leader = "running" THEN "exited" ELSE leader
  /\ UNCHANGED <<child, inGroup, holds, reused, waiter, context, result>>

KillAndReturn ==
  /\ caller = "select"
  /\ context # "running"
  /\ caller' = "returned"
  /\ result' = IF context = "deadline" THEN "timedOut" ELSE "error"
  /\ killed' = "group"
  /\ leader' = IF leader = "running" THEN "exited" ELSE leader
  /\ child' = [d \in Child |-> IF d \in inGroup /\ Alive(d) THEN "dead" ELSE child[d]]
  /\ UNCHANGED <<inGroup, holds, reused, waiter, context>>

\* syscall.Kill(-pid, SIGKILL); whoever has the id gets it.
KillGroup ==
  /\ caller = "select"
  /\ context # "running"
  /\ caller' = "await"
  /\ killed' = IF ~ GroupEmpty THEN "group" ELSE IF reused THEN "other" ELSE "nobody"
  /\ leader' = IF leader = "running" THEN "exited" ELSE leader
  /\ child' = [d \in Child |-> IF d \in inGroup /\ Alive(d) THEN "dead" ELSE child[d]]
  /\ UNCHANGED <<inGroup, holds, reused, waiter, context, result>>

\* Only a deadline makes the result say so.  After a cancellation it is that of
\* the command, and an error if the command is a plugin.
Await ==
  /\ caller = "await"
  /\ waiter = "done"
  /\ caller' = "returned"
  /\ result' \in IF context = "deadline" THEN {"timedOut"} ELSE {"exited", "error"}
  /\ UNCHANGED <<processes, reused, waiter, context, killed>>

ContextEnds ==
  /\ caller = "select"
  /\ context = "running"
  /\ context' \in {"deadline", "cancelled"}
  /\ UNCHANGED <<processes, reused, waiter, caller, result, killed>>

-----------------------------------------------------------------------------
(* The command and the rest of the machine                                 *)

LeaderExits ==
  /\ leader = "running"
  /\ leader' = "exited"
  /\ UNCHANGED <<child, inGroup, holds, reused, calls>>

\* A process of the command forks; a child can keep what its parent has.
Fork(d) ==
  /\ child[d] = "unborn"
  /\ \E g, h \in BOOLEAN :
       /\ \/ leader = "running"
          \/ \E p \in Child : Alive(p) /\ (g => p \in inGroup) /\ (h => p \in holds)
       /\ g \/ Escapes
       /\ inGroup' = IF g THEN inGroup \cup {d} ELSE inGroup
       /\ holds' = IF h THEN holds \cup {d} ELSE holds
  /\ child' = [child EXCEPT ![d] = "alive"]
  /\ UNCHANGED <<leader, reused, calls>>

ChildExits(d) ==
  /\ Alive(d)
  /\ child' = [child EXCEPT ![d] = "dead"]
  /\ UNCHANGED <<leader, inGroup, holds, reused, calls>>

IdReused ==
  /\ leader = "reaped"
  /\ GroupEmpty
  /\ reused' = ~ reused
  /\ UNCHANGED <<processes, calls>>

-----------------------------------------------------------------------------
Returning == Reap \/ CopyEnds \/ TakeDone \/ KillGroup \/ Await

Next ==
  \/ Start \/ StartFails \/ Returning \/ ContextEnds
  \/ LeaderExits \/ IdReused
  \/ \E d \in Child : Fork(d) \/ ChildExits(d)

Spec == Init /\ [][Next]_vars

\* The goroutines run.  Nothing makes a process of the command exit.
FairSpec == Spec /\ WF_vars(Returning)

-----------------------------------------------------------------------------
(* Properties                                                              *)

\* Every variable has its type.
ExecTypeOK ==
  /\ leader \in {"unborn", "running", "exited", "reaped"}
  /\ child \in [Child -> {"unborn", "alive", "dead"}]
  /\ inGroup \subseteq Child
  /\ holds \subseteq Child
  /\ reused \in BOOLEAN
  /\ waiter \in {"none", "waiting", "copying", "done"}
  /\ context \in {"running", "deadline", "cancelled"}
  /\ caller \in {"new", "select", "await", "returned"}
  /\ result \in {"none", "exited", "timedOut", "error"}
  /\ killed \in {"nobody", "group", "other"}

\* A call that ran the command returns when nobody can write to the output
\* buffers any more and the leader has been reaped.
OutputIsComplete ==
  caller = "returned" /\ waiter # "none" => ~ PipeHeld /\ leader = "reaped"

\* A call that has killed the group leaves no member of it behind, also those
\* that were forked meanwhile (README.md:85: "timeout/cancellation kills the
\* group instead of leaving descendants behind").
NoneLeftBehind == caller = "returned" /\ killed = "group" => GroupEmpty

\* A time limit that has passed ends the call (docs/SECURITY.md:52: plugins "are
\* bounded by output limits, timeouts and process-group termination").  It holds
\* for commands whose descendants stay in the group.
BoundedByTimeout == context # "running" ~> caller = "returned"
=============================================================================
