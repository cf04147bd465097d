--------------------------- MODULE ExecRunProofs ---------------------------
(***************************************************************************)
(* Proofs about ExecRun, for any number of descendants, whether they can   *)
(* leave the process group or not.                                         *)
(***************************************************************************)
EXTENDS ExecRun, TLAPS

\* Where the goroutine stands says how far the leader and the pipe are.
WaiterInv ==
  /\ waiter = "none" => leader = "unborn"
  /\ waiter = "waiting" => leader \in {"running", "exited"}
  /\ waiter \in {"copying", "done"} => leader = "reaped"
  /\ waiter = "done" => ~ PipeHeld

\* Only born descendants have a group and a pipe.
ChildInv ==
  /\ \A d \in Child : child[d] = "unborn" => d \notin inGroup /\ d \notin holds
  /\ leader = "unborn" => \A d \in Child : child[d] = "unborn"

\* The caller waits for the goroutine, and after its kill nobody forks in the
\* group any more.
CallerInv ==
  /\ caller \in {"select", "await"} => waiter # "none"
  /\ caller = "new" => waiter = "none"
  /\ caller = "returned" /\ waiter # "none" => waiter = "done"
  /\ caller \in {"new", "select"} => killed = "nobody"
  /\ caller = "await" \/ killed = "group" =>
       /\ waiter # "none"
       /\ leader # "running"
       /\ \A d \in inGroup : ~ Alive(d)

ExecInv == ExecTypeOK /\ WaiterInv /\ ChildInv /\ CallerInv

LEMMA ExecInvInit == Init => ExecInv
BY DEF Init, ExecInv, ExecTypeOK, WaiterInv, ChildInv, CallerInv, PipeHeld, Alive

\* A fork gives the child only what a living process has.
LEMMA ForkKeeps ==
  ASSUME ExecInv, NEW d \in Child, Fork(d)
  PROVE  /\ leader # "unborn"
         /\ ~ PipeHeld => ~ PipeHeld'
         /\ leader # "running" /\ (\A e \in inGroup : ~ Alive(e)) =>
              \A e \in inGroup' : ~ Alive(e)'
<1> USE DEF ExecInv, ExecTypeOK, Alive
<1>1. PICK g, h \in BOOLEAN :
        /\ \/ leader = "running"
           \/ \E p \in Child : Alive(p) /\ (g => p \in inGroup) /\ (h => p \in holds)
        /\ inGroup' = IF g THEN inGroup \cup {d} ELSE inGroup
        /\ holds' = IF h THEN holds \cup {d} ELSE holds
  BY DEF Fork
<1>2. /\ child[d] = "unborn" /\ d \notin inGroup /\ d \notin holds
      /\ child' = [child EXCEPT ![d] = "alive"] /\ leader' = leader
  BY DEF Fork, ChildInv
<1>3. leader # "unborn"
  BY <1>1 DEF ChildInv
<1>4. ~ PipeHeld => ~ PipeHeld'
  BY <1>1, <1>2 DEF PipeHeld
<1>5. leader # "running" /\ (\A e \in inGroup : ~ Alive(e)) =>
        \A e \in inGroup' : ~ Alive(e)'
  BY <1>1, <1>2
<1> QED BY <1>3, <1>4, <1>5

LEMMA ExecInvNext == ExecInv /\ [Next]_vars => ExecInv'
<1> SUFFICES ASSUME ExecInv, [Next]_vars PROVE ExecInv'
  OBVIOUS
<1> USE DEF ExecInv, ExecTypeOK, processes, calls
<1>1. CASE Start \/ StartFails
  BY <1>1 DEF Start, StartFails, WaiterInv, ChildInv, CallerInv, PipeHeld, Alive
<1>2. CASE Reap \/ CopyEnds
  BY <1>2 DEF Reap, CopyEnds, WaiterInv, ChildInv, CallerInv, PipeHeld, Alive
<1>3. CASE TakeDone \/ Await
  BY <1>3 DEF TakeDone, Await, WaiterInv, ChildInv, CallerInv, PipeHeld, Alive
<1>4. CASE KillGroup
  <2>1. \A d \in inGroup : ~ Alive(d)'
    BY <1>4 DEF KillGroup, Alive
  <2>2. WaiterInv' /\ ChildInv'
    BY <1>4 DEF KillGroup, WaiterInv, ChildInv, PipeHeld, Alive
  <2>3. CallerInv'
    BY <1>4, <2>1 DEF KillGroup, CallerInv
  <2> QED BY <1>4, <2>2, <2>3 DEF KillGroup
<1>5. CASE ContextEnds
  BY <1>5 DEF ContextEnds, WaiterInv, ChildInv, CallerInv, PipeHeld, Alive
<1>6. CASE LeaderExits
  BY <1>6 DEF LeaderExits, WaiterInv, ChildInv, CallerInv, PipeHeld, Alive
<1>7. CASE IdReused
  BY <1>7 DEF IdReused, WaiterInv, ChildInv, CallerInv, PipeHeld, Alive
<1>8. CASE \E d \in Child : Fork(d)
  <2>1. PICK d \in Child : Fork(d)
    BY <1>8
  <2>2. WaiterInv' /\ CallerInv'
    <3>1. WaiterInv'
      BY <2>1, ForkKeeps DEF Fork, WaiterInv
    <3>2. CallerInv'
      BY <2>1, ForkKeeps DEF Fork, CallerInv
    <3> QED BY <3>1, <3>2
  <2>3. leader # "unborn" /\ leader' = leader
    BY <2>1, ForkKeeps DEF Fork
  <2>4. ChildInv'
    BY <2>1, <2>3 DEF Fork, ChildInv
  <2>5. ExecTypeOK'
    BY <2>1 DEF Fork
  <2> QED BY <2>2, <2>4, <2>5
<1>9. CASE \E d \in Child : ChildExits(d)
  BY <1>9 DEF ChildExits, WaiterInv, ChildInv, CallerInv, PipeHeld, Alive
<1>10. CASE UNCHANGED vars
  BY <1>10 DEF vars, WaiterInv, ChildInv, CallerInv, PipeHeld, Alive
<1> QED BY <1>1, <1>2, <1>3, <1>4, <1>5, <1>6, <1>7, <1>8, <1>9, <1>10 DEF Next, Returning

\* The inductive invariant holds of every reachable state.
THEOREM ExecConsistent == Spec => []ExecInv
BY ExecInvInit, ExecInvNext, PTL DEF Spec

\* Every variable of a command's run has its type.
THEOREM ExecTypeCorrect == Spec => []ExecTypeOK
<1>1. ExecInv => ExecTypeOK
  BY DEF ExecInv
<1> QED BY <1>1, ExecConsistent, PTL

\* When a call that ran a command returns, the leader is reaped and nobody can
\* write to the buffers that the result is made of.
THEOREM ExecOutputIsComplete == Spec => []OutputIsComplete
<1>1. ExecInv => OutputIsComplete
  BY DEF ExecInv, WaiterInv, CallerInv, OutputIsComplete
<1> QED BY <1>1, ExecConsistent, PTL

\* A call that has killed the process group leaves no member of it behind,
\* whatever was forked before and during the kill.
THEOREM ExecNoneLeftBehind == Spec => []NoneLeftBehind
<1>1. ExecInv => NoneLeftBehind
  BY DEF ExecInv, WaiterInv, CallerInv, NoneLeftBehind, GroupEmpty
<1> QED BY <1>1, ExecConsistent, PTL
=============================================================================
