------------------------ MODULE SessionBridgeProofs -------------------------
(***************************************************************************)
(* Proofs about SessionBridge, for any sets of bridges and calls.  What    *)
(* concerns the calls holds however bridges come and go; what concerns the *)
(* socket holds when logins and logouts follow each other (~ Overlap).     *)
(***************************************************************************)
EXTENDS SessionBridge, FiniteSetTheorems, TLAPS

-----------------------------------------------------------------------------
(* The calls                                                               *)

\* What a call has done, from where it stands: the command has been started
\* nowhere, or in one place, and that is one where its wish permits it.
CallConsistent(x) ==
  /\ at[x] \in {"sent", "running"} =>
       host[x] \in (IF want[x].privileged THEN Broker ELSE Bridge \cup {Service})
  /\ at[x] = "sent" => host[x] # Service
  /\ at[x] \in {"probe", "desktop", "service"} => ~ want[x].privileged
  /\ at[x] = "root" => want[x].privileged
  /\ at[x] \in {"idle", "probe", "desktop", "root", "sent", "service"} => ran[x] = {}
  /\ IF want[x].privileged THEN ran[x] \subseteq Broker ELSE ran[x] \cap Broker = {}
  /\ at[x] \in {"running", "ok"} => \E h : ran[x] = {h}
  /\ at[x] = "error" => ran[x] = {} \/ \E h : ran[x] = {h}
  /\ want[x].context = "desktop" => at[x] # "service" /\ Service \notin ran[x]

CallsInv == BridgeTypeOK /\ \A x \in Caller : CallConsistent(x)

\* A step keeps the types, and what it does to a call keeps the call consistent.
LEMMA CallsInvStep == CallsInv /\ [Next]_vars => CallsInv'
<1> SUFFICES ASSUME CallsInv, [Next]_vars PROVE CallsInv'
  OBVIOUS
<1> USE DEF BridgeTypeOK
<1>a. BridgeTypeOK /\ \A x \in Caller : CallConsistent(x)
  BY DEF CallsInv
<1>1. ASSUME NEW b \in Bridge, Starting(b) PROVE CallsInv'
  BY <1>1, <1>a
     DEF Starting, CheckPath, RemoveStale, Listen, Becomes, calls, CallsInv, CallConsistent,
         BridgeState
<1>2. ASSUME NEW b \in Bridge, Ending(b) PROVE CallsInv'
  BY <1>2, <1>a
     DEF Ending, Terminate, Leave, Kill, Becomes, calls, CallsInv, CallConsistent, BridgeState
<1>3. ASSUME NEW k \in Broker, RootStarts(k) \/ RootEnds(k) PROVE CallsInv'
  BY <1>3, <1>a DEF RootStarts, RootEnds, calls, CallsInv, CallConsistent
<1>4. ASSUME NEW x \in Caller, NEW w \in Wish, Begin(x, w)
      PROVE  CallsInv'
  <2>1. at'[x] \in CallState \ {"sent", "running", "ok"}
    BY <1>4, <1>a DEF Begin, NeedsProbe, Resolved, CallState
  <2>2. BridgeTypeOK'
    BY <1>4, <1>a, <2>1 DEF Begin, bridges
  <2>3. CallConsistent(x)'
    BY <1>4, <1>a DEF Begin, NeedsProbe, Resolved, CallConsistent
  <2>4. \A y \in Caller \ {x} : CallConsistent(y)'
    BY <1>4, <1>a DEF Begin, bridges, CallConsistent
  <2> QED BY <2>2, <2>3, <2>4 DEF CallsInv
<1>5. ASSUME NEW x \in Caller, Calling(x) PROVE CallsInv'
  <2> DEFINE Other == \A y \in Caller \ {x} : CallConsistent(y)'
  <2>0. /\ UNCHANGED <<path, st, root, want>>
        /\ \A y \in Caller \ {x} : at'[y] = at[y] /\ host'[y] = host[y] /\ ran'[y] = ran[y]
    BY <1>5, <1>a DEF Calling, ProbeFinds, ProbeMisses, Dial, DialRoot, Execute, Answer, Declined,
                      Lost, RunInService, Moves, bridges
  <2>a. Other
    BY <2>0, <1>a DEF CallConsistent
  <2>b. CallConsistent(x)
    BY <1>a
  <2>c. BridgeTypeOK' /\ CallConsistent(x)' /\ Other => CallsInv'
    BY DEF CallsInv
  <2> HIDE DEF Other
  <2>1. CASE ProbeFinds(x) \/ ProbeMisses(x)
    <3>1. /\ at[x] = "probe"
          /\ at' = [at EXCEPT ![x] = at'[x]]
          /\ at'[x] \in {"desktop", "service", "error"}
          /\ want[x].context = "desktop" => at'[x] # "service"
          /\ UNCHANGED <<host, ran>>
      BY <2>1, <2>b, <1>a
         DEF ProbeFinds, ProbeMisses, Moves, Resolved, NeedsProbe, CallConsistent
    <3> QED BY <3>1, <2>0, <2>a, <2>b, <2>c, <1>a DEF CallConsistent, CallState
  <2>2. CASE Answer(x) \/ Declined(x) \/ Lost(x)
    BY <2>2, <2>a, <2>b, <2>c, <1>a
       DEF Answer, Declined, Lost, Moves, bridges, CallConsistent, CallState
  <2>3. CASE Dial(x)
    BY <2>3, <2>a, <2>b, <2>c, <1>a, BridgeAssumption
       DEF Dial, Reachable, bridges, CallConsistent, CallState
  <2>4. CASE DialRoot(x)
    <3>1. CASE \E k \in Broker : root[k] = "up"
      <4>1. PICK k \in Broker : /\ at' = [at EXCEPT ![x] = "sent"]
                                /\ host' = [host EXCEPT ![x] = k]
        BY <2>4, <3>1 DEF DialRoot
      <4>2. k # Service
        BY BridgeAssumption
      <4> QED BY <2>4, <4>1, <4>2, <2>0, <2>a, <2>b, <2>c, <1>a
                 DEF DialRoot, CallConsistent, CallState
    <3>2. CASE ~ \E k \in Broker : root[k] = "up"
      BY <2>4, <3>2, <2>a, <2>b, <2>c, <1>a DEF DialRoot, bridges, CallConsistent, CallState
    <3> QED BY <3>1, <3>2
  <2>5. CASE Execute(x)
    <3>1. host[x] \in Bridge \cup Broker /\ ran'[x] = {host[x]} /\ at'[x] = "running"
      BY <2>5, <2>b, <1>a DEF Execute, Moves, CallConsistent
    <3>2. BridgeTypeOK'
      BY <2>5, <3>1, <1>a DEF Execute, Moves, bridges, CallState
    <3>3. CallConsistent(x)'
      BY <2>5, <3>1, <2>b, BridgeAssumption DEF Execute, Moves, bridges, CallConsistent
    <3> QED BY <3>2, <3>3, <2>a, <2>c
  <2>6. CASE RunInService(x)
    <3>1. /\ ran'[x] = {Service} /\ at'[x] = "running" /\ host'[x] = Service
          /\ ~ want'[x].privileged /\ want'[x].context # "desktop"
      BY <2>6, <2>0, <2>b, <1>a DEF RunInService, Moves, CallConsistent
    <3>2. BridgeTypeOK'
      BY <2>6, <1>a DEF RunInService, Moves, bridges, CallState
    <3>3. {Service} \cap Broker = {}
      BY BridgeAssumption
    <3>4. CallConsistent(x)'
      BY <3>1, <3>3 DEF CallConsistent
    <3> QED BY <3>2, <3>4, <2>a, <2>c
  <2> QED BY <1>5, <2>1, <2>2, <2>3, <2>4, <2>5, <2>6 DEF Calling
<1>6. CASE UNCHANGED vars
  BY <1>6, <1>a DEF vars, CallsInv, CallConsistent
<1> QED BY <1>1, <1>2, <1>3, <1>4, <1>5, <1>6 DEF Next

\* The invariant of the calls holds in every reachable state.
THEOREM BridgeCallsConsistent == Spec => []CallsInv
<1>1. Init => CallsInv
  BY DEF Init, CallsInv, CallConsistent, BridgeTypeOK, BridgeState, Wish, Contexts, CallState
<1> QED BY <1>1, CallsInvStep, PTL DEF Spec

\* Every reachable state is well typed.
THEOREM BridgeTypeCorrect == Spec => []BridgeTypeOK
<1>1. CallsInv => BridgeTypeOK
  BY DEF CallsInv
<1> QED BY <1>1, BridgeCallsConsistent, PTL

\* A command is never started in two places, and a call that succeeds has
\* started it: Client.call does not try again.
THEOREM BridgeStartedOnce == Spec => []StartedOnce
<1>1. CallsInv => StartedOnce
  <2> SUFFICES ASSUME CallsInv, NEW x \in Caller
               PROVE  Cardinality(ran[x]) <= 1 /\ (at[x] = "ok" => ran[x] # {})
    BY DEF StartedOnce
  <2>1. ran[x] = {} \/ \E h : ran[x] = {h}
    BY DEF CallsInv, CallConsistent, BridgeTypeOK, CallState
  <2>2. Cardinality(ran[x]) <= 1
    BY <2>1, FS_EmptySet, FS_Singleton
  <2>3. at[x] = "ok" => ran[x] # {}
    BY DEF CallsInv, CallConsistent
  <2> QED BY <2>2, <2>3
<1> QED BY <1>1, BridgeCallsConsistent, PTL

\* resolveExecutionContext never sends a desktop call to the service.
THEOREM BridgeNoSilentFallback == Spec => []NoSilentFallback
<1>1. CallsInv => NoSilentFallback
  BY DEF CallsInv, CallConsistent, NoSilentFallback
<1> QED BY <1>1, BridgeCallsConsistent, PTL

\* processExec gives the root broker what is privileged, and nothing else.
THEOREM BridgePrivilegeKept == Spec => []PrivilegeKept
<1>1. CallsInv => PrivilegeKept
  BY DEF CallsInv, CallConsistent, PrivilegeKept
<1> QED BY <1>1, BridgeCallsConsistent, PTL

-----------------------------------------------------------------------------
(* The calls implement RemoteCall.                                         *)

\* What a step does to the fate of a command, and to what its call is told.
RemoteStep(x) ==
  \/ Fate(x)' = Fate(x) /\ Reply(x)' = Reply(x)
  \/ /\ Reply(x)' = Reply(x)
     /\ \/ Fate(x) = "unasked" /\ Reply(x) = "none" /\ Fate(x)' = "asked"
        \/ Fate(x) = "asked" /\ Fate(x)' = "done"
  \/ /\ Reply(x) = "none"
     /\ \/ Fate(x) \in {"asked", "done"} /\ Fate(x)' = "done" /\ Reply(x)' = "answer"
        \/ Fate(x)' \in {Fate(x), "lost"} /\ Reply(x)' = "error"
  \/ /\ Reply(x) # "none"
     /\ \/ Fate(x)' \in {"unasked", "asked"} /\ Reply(x)' = "none"
        \/ Fate(x)' = "lost" /\ Reply(x)' = "error"

LEMMA RemoteCallStep ==
  ASSUME CallsInv, [Next]_vars, NEW x \in Caller
  PROVE  RemoteStep(x)
<1> USE DEF RemoteStep, Fate, Reply
<1>a. at \in [Caller -> CallState] /\ ran \in [Caller -> SUBSET (Bridge \cup Broker \cup {Service})]
  BY DEF CallsInv, BridgeTypeOK
<1>b. CallConsistent(x)
  BY DEF CallsInv
<1>c. at[x] \in {"running", "ok"} => Fate(x) = "done"
  <2>1. \A h : ran[x] = {h} => h \in Bridge \cup Broker \cup {Service}
    BY <1>a
  <2> QED BY <2>1, <1>b DEF CallConsistent
<1>1. CASE UNCHANGED <<at, ran>>
  BY <1>1
<1>2. ASSUME NEW b \in Bridge, Starting(b) \/ Ending(b) PROVE UNCHANGED <<at, ran>>
  BY <1>2 DEF Starting, CheckPath, RemoveStale, Listen, Ending, Terminate, Leave, Kill, calls
<1>3. ASSUME NEW k \in Broker, RootStarts(k) \/ RootEnds(k) PROVE UNCHANGED <<at, ran>>
  BY <1>3 DEF RootStarts, RootEnds, calls
<1>4. ASSUME NEW y \in Caller, NEW w \in Wish, Begin(y, w) PROVE RemoteStep(x)
  <2>1. CASE y = x
    <3>1. /\ at[x] \in {"idle", "ok", "error"} /\ ran'[x] = {}
          /\ at'[x] \in {"probe", "root", "desktop", "service", "error"}
      BY <1>4, <1>a, <2>1 DEF Begin, Resolved
    <3> QED BY <3>1, <1>b DEF CallConsistent
  <2>2. CASE y # x
    BY <1>4, <1>a, <2>2 DEF Begin
  <2> QED BY <2>1, <2>2
<1>5. ASSUME NEW y \in Caller, Calling(y) PROVE RemoteStep(x)
  <2>1. CASE y = x
    <3>1. CASE ProbeFinds(x) \/ ProbeMisses(x)
      <4>1. at[x] = "probe" /\ at'[x] \in {"root", "desktop", "service", "error"} /\ ran'[x] = ran[x]
        BY <3>1, <1>a DEF ProbeFinds, ProbeMisses, Moves, Resolved
      <4> QED BY <4>1, <1>b DEF CallConsistent
    <3>2. CASE Dial(x) \/ DialRoot(x)
      <4>1. at[x] \in {"desktop", "root"} /\ at'[x] \in {"sent", "error"} /\ ran'[x] = ran[x]
        BY <3>2, <1>a DEF Dial, DialRoot
      <4> QED BY <4>1, <1>b DEF CallConsistent
    <3>3. CASE Execute(x)
      <4>1. at[x] = "sent" /\ at'[x] = "running" /\ ran[x] = {} /\ ran'[x] = {host[x]}
        BY <3>3, <1>a, <1>b DEF Execute, Moves, CallConsistent
      <4>2. host[x] \in Bridge \cup Broker
        BY <4>1, <1>b DEF CallConsistent
      <4>3. Fate(x)' = "done" /\ Fate(x) = "asked" /\ Reply(x) = "none" /\ Reply(x)' = "none"
        BY <4>1, <4>2
      <4> QED BY <4>3
    <3>4. CASE Answer(x)
      <4>1. at[x] = "running" /\ at'[x] = "ok" /\ ran'[x] = ran[x]
        BY <3>4, <1>a DEF Answer, Moves
      <4>2. Fate(x) = "done" /\ ran[x] # {}
        BY <4>1, <1>b, <1>c DEF CallConsistent
      <4>3. Fate(x)' = "done" /\ Reply(x) = "none" /\ Reply(x)' = "answer"
        BY <4>1, <4>2
      <4> QED BY <4>2, <4>3
    <3>5. CASE Declined(x) \/ Lost(x)
      <4>1. at[x] \in {"service", "sent", "running"} /\ at'[x] = "error" /\ ran'[x] = ran[x]
        BY <3>5, <1>a DEF Declined, Lost
      <4>2. Fate(x)' = IF at[x] = "running" THEN "done" ELSE "lost"
        BY <4>1, <1>b, <1>c DEF CallConsistent
      <4> QED BY <4>1, <4>2, <1>c
    <3>6. CASE RunInService(x)
      <4>1. at[x] = "service" /\ at'[x] = "running" /\ ran[x] = {} /\ ran'[x] = {Service}
        BY <3>6, <1>a, <1>b DEF RunInService, Moves, CallConsistent
      <4>2. Fate(x)' = "done" /\ Fate(x) = "asked" /\ Reply(x) = "none" /\ Reply(x)' = "none"
        BY <4>1
      <4> QED BY <4>2
    <3> QED BY <1>5, <2>1, <3>1, <3>2, <3>3, <3>4, <3>5, <3>6 DEF Calling
  <2>2. CASE y # x
    <3>1. at'[x] = at[x] /\ ran'[x] = ran[x]
      BY <1>5, <1>a, <2>2 DEF Calling, ProbeFinds, ProbeMisses, Dial, DialRoot, Execute, Answer,
                              Declined, Lost, RunInService, Moves
    <3> QED BY <3>1
  <2> QED BY <2>1, <2>2
<1>6. CASE UNCHANGED vars
  BY <1>1, <1>6 DEF vars
<1> QED BY <1>1, <1>2, <1>3, <1>4, <1>5, <1>6 DEF Next

\* processExec, Client.Exec and the two servers keep what RemoteCall promises: no
\* command is started twice, however bridges and brokers follow each other, and
\* what is answered was done.
THEOREM BridgeImplementsRemoteCall == Spec => BridgeContract
<1>1. Init => Remote!Init
  BY DEF Init, Remote!Init, Fate, Reply
<1>2. CallsInv /\ [Next]_vars => [Remote!Next]_(Remote!remoteVars)
  <2> SUFFICES ASSUME CallsInv, [Next]_vars PROVE Remote!Next
    OBVIOUS
  <2>1. \A x \in Caller : RemoteStep(x)
    BY RemoteCallStep
  <2> QED
    BY <2>1
       DEF RemoteStep, Remote!Next, Remote!Step, Remote!Becomes, Remote!Asked, Remote!Done,
           Remote!Answered, Remote!Failed, Remote!Begins
<1> QED BY <1>1, <1>2, BridgeCallsConsistent, PTL DEF Spec, BridgeContract, Remote!Spec

\* A set that is empty or holds one element has at most one: the runs a command has had.
LEMMA AtMostOne ==
  ASSUME NEW S, S = {} \/ \E h : S = {h}
  PROVE  Cardinality(S) <= 1
<1>1. CASE S = {}
  BY <1>1, FS_EmptySet
<1>2. CASE \E h : S = {h}
  BY <1>2, FS_Singleton
<1> QED BY <1>1, <1>2

\* The contract gives StartedOnce: a command that may have been handed to a transport is
\* never sent again, so that no command is started in two places.
THEOREM ContractStartsOnce == BridgeContract => []StartedOnce
<1>1. Remote!Init => Remote!Kept
  BY DEF Remote!Init, Remote!Kept
<1>2. Remote!Kept /\ [Remote!Next]_(Remote!remoteVars) => Remote!Kept'
  BY DEF Remote!Next, Remote!remoteVars, Remote!Step, Remote!Becomes, Remote!Asked, Remote!Done,
         Remote!Dropped, Remote!Answered, Remote!Failed, Remote!Begins, Remote!Kept
<1>3. Remote!Kept => StartedOnce
  <2> SUFFICES ASSUME Remote!Kept, NEW x \in Caller
               PROVE  Cardinality(ran[x]) <= 1 /\ (at[x] = "ok" => ran[x] # {})
    BY DEF StartedOnce
  <2>1. Fate(x) # "repeated" /\ (Reply(x) = "answer" => Fate(x) = "done")
    BY DEF Remote!Kept
  <2>2. ran[x] = {} \/ \E h : ran[x] = {h}
    BY <2>1 DEF Fate
  <2>3. Cardinality(ran[x]) <= 1
    BY <2>2, AtMostOne
  <2>4. at[x] = "ok" => ran[x] # {}
    BY <2>1 DEF Fate, Reply
  <2> QED BY <2>3, <2>4
<1> QED BY <1>1, <1>2, <1>3, PTL DEF BridgeContract, Remote!Spec

-----------------------------------------------------------------------------
(* The socket, when logins and logouts follow each other                   *)

\* b is between two of its system calls on the path.
Busy(b) == st[b] \in {"stale", "clear", "closed"}

\* One bridge at a time is busy, and meanwhile nobody listens; a bridge that
\* is about to remove the path or to bind it finds there what it has seen.
SocketInv ==
  /\ BridgeTypeOK
  /\ ListenerReachable
  /\ \A b, d \in Bridge : Busy(b) /\ Busy(d) => b = d
  /\ \A b, d \in Bridge : Busy(b) => st[d] # "up"
  /\ \A b \in Bridge : st[b] = "stale" => path # NoSocket
  /\ \A b \in Bridge : st[b] = "clear" => path = NoSocket

\* Each system call of a bridge keeps the invariant.
LEMMA SocketInvStep ==
  ASSUME ~ Overlap, SocketInv, BridgeTypeOK', [Next]_vars
  PROVE  SocketInv'
<1> USE DEF SocketInv, BridgeTypeOK, BridgeState, ListenerReachable, Busy
<1>1. ASSUME NEW b \in Bridge, Starting(b) PROVE SocketInv'
  <2>1. CASE CheckPath(b)
    BY <2>1, BridgeAssumption DEF CheckPath, Becomes, Reachable
  <2>2. CASE RemoveStale(b)
    BY <2>2, BridgeAssumption DEF RemoveStale, Becomes
  <2>3. CASE Listen(b)
    BY <2>3, BridgeAssumption DEF Listen, Becomes
  <2> QED BY <1>1, <2>1, <2>2, <2>3 DEF Starting
<1>2. ASSUME NEW b \in Bridge, Ending(b) PROVE SocketInv'
  <2>1. CASE Terminate(b)
    BY <2>1, BridgeAssumption DEF Terminate, Becomes
  <2>2. CASE Leave(b)
    BY <2>2, BridgeAssumption DEF Leave, Becomes
  <2>3. CASE Kill(b)
    BY <2>3, BridgeAssumption DEF Kill, Becomes
  <2> QED BY <1>2, <2>1, <2>2, <2>3 DEF Ending
<1>3. ASSUME UNCHANGED <<path, st>> PROVE SocketInv'
  BY <1>3
<1> QED
  BY <1>1, <1>2, <1>3
     DEF Next, Begin, Calling, ProbeFinds, ProbeMisses, Dial, DialRoot, Execute, Answer,
         Declined, Lost, RunInService, RootStarts, RootEnds, bridges, vars

\* The invariant of the socket holds in every reachable state.
THEOREM BridgeSocketConsistent == ASSUME ~ Overlap PROVE Spec => []SocketInv
<1>1. Init => SocketInv
  BY BridgeAssumption
     DEF Init, SocketInv, BridgeTypeOK, BridgeState, Wish, Contexts, CallState,
         ListenerReachable, Busy
<1>2. SocketInv /\ BridgeTypeOK' /\ [Next]_vars => SocketInv'
  BY SocketInvStep
<1> QED BY <1>1, <1>2, BridgeTypeCorrect, PTL DEF Spec

\* A bridge that listens can be reached: no other bridge removes its socket.
THEOREM BridgeListenerReachable == ASSUME ~ Overlap PROVE Spec => []ListenerReachable
<1>1. SocketInv => ListenerReachable
  BY DEF SocketInv
<1> QED BY <1>1, BridgeSocketConsistent, PTL

\* A bridge gives up only because another one serves the user.
THEOREM BridgeGivesUpForAnother == ASSUME ~ Overlap PROVE Spec => GivesUpForAnother
<1>1. SocketInv /\ [Next]_vars =>
        [\A b \in Bridge :
           st[b] # "refused" /\ st'[b] = "refused" => \E d \in Bridge : st[d] = "up"]_vars
  <2> SUFFICES ASSUME SocketInv, Next, NEW b \in Bridge,
                      st[b] # "refused", st'[b] = "refused"
               PROVE  \E d \in Bridge : st[d] = "up"
    OBVIOUS
  <2> USE DEF SocketInv, BridgeTypeOK
  <2>1. PICK d \in Bridge : Starting(d) \/ Ending(d)
    BY DEF Next, Begin, Calling, ProbeFinds, ProbeMisses, Dial, DialRoot, Execute, Answer,
           Declined, Lost, RunInService, RootStarts, RootEnds, bridges
  <2>2. CheckPath(b)
    BY <2>1 DEF Starting, CheckPath, RemoveStale, Listen, Ending, Terminate, Leave, Kill,
                Becomes
  <2>3. Reachable
    BY <2>2 DEF CheckPath, Becomes
  <2> QED BY <2>3 DEF Reachable
<1> QED BY <1>1, BridgeSocketConsistent, PTL DEF Spec, GivesUpForAnother
=============================================================================
