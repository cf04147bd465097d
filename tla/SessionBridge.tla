--------------------------- MODULE SessionBridge ----------------------------
(***************************************************************************)
(* The desktop session bridge of internal/sessionbridge/bridge_linux.go:   *)
(* the bridges that the logins of one user start, the socket path they     *)
(* share, and the process_exec calls of the runtime, which are run in the  *)
(* runtime itself, by whatever bridge that path leads to, or by the root   *)
(* broker (internal/tools/process.go, internal/broker/client.go and        *)
(* cmd/cycomagent-root/main_linux.go).                                     *)
(*                                                                         *)
(* A bridge is checked, cleared and bound in three system calls, and when  *)
(* it ends it removes the path by name, twice.  It may also be killed at   *)
(* any time, and then the path stays.  With Overlap, a bridge may start    *)
(* while another one is starting or ending; without it, logins and         *)
(* logouts follow each other.                                              *)
(*                                                                         *)
(* The checks of the peer's identity are taken to succeed: the programs    *)
(* are those of one installation.  One root broker at a time is started,   *)
(* by the service manager, and again when it has died.                     *)
(***************************************************************************)
EXTENDS FiniteSets, Naturals

CONSTANTS
  Bridge,     \* the bridge processes, each started once
  Broker,     \* the root broker processes, each started once
  Caller,     \* the process_exec calls of the runtime
  Overlap,    \* bridges may start and end at the same time
  LocalPrivilege, \* the platform has privileged execution
  NoSocket,   \* there is no file at the socket path
  Service     \* the runtime itself, as the place where a command runs

ASSUME BridgeAssumption ==
  /\ Overlap \in BOOLEAN
  /\ LocalPrivilege \in BOOLEAN
  /\ Bridge \cap Broker = {}
  /\ NoSocket \notin Bridge \cup Broker
  /\ Service \notin Bridge \cup Broker

VARIABLES
  path,    \* the bridge that made the socket at the path
  st,      \* what each bridge is doing
  root,    \* what each root broker is doing
  want,    \* what each call asks for
  at,      \* where each call stands
  host,    \* the process each call is connected to
  ran      \* where the command of each call has been started, in order

vars == <<path, st, root, want, at, host, ran>>

bridges == <<path, st, root>>
calls == <<want, at, host, ran>>

BridgeState == {"off", "stale", "clear", "up", "closed", "gone", "refused"}

Contexts == {"auto", "service", "desktop", "system"}

\* `user` is `desktop` by another name; a graphical command is one of those that
\* looksLikeDesktopCommand knows, which matters for `auto` alone.
Wish ==
  {w \in [context : Contexts, graphical : BOOLEAN, privileged : BOOLEAN] :
     w.graphical => w.context = "auto"}

CallState == {"idle", "probe", "desktop", "root", "sent", "running", "service", "ok", "error"}

Reachable == path # NoSocket /\ st[path] = "up"

\* main returns only after the deferred calls of Run, and the connections stay
\* open until then.  The runtime is there for its own commands.
Serving(b) ==
  \/ b = Service
  \/ b \in Broker /\ root[b] = "up"
  \/ b \in Bridge /\ st[b] \in {"up", "closed"}

Gone(b) == (b \in Broker /\ root[b] = "gone") \/ (b \in Bridge /\ st[b] = "gone")

Init ==
  /\ path = NoSocket
  /\ st = [b \in Bridge |-> "off"]
  /\ root = [k \in Broker |-> "off"]
  /\ want = [x \in Caller |->
       [context |-> "service", graphical |-> FALSE, privileged |-> FALSE]]
  /\ at = [x \in Caller |-> "idle"]
  /\ host = [x \in Caller |-> NoSocket]
  /\ ran = [x \in Caller |-> {}]

-----------------------------------------------------------------------------
(* The life of a bridge: Run and removeStaleSocket                         *)

Becomes(b, s) == st' = [st EXCEPT ![b] = s]

\* Mutant: without the trial connection every socket counts as stale.
CheckPathUndialed(b) ==
  /\ st[b] = "off"
  /\ Overlap \/ \A d \in Bridge : st[d] \in {"off", "up", "gone", "refused"}
  /\ Becomes(b, IF path = NoSocket THEN "clear" ELSE "stale")
  /\ UNCHANGED <<path, root, calls>>

\* Lstat and a trial connection.
CheckPath(b) ==
  /\ st[b] = "off"
  /\ Overlap \/ \A d \in Bridge : st[d] \in {"off", "up", "gone", "refused"}
  /\ Becomes(b, IF path = NoSocket THEN "clear"
                ELSE IF Reachable THEN "refused" ELSE "stale")
  /\ UNCHANGED <<path, root, calls>>

\* Mutant: a socket that nobody listens on is left alone.
KeepStale(b) ==
  /\ st[b] = "stale"
  /\ Becomes(b, "clear")
  /\ UNCHANGED <<path, root, calls>>

\* os.Remove takes whatever is at the path by now, and fails if nothing is.
RemoveStale(b) ==
  /\ st[b] = "stale"
  /\ path' = NoSocket
  /\ Becomes(b, IF path = NoSocket THEN "refused" ELSE "clear")
  /\ UNCHANGED <<root, calls>>

\* bind fails if there is a file at the path.
Listen(b) ==
  /\ st[b] = "clear"
  /\ path' = IF path = NoSocket THEN b ELSE path
  /\ Becomes(b, IF path = NoSocket THEN "up" ELSE "refused")
  /\ UNCHANGED <<root, calls>>

\* SIGTERM: closing the listener removes the path.
Terminate(b) ==
  /\ st[b] = "up"
  /\ path' = NoSocket
  /\ Becomes(b, "closed")
  /\ UNCHANGED <<root, calls>>

\* The deferred os.Remove of Run, and the end of the process.
Leave(b) ==
  /\ st[b] = "closed"
  /\ path' = NoSocket
  /\ Becomes(b, "gone")
  /\ UNCHANGED <<root, calls>>

\* The login session is torn down, or the bridge crashes.
Kill(b) ==
  /\ st[b] \in {"stale", "clear", "up", "closed"}
  /\ Becomes(b, "gone")
  /\ UNCHANGED <<path, root, calls>>

-----------------------------------------------------------------------------
(* The root broker: main and handle                                        *)

\* Whatever is at its path is removed first.
RootStarts(k) ==
  /\ root[k] = "off"
  /\ \A j \in Broker : root[j] # "up"
  /\ root' = [root EXCEPT ![k] = "up"]
  /\ UNCHANGED <<path, st, calls>>

\* It is told to end, which does not wait for commands, or it dies.
RootEnds(k) ==
  /\ root[k] = "up"
  /\ root' = [root EXCEPT ![k] = "gone"]
  /\ UNCHANGED <<path, st, calls>>

-----------------------------------------------------------------------------
(* A call: processExec and Client.Exec                                     *)

Moves(x, from, to) == at[x] = from /\ at' = [at EXCEPT ![x] = to]

\* executionContextNeedsBridgeProbe
NeedsProbe(w) ==
  /\ ~ w.privileged
  /\ w.context = "desktop" \/ (w.context = "auto" /\ w.graphical)

\* Mutant: the context decides, and the privilege is forgotten.
ResolvedByContext(w, available) ==
  IF w.context = "system" /\ w.privileged THEN "root"
  ELSE IF NeedsProbe(w) /\ available THEN "desktop"
  ELSE IF w.context \in {"desktop", "system"} THEN "error" ELSE "service"

\* resolveExecutionContext, with what processExec refuses after it: where the
\* command goes.
Resolved(w, available) ==
  IF w.privileged
  THEN IF w.context # "desktop" /\ LocalPrivilege THEN "root" ELSE "error"
  ELSE IF NeedsProbe(w) /\ available THEN "desktop"
  ELSE IF w.context \in {"desktop", "system"} THEN "error" ELSE "service"

Begin(x, w) ==
  /\ at[x] \in {"idle", "ok", "error"}
  /\ want' = [want EXCEPT ![x] = w]
  /\ at' = [at EXCEPT ![x] = IF NeedsProbe(w) THEN "probe" ELSE Resolved(w, FALSE)]
  /\ host' = [host EXCEPT ![x] = NoSocket]
  /\ ran' = [ran EXCEPT ![x] = {}]
  /\ UNCHANGED bridges

\* Available, with 150 ms for the answer.
ProbeFinds(x) ==
  /\ Reachable
  /\ Moves(x, "probe", Resolved(want[x], TRUE))
  /\ UNCHANGED <<bridges, want, host, ran>>

\* Mutant: an explicit request falls back to the service.
ProbeMissesFallsBack(x) ==
  /\ Moves(x, "probe", "service")
  /\ UNCHANGED <<bridges, want, host, ran>>

\* There is no bridge, or it is slow.
ProbeMisses(x) ==
  /\ Moves(x, "probe", Resolved(want[x], FALSE))
  /\ UNCHANGED <<bridges, want, host, ran>>

\* The request goes over a connection of its own.
Dial(x) ==
  /\ at[x] = "desktop"
  /\ at' = [at EXCEPT ![x] = IF Reachable THEN "sent" ELSE "error"]
  /\ host' = [host EXCEPT ![x] = IF Reachable THEN path ELSE NoSocket]
  /\ UNCHANGED <<bridges, want, ran>>

\* The same in Client.Exec of the root broker.
DialRoot(x) ==
  /\ at[x] = "root"
  /\ \/ \E k \in Broker :
          /\ root[k] = "up"
          /\ at' = [at EXCEPT ![x] = "sent"]
          /\ host' = [host EXCEPT ![x] = k]
     \/ /\ \A k \in Broker : root[k] # "up"
        /\ at' = [at EXCEPT ![x] = "error"]
        /\ UNCHANGED host
  /\ UNCHANGED <<bridges, want, ran>>

\* handleConnection, or handle, starts the command.
Execute(x) ==
  /\ at[x] = "sent"
  /\ Serving(host[x])
  /\ Moves(x, "sent", "running")
  /\ ran' = [ran EXCEPT ![x] = @ \cup {host[x]}]
  /\ UNCHANGED <<bridges, want, host>>

Answer(x) ==
  /\ at[x] = "running"
  /\ Serving(host[x])
  /\ Moves(x, "running", "ok")
  /\ UNCHANGED <<bridges, want, host, ran>>

\* A bridge or a broker that lives answers with an error, and the runtime ends with one:
\* the command cannot be started, or neither its end nor its output can be waited for.
Declined(x) ==
  /\ at[x] = "service" \/ (at[x] \in {"sent", "running"} /\ Serving(host[x]))
  /\ at' = [at EXCEPT ![x] = "error"]
  /\ UNCHANGED <<bridges, want, host, ran>>

\* Mutants: a lost answer is noticed only before the command starts, or makes the
\* client try again.
LostBeforeStart(x) ==
  /\ at[x] = "sent"
  /\ ~ Serving(host[x])
  /\ at' = [at EXCEPT ![x] = "error"]
  /\ UNCHANGED <<bridges, want, host, ran>>

LostRetried(x) ==
  /\ at[x] \in {"sent", "running"}
  /\ ~ Serving(host[x])
  /\ at' = [at EXCEPT ![x] = "probe"]
  /\ UNCHANGED <<bridges, want, host, ran>>

\* The connection breaks with the other end.  The command, if it was started,
\* goes on without anybody.
Lost(x) ==
  /\ at[x] \in {"sent", "running"}
  /\ ~ Serving(host[x])
  /\ at' = [at EXCEPT ![x] = "error"]
  /\ UNCHANGED <<bridges, want, host, ran>>

\* The runtime starts the command itself.
RunInService(x) ==
  /\ Moves(x, "service", "running")
  /\ host' = [host EXCEPT ![x] = Service]
  /\ ran' = [ran EXCEPT ![x] = @ \cup {Service}]
  /\ UNCHANGED <<bridges, want>>

-----------------------------------------------------------------------------
Starting(b) == CheckPath(b) \/ RemoveStale(b) \/ Listen(b)

Ending(b) == Terminate(b) \/ Leave(b) \/ Kill(b)

Calling(x) ==
  \/ ProbeFinds(x) \/ ProbeMisses(x) \/ Dial(x) \/ DialRoot(x) \/ Execute(x) \/ Answer(x)
  \/ Declined(x) \/ Lost(x) \/ RunInService(x)

Next ==
  \/ \E b \in Bridge : Starting(b) \/ Ending(b)
  \/ \E k \in Broker : RootStarts(k) \/ RootEnds(k)
  \/ \E x \in Caller, w \in Wish : Begin(x, w)
  \/ \E x \in Caller : Calling(x)

Spec == Init /\ [][Next]_vars

\* The kernel closes the connections of a process that has ended, and the client
\* is reading.  Nothing makes a bridge end or a command finish: the timeout of a
\* command kills its process group, but the bridge still waits for whoever else
\* holds the output pipe.
Fairness == \A x \in Caller : WF_vars(Lost(x))

FairSpec == Spec /\ Fairness

-----------------------------------------------------------------------------
(* Properties                                                              *)

\* Every variable has its type.
BridgeTypeOK ==
  /\ path \in Bridge \cup {NoSocket}
  /\ st \in [Bridge -> BridgeState]
  /\ root \in [Broker -> {"off", "up", "gone"}]
  /\ want \in [Caller -> Wish]
  /\ at \in [Caller -> CallState]
  /\ host \in [Caller -> Bridge \cup Broker \cup {NoSocket, Service}]
  /\ ran \in [Caller -> SUBSET (Bridge \cup Broker \cup {Service})]

\* Every bridge that listens can be reached (docs/STABILITY.md:18: "the next
\* desktop autostart creates the new session bridge/socket").
ListenerReachable == \A b \in Bridge : st[b] = "up" => path = b

\* A bridge gives up only while another one serves the user, so a socket that
\* a killed bridge left behind never keeps the next login from its bridge.
GivesUpForAnother ==
  [][\A b \in Bridge :
       st[b] # "refused" /\ st'[b] = "refused" => \E d \in Bridge : st[d] = "up"]_vars

\* A command is started once at most, whatever bridges come and go during the
\* call, and a call that succeeds has started it.
StartedOnce ==
  \A x \in Caller :
    /\ Cardinality(ran[x]) <= 1
    /\ at[x] = "ok" => ran[x] # {}

\* README.md:105: desktop execution without a bridge "returns a clear unavailable
\* error instead of silently falling back into the wrong cgroup".
NoSilentFallback ==
  \A x \in Caller : want[x].context = "desktop" => Service \notin ran[x]

\* README.md:85: `system` "requires privileged=true so the existing policy/
\* root-broker boundary remains authoritative".  Only the root broker runs what is
\* privileged, and it runs nothing else, whatever context is asked for and whatever
\* has come and gone.
PrivilegeKept ==
  \A x \in Caller :
    IF want[x].privileged THEN ran[x] \subseteq Broker ELSE ran[x] \cap Broker = {}

\* What becomes of a command, and what the call is told; the runtime asks itself for
\* what it runs.  RemoteCall knows nothing that is repeated.
Fate(x) ==
  CASE ran[x] = {} -> IF at[x] \in {"idle", "probe", "desktop", "root"} THEN "unasked"
                      ELSE IF at[x] \in {"sent", "service"} THEN "asked" ELSE "lost"
    [] \E h \in Bridge \cup Broker \cup {Service} : ran[x] = {h} -> "done"
    [] OTHER -> "repeated"

Reply(x) == IF at[x] = "ok" THEN "answer" ELSE IF at[x] = "error" THEN "error" ELSE "none"

Remote == INSTANCE RemoteCall WITH
  fate  <- [x \in Caller |-> Fate(x)],
  reply <- [x \in Caller |-> Reply(x)]

\* Client.call (client.go) makes one attempt: a command that was sent is not sent
\* again, to the same process, to its successor or to the runtime itself, also when
\* the one that has it goes away.
BridgeContract == Remote!Spec

\* A call whose bridge or broker has ended gets an error; it does not wait for an answer
\* that cannot come.
BridgeDeathNoticed ==
  \A x \in Caller :
    (at[x] \in {"sent", "running"} /\ Gone(host[x])) ~> at[x] = "error"
=============================================================================
