----------------------------- MODULE ToolCalls ------------------------------
(***************************************************************************)
(* How the runtime carries out a tools/call: the MCP server asks the       *)
(* registry for the tool, the registry looks it up again, asks for a       *)
(* reason, lets the policy engine and the audit logger see the call, and   *)
(* runs the handler (internal/mcp, internal/registry, internal/policy,     *)
(* internal/audit, internal/plugins).                                      *)
(*                                                                         *)
(* The calls of several clients interleave.  Two handlers change what the  *)
(* pipeline itself works with and are modelled step by step: policy_reload *)
(* reads the file outside the lock, and plugins_reload takes the registry  *)
(* and the manifest table apart and builds them again under many locks.    *)
(* Every other handler is one step that returns a value or an error.       *)
(*                                                                         *)
(* Also covered: edits of policy.json and of the plugin directory at any   *)
(* time, and crashes and restarts of the runtime.  Not covered: a file     *)
(* that is missing, panics of handlers, and the log's retention.           *)
(***************************************************************************)
EXTENDS Policy, Sequences

CONSTANTS
  Caller,     \* clients; each has one call at a time
  Reloader,   \* the callers that use plugins_reload
  Request,    \* the calls they make
  Document,   \* what policy.json may hold
  NoDoc,      \* nothing has been read
  Files,      \* the manifest files of the plugin directory, in its order
  NameOf,     \* the tool each of them declares
  NoFile,     \* no plugin has that name
  Shared      \* an argument document that several callers send

File == {Files[i] : i \in DOMAIN Files}

\* A manifest may claim the name of a core tool.
Plugin == {NameOf[f] : f \in File} \ CoreTool

ASSUME ToolCallsAssumption ==
  /\ Reloader \subseteq Caller
  /\ Shared \notin Caller
  /\ \E d \in Document : Loadable(d)
  /\ NoDoc \notin Document
  /\ Files \in Seq(File)
  /\ NoFile \notin File

VARIABLES
  up,         \* the runtime serves requests
  file,       \* policy.json
  cfg,        \* Engine.cfg
  dir,        \* the manifest files that are present
  plugged,    \* Registry.tools: the file each plugin tool was registered from
  manifests,  \* Manager.manifests: the names in it
  pc,         \* where each call stands
  req,        \* the request of each call, with its argument document
  read,       \* the document a policy_reload has read
  todo,       \* the directory entries a plugins_reload has still to load
  outcome,    \* what the handler, or the policy, made of the call
  active,     \* Logger.active: the ids in it
  events      \* the audit events of each call

vars == <<up, file, cfg, dir, plugged, manifests, pc, req, read, todo, outcome,
          active, events>>

\* What the steps of a call share, and what belongs to the call.
world == <<up, file, cfg, dir, plugged, manifests>>
local == <<req, read, todo, outcome>>

-----------------------------------------------------------------------------
Reloading == {"clearing", "listing", "loading", "recording"}

\* audit.BeforeCall has run and AfterCall has not.
Shown == {"running", "reading", "after"} \cup Reloading

\* Interceptors have to be told that the call is over.
InPipeline == {"policy", "refused", "checked", "logging"} \cup Shown

Over == {"idle", "unknown", "unreasoned", "answered"}

Pc == {"found"} \cup InPipeline \cup Over

Call == [tool : CoreTool \cup Plugin, privileged : BOOLEAN, seconds : Int,
         method : STRING, reasoned : BOOLEAN]

Exists(tool) == tool \in CoreTool \/ (tool \in Plugin /\ plugged[tool] # NoFile)

\* Mutant: the id is made of the tool alone.
IdOfTool(c) == <<req[c].tool, Shared>>

\* callID: the hash of the tool and its arguments, whoever sends them.
Id(c) == <<req[c].tool, req[c].doc>>

Goes(c, from, to) == up /\ pc[c] = from /\ pc' = [pc EXCEPT ![c] = to]

-----------------------------------------------------------------------------
(* A fresh runtime                                                         *)

\* The directory entries that are present and declare a name.
Claims(n, D) == {i \in DOMAIN Files : Files[i] \in D /\ NameOf[Files[i]] = n}

\* LoadInto an empty registry: of the files that declare a name, the first wins.
LoadAll(D) ==
  {P \in [Plugin -> File \cup {NoFile}] :
     \A n \in Plugin :
       \/ Claims(n, D) = {} /\ P[n] = NoFile
       \/ \E i \in Claims(n, D) :
            P[n] = Files[i] /\ \A k \in Claims(n, D) : i <= k}

None == [n \in Plugin |-> NoFile]

Registered(P) == {n \in Plugin : P[n] # NoFile}

Blank == [tool |-> "policy_get", doc |-> Shared, privileged |-> FALSE,
          seconds |-> 0, method |-> "", reasoned |-> TRUE]

Init ==
  /\ up = TRUE
  /\ file \in {d \in Document : Loadable(d)}
  /\ cfg = Loaded(file)
  /\ dir \in SUBSET File
  /\ plugged \in IF cfg.plugins THEN LoadAll(dir) ELSE {None}
  /\ manifests = Registered(plugged)
  /\ pc = [c \in Caller |-> "idle"]
  /\ req = [c \in Caller |-> Blank]
  /\ read = [c \in Caller |-> NoDoc]
  /\ todo = [c \in Caller |-> {}]
  /\ outcome = [c \in Caller |-> "none"]
  /\ active = {}
  /\ events = [c \in Caller |-> <<>>]

-----------------------------------------------------------------------------
(* The pipeline                                                            *)

\* dispatch: the server asks whether the tool exists.
Arrive(c, r, d) ==
  /\ up
  /\ pc[c] \in Over
  /\ r.tool = "plugins_reload" => c \in Reloader
  /\ pc' = [pc EXCEPT ![c] = IF Exists(r.tool) THEN "found" ELSE "unknown"]
  /\ req' = [req EXCEPT ![c] =
               [tool |-> r.tool, doc |-> d, privileged |-> r.privileged,
                seconds |-> r.seconds, method |-> r.method, reasoned |-> r.reasoned]]
  /\ read' = [read EXCEPT ![c] = NoDoc]
  /\ todo' = [todo EXCEPT ![c] = {}]
  /\ outcome' = [outcome EXCEPT ![c] = "none"]
  /\ events' = [events EXCEPT ![c] = <<>>]
  /\ UNCHANGED <<world, active>>

\* Registry.Call looks the tool up again, and wants a reason, before any
\* interceptor hears of the call.
LookUp(c) ==
  /\ up
  /\ pc[c] = "found"
  /\ pc' = [pc EXCEPT ![c] = IF ~ Exists(req[c].tool) THEN "unknown"
                              ELSE IF ~ req[c].reasoned THEN "unreasoned"
                              ELSE "policy"]
  /\ UNCHANGED <<world, local, active, events>>

CheckPolicy(c) ==
  /\ up
  /\ pc[c] = "policy"
  /\ pc' = [pc EXCEPT ![c] = IF Refused(cfg, req[c]) THEN "refused" ELSE "checked"]
  /\ outcome' = [outcome EXCEPT ![c] = IF Refused(cfg, req[c]) THEN "error" ELSE "none"]
  /\ UNCHANGED <<world, req, read, todo, active, events>>

\* Logger.BeforeCall
ShowActive(c) ==
  /\ Goes(c, "checked", "running")
  /\ active' = active \cup {Id(c)}
  /\ UNCHANGED <<world, local, events>>

\* Mutants: a refused call is not told to the interceptors; the id is made of
\* the arguments without the reason.
HideExecuted(c) ==
  /\ up
  /\ pc[c] \in {"after", "refused"}
  /\ pc' = [pc EXCEPT ![c] = IF @ = "after" THEN "logging" ELSE "answered"]
  /\ active' = active \ {Id(c)}
  /\ UNCHANGED <<world, local, events>>

HideStripped(c) ==
  /\ up
  /\ pc[c] \in {"after", "refused"}
  /\ pc' = [pc EXCEPT ![c] = "logging"]
  /\ active' = active \ {<<req[c].tool, "stripped">>}
  /\ UNCHANGED <<world, local, events>>

\* The first half of Logger.AfterCall, which a refused call gets as well.
Hide(c) ==
  /\ up
  /\ pc[c] \in {"after", "refused"}
  /\ pc' = [pc EXCEPT ![c] = "logging"]
  /\ active' = active \ {Id(c)}
  /\ UNCHANGED <<world, local, events>>

\* The second half: the event goes to the file.
Log(c) ==
  /\ Goes(c, "logging", "answered")
  /\ events' = [events EXCEPT ![c] = Append(@, outcome[c])]
  /\ UNCHANGED <<world, local, active>>

-----------------------------------------------------------------------------
(* The handlers                                                            *)

Ends(c, from, result) ==
  /\ Goes(c, from, "after")
  /\ outcome' = [outcome EXCEPT ![c] = result]

Handle(c) ==
  /\ req[c].tool \notin {"policy_reload", "plugins_reload"}
  /\ \E result \in {"ok", "error"} : Ends(c, "running", result)
  /\ UNCHANGED <<world, req, read, todo, active, events>>

\* Engine.Reload reads the file and decides on it without the lock.
ReadPolicy(c) ==
  /\ req[c].tool = "policy_reload"
  /\ Goes(c, "running", "reading")
  /\ read' = [read EXCEPT ![c] = file]
  /\ UNCHANGED <<world, req, todo, outcome, active, events>>

SetPolicy(c) ==
  /\ pc[c] = "reading"
  /\ IF Loadable(read[c])
       THEN cfg' = Loaded(read[c]) /\ Ends(c, "reading", "ok")
       ELSE UNCHANGED cfg /\ Ends(c, "reading", "error")
  /\ UNCHANGED <<up, file, dir, plugged, manifests, req, read, todo, active, events>>

\* The handler of plugins_reload asks the policy once more.
PluginsDenied(c) ==
  /\ req[c].tool = "plugins_reload"
  /\ ~ cfg.plugins
  /\ Ends(c, "running", "error")
  /\ UNCHANGED <<world, req, read, todo, active, events>>

\* RemoveSourcePrefix
Unplug(c) ==
  /\ req[c].tool = "plugins_reload"
  /\ cfg.plugins
  /\ Goes(c, "running", "clearing")
  /\ plugged' = None
  /\ UNCHANGED <<up, file, cfg, dir, manifests, local, active, events>>

\* Mutant: the names of the last load stay.
KeepManifests(c) ==
  /\ Goes(c, "clearing", "listing")
  /\ UNCHANGED <<world, local, active, events>>

ClearManifests(c) ==
  /\ Goes(c, "clearing", "listing")
  /\ manifests' = {}
  /\ UNCHANGED <<up, file, cfg, dir, plugged, local, active, events>>

\* LoadInto: ReadDir, which may fail.
ListFiles(c) ==
  /\ Goes(c, "listing", "loading")
  /\ todo' = [todo EXCEPT ![c] = {i \in DOMAIN Files : Files[i] \in dir}]
  /\ UNCHANGED <<world, req, read, outcome, active, events>>

ListFails(c) ==
  /\ Ends(c, "listing", "error")
  /\ UNCHANGED <<world, req, read, todo, active, events>>

\* The entry that comes next in the loop.
Upcoming(c, i) == i \in todo[c] /\ \A k \in todo[c] : i <= k

\* The next file is read and its tool registered.
Plug(c) ==
  /\ Goes(c, "loading", "recording")
  /\ \E i \in DOMAIN Files :
       /\ Upcoming(c, i)
       /\ Files[i] \in dir
       /\ ~ Exists(NameOf[Files[i]])
       /\ plugged' = [plugged EXCEPT ![NameOf[Files[i]]] = Files[i]]
  /\ UNCHANGED <<up, file, cfg, dir, manifests, local, active, events>>

\* The file is gone, or Add refuses a name that is taken.
Skip(c) ==
  /\ Goes(c, "loading", "loading")
  /\ \E i \in DOMAIN Files :
       /\ Upcoming(c, i)
       /\ Files[i] \notin dir \/ Exists(NameOf[Files[i]])
       /\ todo' = [todo EXCEPT ![c] = @ \ {i}]
  /\ UNCHANGED <<world, req, read, outcome, active, events>>

RecordManifest(c) ==
  /\ Goes(c, "recording", "loading")
  /\ \E i \in DOMAIN Files :
       /\ Upcoming(c, i)
       /\ manifests' = manifests \cup {NameOf[Files[i]]}
       /\ todo' = [todo EXCEPT ![c] = @ \ {i}]
  /\ UNCHANGED <<up, file, cfg, dir, plugged, req, read, outcome, active, events>>

PluginsLoaded(c) ==
  /\ todo[c] = {}
  /\ Ends(c, "loading", "ok")
  /\ UNCHANGED <<world, req, read, todo, active, events>>

-----------------------------------------------------------------------------
(* The operator, and the runtime as a whole                                *)

EditPolicy(d) ==
  /\ file' = d
  /\ UNCHANGED <<up, cfg, dir, plugged, manifests, pc, local, active, events>>

EditPlugins(f) ==
  /\ dir' = IF f \in dir THEN dir \ {f} ELSE dir \cup {f}
  /\ UNCHANGED <<up, file, cfg, plugged, manifests, pc, local, active, events>>

Crash ==
  /\ up
  /\ up' = FALSE
  /\ plugged' = None
  /\ manifests' = {}
  /\ pc' = [c \in Caller |-> "idle"]
  /\ req' = [c \in Caller |-> Blank]
  /\ read' = [c \in Caller |-> NoDoc]
  /\ todo' = [c \in Caller |-> {}]
  /\ outcome' = [c \in Caller |-> "none"]
  /\ active' = {}
  /\ events' = [c \in Caller |-> <<>>]
  /\ UNCHANGED <<file, cfg, dir>>

\* runtime.New, which fails as long as the policy cannot be loaded.
Restart ==
  /\ ~ up
  /\ Loadable(file)
  /\ up' = TRUE
  /\ cfg' = Loaded(file)
  /\ plugged' \in IF cfg'.plugins THEN LoadAll(dir) ELSE {None}
  /\ manifests' = Registered(plugged')
  /\ UNCHANGED <<file, dir, pc, local, active, events>>

-----------------------------------------------------------------------------
Pipeline(c) == LookUp(c) \/ CheckPolicy(c) \/ ShowActive(c) \/ Hide(c) \/ Log(c)

ReloadPlugins(c) ==
  \/ PluginsDenied(c) \/ Unplug(c) \/ ClearManifests(c) \/ ListFiles(c)
  \/ ListFails(c) \/ Plug(c) \/ Skip(c) \/ RecordManifest(c) \/ PluginsLoaded(c)

Next ==
  \/ \E c \in Caller, r \in Request : \E d \in {c, Shared} : Arrive(c, r, d)
  \/ \E c \in Caller : Pipeline(c)
  \/ \E c \in Caller : Handle(c) \/ ReadPolicy(c) \/ SetPolicy(c)
  \/ \E c \in Caller : ReloadPlugins(c)
  \/ \E d \in Document : EditPolicy(d)
  \/ \E f \in File : EditPlugins(f)
  \/ Crash
  \/ Restart

Spec == Init /\ [][Next]_vars

-----------------------------------------------------------------------------
(* Properties                                                              *)

\* Every variable has its type.
CallsTypeOK ==
  /\ up \in BOOLEAN
  /\ file \in Document
  /\ cfg \in {Loaded(d) : d \in {d \in Document : Loadable(d)}}
  /\ dir \subseteq File
  /\ plugged \in [Plugin -> File \cup {NoFile}]
  /\ manifests \subseteq Plugin
  /\ pc \in [Caller -> Pc]
  /\ read \in [Caller -> Document \cup {NoDoc}]
  /\ todo \in [Caller -> SUBSET DOMAIN Files]
  /\ outcome \in [Caller -> {"none", "ok", "error"}]
  /\ active \subseteq (CoreTool \cup Plugin) \X (Caller \cup {Shared})
  /\ events \in [Caller -> Seq({"ok", "error"})]

\* Every call that the policy decided on leaves exactly one audit event, with
\* its result, and leaves it before the client has its answer (runtime.go:93:
\* "audit records both denied and executed calls").
AuditedOnce ==
  \A c \in Caller :
    events[c] = IF pc[c] = "answered" THEN <<outcome[c]>> ELSE <<>>

\* The table of active calls never shows a call that is over: no id stays
\* behind, in whatever order identical calls begin and end.
ActiveHasCall ==
  \A id \in active : \E c \in Caller : pc[c] \in Shown /\ Id(c) = id

\* A call whose arguments nobody else sends is shown for as long as its
\* handler runs, whatever other calls end in the meantime.
ShownWhileRunning ==
  \A c \in Caller : pc[c] \in Shown /\ req[c].doc = c => Id(c) \in active

\* Between reloads, the names that health and capabilities_list report are the
\* plugin tools the registry has (if one client at a time reloads them).
PluginNamesTrue ==
  (\A c \in Caller : pc[c] \notin Reloading) => manifests = Registered(plugged)

\* Readonly mode is in force, and no mutation is under way from before.
LockedDown ==
  /\ up
  /\ cfg.mode = "readonly"
  /\ \A c \in Caller : pc[c] \in {"checked"} \cup Shown => ~ IsMutation(req[c].tool)

\* Once that is so it stays so until the runtime is started again: no later
\* call mutates, and none gives the runtime another policy, whatever is
\* written to policy.json.
LockdownLasts == [][LockedDown => LockedDown' \/ ~ up']_vars

\* README.md:65: "every tool call is audit logged".  A call of a known tool
\* without an acceptable reason is answered before the interceptors are run.
EveryCallAudited ==
  \A c \in Caller : pc[c] \in {"answered", "unreasoned"} => events[c] # <<>>
=============================================================================
