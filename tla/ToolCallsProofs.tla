-------------------------- MODULE ToolCallsProofs ---------------------------
(***************************************************************************)
(* Proofs about ToolCalls, for any clients, requests, policies and plugin  *)
(* manifests.                                                              *)
(***************************************************************************)
EXTENDS ToolCalls, TLAPS

CallStep(c) ==
  \/ \E r \in Request : \E d \in {c, Shared} : Arrive(c, r, d)
  \/ Pipeline(c)
  \/ Handle(c) \/ ReadPolicy(c) \/ SetPolicy(c)
  \/ ReloadPlugins(c)

RuntimeStep ==
  \/ \E d \in Document : EditPolicy(d)
  \/ \E f \in File : EditPlugins(f)
  \/ Crash
  \/ Restart

\* A step is one of a call, or of the runtime as a whole.
LEMMA Steps == Next <=> (\E c \in Caller : CallStep(c)) \/ RuntimeStep
BY DEF Next, CallStep, RuntimeStep

Functions ==
  /\ pc \in [Caller -> Pc]
  /\ DOMAIN req = Caller
  /\ read \in [Caller -> Document \cup {NoDoc}]
  /\ todo \in [Caller -> SUBSET DOMAIN Files]
  /\ outcome \in [Caller -> {"none", "ok", "error"}]
  /\ events \in [Caller -> Seq({"ok", "error"})]

\* The steps of a call leave the other calls alone.
LEMMA OthersUntouched ==
  ASSUME Functions, NEW c \in Caller, CallStep(c), NEW y \in Caller, y # c
  PROVE  /\ pc'[y] = pc[y] /\ req'[y] = req[y] /\ read'[y] = read[y]
         /\ todo'[y] = todo[y] /\ outcome'[y] = outcome[y] /\ events'[y] = events[y]
<1> USE DEF Functions, Goes, Ends, world, local
<1>1. CASE \E r \in Request : \E d \in {c, Shared} : Arrive(c, r, d)
  BY <1>1 DEF Arrive
<1>2. CASE Pipeline(c)
  BY <1>2 DEF Pipeline, LookUp, CheckPolicy, ShowActive, Hide, Log
<1>3. CASE Handle(c) \/ ReadPolicy(c) \/ SetPolicy(c)
  BY <1>3 DEF Handle, ReadPolicy, SetPolicy
<1>4. CASE ReloadPlugins(c)
  BY <1>4 DEF ReloadPlugins, PluginsDenied, Unplug, ClearManifests, ListFiles, ListFails,
              Plug, Skip, RecordManifest, PluginsLoaded
<1> QED BY <1>1, <1>2, <1>3, <1>4 DEF CallStep

-----------------------------------------------------------------------------
(* Types, and what is known of a call from where it stands                 *)

Reasonable(c) ==
  /\ req[c].doc \in {c, Shared}
  /\ req[c].tool = "plugins_reload" => c \in Reloader
  /\ pc[c] \in {"found"} \cup InPipeline => req[c].tool \in CoreTool \cup Plugin
  /\ pc[c] \in Reloading => req[c].tool = "plugins_reload"
  /\ pc[c] = "reading" => req[c].tool = "policy_reload" /\ read[c] \in Document
  /\ pc[c] = "recording" =>
       \A i \in DOMAIN Files : Upcoming(c, i) => NameOf[Files[i]] \in Plugin
  /\ pc[c] \in {"after", "refused", "logging", "answered"} => outcome[c] \in {"ok", "error"}

CallsInv == CallsTypeOK /\ DOMAIN req = Caller /\ \A c \in Caller : Reasonable(c)

\* A step of a call keeps what is known of the call.
LEMMA ReasonableStep ==
  ASSUME CallsInv, NEW c \in Caller, CallStep(c)
  PROVE  Reasonable(c)'
<1> USE DEF CallsInv, CallsTypeOK, Reasonable, Goes, Ends, world, local, Pc, InPipeline, Shown,
            Reloading, Over
<1>1. CASE \E r \in Request : \E d \in {c, Shared} : Arrive(c, r, d)
  BY <1>1 DEF Arrive, Exists
<1>2. CASE LookUp(c)
  BY <1>2 DEF LookUp
<1>3. CASE CheckPolicy(c)
  BY <1>3 DEF CheckPolicy
<1>4. CASE ShowActive(c)
  BY <1>4 DEF ShowActive
<1>5. CASE Hide(c)
  BY <1>5 DEF Hide
<1>6. CASE Log(c)
  BY <1>6 DEF Log
<1>7. CASE Handle(c)
  BY <1>7 DEF Handle
<1>8. CASE ReadPolicy(c)
  BY <1>8 DEF ReadPolicy
<1>9. CASE SetPolicy(c)
  BY <1>9 DEF SetPolicy
<1>10. CASE PluginsDenied(c) \/ Unplug(c) \/ ClearManifests(c)
  BY <1>10 DEF PluginsDenied, Unplug, ClearManifests
<1>11. CASE ListFiles(c) \/ ListFails(c) \/ PluginsLoaded(c)
  BY <1>11 DEF ListFiles, ListFails, PluginsLoaded
<1>12. CASE Plug(c)
  <2>1. PICK i \in DOMAIN Files : Upcoming(c, i) /\ ~ Exists(NameOf[Files[i]])
    BY <1>12 DEF Plug
  <2>2. NameOf[Files[i]] \in Plugin
    BY <2>1 DEF Exists, Plugin, File
  <2>3. \A k \in DOMAIN Files : Upcoming(c, k)' => k = i
    BY <1>12, <2>1, ToolCallsAssumption DEF Plug, Upcoming
  <2> QED BY <1>12, <2>2, <2>3 DEF Plug
<1>13. CASE Skip(c)
  BY <1>13 DEF Skip
<1>14. CASE RecordManifest(c)
  BY <1>14 DEF RecordManifest
<1> QED
  BY <1>1, <1>2, <1>3, <1>4, <1>5, <1>6, <1>7, <1>8, <1>9, <1>10, <1>11, <1>12, <1>13, <1>14
     DEF CallStep, Pipeline, ReloadPlugins

\* A step of a call keeps every variable in its set.
LEMMA CallTypes ==
  ASSUME CallsInv, NEW c \in Caller, CallStep(c)
  PROVE  CallsTypeOK' /\ (DOMAIN req = Caller)'
<1>a. Reasonable(c)
  BY DEF CallsInv
<1> USE <1>a DEF CallsInv, CallsTypeOK, Goes, Ends, world, local, Pc, InPipeline, Shown,
                 Reloading, Over
<1>1. CASE \E r \in Request : \E d \in {c, Shared} : Arrive(c, r, d)
  BY <1>1 DEF Arrive
<1>2. CASE LookUp(c) \/ CheckPolicy(c) \/ Hide(c)
  BY <1>2 DEF LookUp, CheckPolicy, Hide
<1>3. CASE ShowActive(c)
  BY <1>3 DEF ShowActive, Id, Reasonable
<1>4. CASE Log(c)
  BY <1>4 DEF Log, Reasonable
<1>5. CASE Handle(c)
  <2>1. PICK result \in {"ok", "error"} : Ends(c, "running", result)
    BY <1>5 DEF Handle
  <2> QED BY <1>5, <2>1 DEF Handle
<1>6. CASE SetPolicy(c)
  <2>1. read[c] \in Document
    BY <1>6 DEF SetPolicy, Reasonable
  <2>2. CASE Loadable(read[c])
    <3>1. cfg' \in {Loaded(d) : d \in {d \in Document : Loadable(d)}}
      BY <1>6, <2>1, <2>2 DEF SetPolicy
    <3> QED BY <1>6, <2>2, <3>1 DEF SetPolicy
  <2>3. CASE ~ Loadable(read[c])
    BY <1>6, <2>3 DEF SetPolicy
  <2> QED BY <2>2, <2>3
<1>7. CASE PluginsDenied(c) \/ ClearManifests(c) \/ ListFiles(c) \/ ListFails(c) \/ PluginsLoaded(c)
  <2>1. CASE PluginsDenied(c) \/ ListFails(c) \/ PluginsLoaded(c)
    BY <2>1 DEF PluginsDenied, ListFails, PluginsLoaded
  <2>2. CASE ClearManifests(c)
    BY <2>2 DEF ClearManifests
  <2>3. CASE ListFiles(c)
    BY <2>3 DEF ListFiles
  <2> QED BY <1>7, <2>1, <2>2, <2>3
<1>8. CASE Unplug(c)
  BY <1>8 DEF Unplug, None
<1>9. CASE Plug(c)
  <2>1. PICK i \in DOMAIN Files :
          ~ Exists(NameOf[Files[i]]) /\ plugged' = [plugged EXCEPT ![NameOf[Files[i]]] = Files[i]]
    BY <1>9 DEF Plug
  <2>2. Files[i] \in File
    BY DEF File
  <2> QED BY <1>9, <2>1, <2>2 DEF Plug
<1>10. CASE Skip(c)
  BY <1>10 DEF Skip
<1>11. CASE RecordManifest(c)
  BY <1>11 DEF RecordManifest, Reasonable
<1>12. CASE ReadPolicy(c)
  BY <1>12 DEF ReadPolicy
<1> QED
  BY <1>1, <1>2, <1>3, <1>4, <1>5, <1>6, <1>7, <1>8, <1>9, <1>10, <1>11, <1>12
     DEF CallStep, Pipeline, ReloadPlugins

\* No call is under way: so it is at first, and after a crash.
Quiet ==
  /\ pc = [c \in Caller |-> "idle"]
  /\ req = [c \in Caller |-> Blank]
  /\ read = [c \in Caller |-> NoDoc]
  /\ todo = [c \in Caller |-> {}]
  /\ outcome = [c \in Caller |-> "none"]
  /\ active = {}
  /\ events = [c \in Caller |-> <<>>]

\* Then nothing has to be known of the calls.
LEMMA QuietTypes ==
  Quiet => Functions /\ active = {} /\ \A c \in Caller : Reasonable(c)
<1> SUFFICES ASSUME Quiet PROVE Functions /\ \A c \in Caller : Reasonable(c)
  BY DEF Quiet
<1>1. pc \in [Caller -> Pc] /\ outcome \in [Caller -> {"none", "ok", "error"}]
  BY DEF Quiet, Pc, Over
<1>2. read \in [Caller -> Document \cup {NoDoc}] /\ todo \in [Caller -> SUBSET DOMAIN Files]
  BY DEF Quiet
<1>3. events \in [Caller -> Seq({"ok", "error"})] /\ DOMAIN req = Caller
  BY DEF Quiet
<1>4. ASSUME NEW c \in Caller PROVE Reasonable(c)
  <2>1. pc[c] = "idle" /\ req[c].doc = Shared /\ req[c].tool = "policy_get"
    BY DEF Quiet, Blank
  <2> QED BY <2>1 DEF Reasonable, InPipeline, Shown, Reloading
<1> QED BY <1>1, <1>2, <1>3, <1>4 DEF Functions

\* So do the steps of the runtime.
LEMMA RuntimeTypes ==
  ASSUME CallsInv, RuntimeStep
  PROVE  CallsInv'
<1> USE DEF CallsInv, CallsTypeOK, Reasonable, local, Reloading, Shown, InPipeline
<1>1. CASE \E d \in Document : EditPolicy(d)
  BY <1>1 DEF EditPolicy, Upcoming
<1>2. CASE \E f \in File : EditPlugins(f)
  BY <1>2 DEF EditPlugins, Upcoming
<1>3. CASE Crash
  <2>1. (Quiet => Functions /\ active = {} /\ \A c \in Caller : Reasonable(c))'
    BY QuietTypes, PTL
  <2>2. Quiet'
    BY <1>3 DEF Crash, Quiet
  <2> HIDE DEF Reasonable
  <2> QED BY <1>3, <2>1, <2>2 DEF Crash, None, Functions
<1>4. CASE Restart
  BY <1>4 DEF Restart, LoadAll, None, Registered, Upcoming
<1> QED BY <1>1, <1>2, <1>3, <1>4 DEF RuntimeStep

\* The invariant of types and calls is inductive ...
LEMMA CallsInvStep == CallsInv /\ [Next]_vars => CallsInv'
<1> SUFFICES ASSUME CallsInv, [Next]_vars PROVE CallsInv'
  OBVIOUS
<1>1. ASSUME NEW c \in Caller, CallStep(c) PROVE CallsInv'
  <2>1. CallsTypeOK' /\ (DOMAIN req = Caller)'
    BY <1>1, CallTypes
  <2>2. Reasonable(c)'
    BY <1>1, ReasonableStep
  <2>3. ASSUME NEW y \in Caller, y # c PROVE Reasonable(y)'
    <3>1. /\ pc'[y] = pc[y] /\ req'[y] = req[y] /\ read'[y] = read[y]
          /\ todo'[y] = todo[y] /\ outcome'[y] = outcome[y]
      BY <1>1, <2>3, OthersUntouched DEF CallsInv, CallsTypeOK, Functions
    <3> QED BY <3>1 DEF CallsInv, Reasonable, Upcoming
  <2> QED BY <2>1, <2>2, <2>3 DEF CallsInv
<1>2. CASE RuntimeStep
  BY <1>2, RuntimeTypes
<1>3. CASE UNCHANGED vars
  BY <1>3 DEF vars, CallsInv, CallsTypeOK, Reasonable, Upcoming
<1> QED BY <1>1, <1>2, <1>3, Steps

\* ... and so it holds in every reachable state.
THEOREM CallsConsistent == Spec => []CallsInv
<1>1. Init => CallsInv
  <2> SUFFICES ASSUME Init PROVE CallsInv
    OBVIOUS
  <2>1. Quiet
    BY DEF Init, Quiet
  <2>2. file \in Document /\ cfg \in {Loaded(d) : d \in {d \in Document : Loadable(d)}}
    BY DEF Init
  <2>3. up \in BOOLEAN /\ dir \subseteq File /\ plugged \in [Plugin -> File \cup {NoFile}]
    BY DEF Init, LoadAll, None
  <2>4. manifests \subseteq Plugin
    BY DEF Init, Registered
  <2> QED BY <2>1, <2>2, <2>3, <2>4, QuietTypes DEF CallsInv, CallsTypeOK, Functions
<1> QED BY <1>1, CallsInvStep, PTL DEF Spec

\* Every reachable state is well typed.
THEOREM CallsTypeCorrect == Spec => []CallsTypeOK
<1>1. CallsInv => CallsTypeOK
  BY DEF CallsInv
<1> QED BY <1>1, CallsConsistent, PTL

-----------------------------------------------------------------------------
(* The audit log and the table of active calls                             *)

\* Every call that the policy decided on leaves exactly one event, and leaves it
\* before it is answered.
THEOREM CallsAuditedOnce == Spec => []AuditedOnce
<1>1. Init => AuditedOnce
  BY DEF Init, AuditedOnce
<1>2. CallsInv /\ AuditedOnce /\ [Next]_vars => AuditedOnce'
  <2> SUFFICES ASSUME CallsInv, AuditedOnce, [Next]_vars PROVE AuditedOnce'
    OBVIOUS
  <2>1. ASSUME NEW c \in Caller, CallStep(c) PROVE AuditedOnce'
    <3>1. \A y \in Caller : y # c =>
            pc'[y] = pc[y] /\ outcome'[y] = outcome[y] /\ events'[y] = events[y]
      BY <2>1, OthersUntouched DEF CallsInv, CallsTypeOK, Functions
    <3>2. events'[c] = IF pc'[c] = "answered" THEN <<outcome'[c]>> ELSE <<>>
      <4> USE DEF CallsInv, CallsTypeOK, AuditedOnce, Goes, Ends, world, local
      <4>1. CASE \E r \in Request : \E d \in {c, Shared} : Arrive(c, r, d)
        BY <4>1 DEF Arrive
      <4>2. CASE LookUp(c) \/ CheckPolicy(c) \/ ShowActive(c) \/ Hide(c)
        BY <4>2 DEF LookUp, CheckPolicy, ShowActive, Hide
      <4>3. CASE Log(c)
        <5>1. events[c] = <<>> /\ events'[c] = Append(events[c], outcome[c])
          BY <4>3 DEF Log
        <5> QED BY <4>3, <5>1 DEF Log
      <4>4. CASE Handle(c) \/ ReadPolicy(c) \/ SetPolicy(c)
        BY <4>4 DEF Handle, ReadPolicy, SetPolicy
      <4>5. CASE ReloadPlugins(c)
        BY <4>5 DEF ReloadPlugins, PluginsDenied, Unplug, ClearManifests, ListFiles,
                    ListFails, Plug, Skip, RecordManifest, PluginsLoaded
      <4> QED BY <2>1, <4>1, <4>2, <4>3, <4>4, <4>5 DEF CallStep, Pipeline
    <3> QED BY <3>1, <3>2 DEF AuditedOnce
  <2>2. CASE RuntimeStep
    BY <2>2 DEF RuntimeStep, EditPolicy, EditPlugins, Crash, Restart, local, AuditedOnce
  <2>3. CASE UNCHANGED vars
    BY <2>3 DEF vars, AuditedOnce
  <2> QED BY <2>1, <2>2, <2>3, Steps
<1> QED BY <1>1, <1>2, CallsConsistent, PTL DEF Spec

\* How a step of a call changes the table of active calls: BeforeCall enters the
\* id, AfterCall removes it, and nothing else touches the table.
LEMMA ActiveEffect ==
  ASSUME CallsInv, NEW c \in Caller, CallStep(c)
  PROVE  \/ /\ pc[c] = "checked" /\ pc'[c] = "running"
            /\ req' = req /\ active' = active \cup {Id(c)}
         \/ /\ pc[c] \in {"after", "refused"} /\ pc'[c] \notin Shown
            /\ req' = req /\ active' = active \ {Id(c)}
         \/ /\ pc[c] \in Shown <=> pc'[c] \in Shown
            /\ pc[c] \in Shown => req'[c] = req[c]
            /\ active' = active
<1> USE DEF CallsInv, CallsTypeOK, Goes, Ends, world, local, Shown, Reloading, Over
<1>1. CASE \E r \in Request : \E d \in {c, Shared} : Arrive(c, r, d)
  BY <1>1 DEF Arrive
<1>2. CASE LookUp(c) \/ CheckPolicy(c) \/ ShowActive(c) \/ Hide(c) \/ Log(c)
  BY <1>2 DEF LookUp, CheckPolicy, ShowActive, Hide, Log
<1>3. CASE Handle(c) \/ ReadPolicy(c) \/ SetPolicy(c)
  BY <1>3 DEF Handle, ReadPolicy, SetPolicy
<1>4. CASE ReloadPlugins(c)
  BY <1>4 DEF ReloadPlugins, PluginsDenied, Unplug, ClearManifests, ListFiles, ListFails,
              Plug, Skip, RecordManifest, PluginsLoaded
<1> QED BY <1>1, <1>2, <1>3, <1>4 DEF CallStep, Pipeline

\* No id stays in the table after the last of the calls that have it.
THEOREM CallsActiveHasCall == Spec => []ActiveHasCall
<1>1. Init => ActiveHasCall
  BY DEF Init, ActiveHasCall
<1>2. CallsInv /\ ActiveHasCall /\ [Next]_vars => ActiveHasCall'
  <2> SUFFICES ASSUME CallsInv, ActiveHasCall, [Next]_vars, NEW id \in active'
               PROVE  \E c \in Caller : pc'[c] \in Shown /\ Id(c)' = id
    BY DEF ActiveHasCall
  <2>1. ASSUME NEW c \in Caller, CallStep(c)
        PROVE  \E d \in Caller : pc'[d] \in Shown /\ Id(d)' = id
    <3>1. \A y \in Caller : y # c => pc'[y] = pc[y] /\ req'[y] = req[y]
      BY <2>1, OthersUntouched DEF CallsInv, CallsTypeOK, Functions
    <3>2. CASE id = Id(c) /\ pc'[c] = "running" /\ req' = req
      BY <3>2 DEF Shown, Id
    <3>3. CASE id \in active
      <4>1. PICK d \in Caller : pc[d] \in Shown /\ Id(d) = id
        BY <3>3 DEF ActiveHasCall
      <4>2. CASE d # c
        BY <3>1, <4>1, <4>2 DEF Id
      <4>3. CASE d = c
        BY <2>1, <4>1, <4>3, ActiveEffect DEF Id, Shown, Reloading
      <4> QED BY <4>2, <4>3
    <3> QED BY <2>1, <3>2, <3>3, ActiveEffect
  <2>2. CASE RuntimeStep
    BY <2>2 DEF RuntimeStep, EditPolicy, EditPlugins, Crash, Restart, local, ActiveHasCall, Id
  <2>3. CASE UNCHANGED vars
    BY <2>3 DEF vars, ActiveHasCall, Id
  <2> QED BY <2>1, <2>2, <2>3, Steps
<1> QED BY <1>1, <1>2, CallsConsistent, PTL DEF Spec

\* A call with arguments of its own is in the table for as long as its handler
\* runs: the end of another call removes another id.
THEOREM CallsShownWhileRunning == Spec => []ShownWhileRunning
<1>1. Init => ShownWhileRunning
  BY DEF Init, ShownWhileRunning, Shown, Reloading
<1>2. CallsInv /\ ShownWhileRunning /\ [Next]_vars => ShownWhileRunning'
  <2> SUFFICES ASSUME CallsInv, ShownWhileRunning, [Next]_vars, NEW d \in Caller,
                      pc'[d] \in Shown, req'[d].doc = d
               PROVE  Id(d)' \in active'
    BY DEF ShownWhileRunning
  <2>1. ASSUME NEW c \in Caller, CallStep(c) PROVE Id(d)' \in active'
    <3>1. CASE d # c
      <4>1. pc'[d] = pc[d] /\ req'[d] = req[d] /\ Id(d)' = Id(d)
        BY <2>1, <3>1, OthersUntouched DEF CallsInv, CallsTypeOK, Functions, Id
      <4>2. Id(d) \in active
        BY <4>1 DEF ShownWhileRunning
      <4>3. Id(c) # Id(d)
        BY <3>1, <4>1, ToolCallsAssumption DEF CallsInv, Reasonable, Id
      <4> QED BY <2>1, <4>1, <4>2, <4>3, ActiveEffect
    <3>2. CASE d = c
      BY <2>1, <3>2, ActiveEffect DEF Id, ShownWhileRunning
    <3> QED BY <3>1, <3>2
  <2>2. CASE RuntimeStep
    BY <2>2 DEF RuntimeStep, EditPolicy, EditPlugins, Crash, Restart, local,
                ShownWhileRunning, Id, Shown, Reloading
  <2>3. CASE UNCHANGED vars
    BY <2>3 DEF vars, ShownWhileRunning, Id
  <2> QED BY <2>1, <2>2, <2>3, Steps
<1> QED BY <1>1, <1>2, CallsConsistent, PTL DEF Spec

-----------------------------------------------------------------------------
(* Readonly mode                                                           *)

\* policy_reload is itself a mutation, so nothing a client can call gets the
\* runtime out of readonly mode once the earlier mutations are done.
THEOREM CallsLockdownLasts == Spec => LockdownLasts
<1>1. CallsInv /\ [Next]_vars => [LockedDown => LockedDown' \/ ~ up']_vars
  <2> SUFFICES ASSUME CallsInv, Next, LockedDown, up' PROVE LockedDown'
    OBVIOUS
  <2> DEFINE Harmless(c) == pc[c] \in {"checked"} \cup Shown => ~ IsMutation(req[c].tool)
  <2>a. \A c \in Caller : Harmless(c)
    BY DEF LockedDown
  <2>1. ASSUME NEW c \in Caller, CallStep(c) PROVE LockedDown'
    <3>1. pc[c] # "reading"
      BY <2>a DEF CallsInv, Reasonable, Shown, IsMutation, ReadingTool, FsTool, StateTool
    <3>2. cfg' = cfg
      BY <2>1, <3>1
         DEF CallStep, Pipeline, ReloadPlugins, Arrive, LookUp, CheckPolicy, ShowActive, Hide,
             Log, Handle, ReadPolicy, SetPolicy, PluginsDenied, Unplug, ClearManifests,
             ListFiles, ListFails, Plug, Skip, RecordManifest, PluginsLoaded, world
    <3>3. Harmless(c)'
      <4> USE DEF CallsInv, CallsTypeOK, Goes, Ends, local, Shown, Reloading
      <4>1. CASE CheckPolicy(c)
        BY <4>1 DEF CheckPolicy, Refused, LockedDown
      <4>2. CASE \E r \in Request : \E d \in {c, Shared} : Arrive(c, r, d)
        BY <4>2 DEF Arrive
      <4>3. CASE LookUp(c) \/ ShowActive(c) \/ Hide(c) \/ Log(c)
        BY <4>3, <2>a DEF LookUp, ShowActive, Hide, Log
      <4>4. CASE Handle(c) \/ ReadPolicy(c) \/ SetPolicy(c)
        BY <4>4, <2>a DEF Handle, ReadPolicy, SetPolicy
      <4>5. CASE ReloadPlugins(c)
        BY <4>5, <2>a DEF ReloadPlugins, PluginsDenied, Unplug, ClearManifests, ListFiles,
                          ListFails, Plug, Skip, RecordManifest, PluginsLoaded
      <4> QED BY <2>1, <4>1, <4>2, <4>3, <4>4, <4>5 DEF CallStep, Pipeline
    <3>4. ASSUME NEW y \in Caller, y # c PROVE Harmless(y)'
      BY <2>1, <2>a, <3>4, OthersUntouched DEF CallsInv, CallsTypeOK, Functions
    <3> HIDE DEF Harmless
    <3>5. \A y \in Caller : Harmless(y)'
      BY <3>3, <3>4
    <3> QED BY <3>2, <3>5 DEF LockedDown, Harmless
  <2>2. CASE RuntimeStep
    BY <2>2 DEF RuntimeStep, EditPolicy, EditPlugins, Crash, Restart, local, LockedDown
  <2> QED BY <2>1, <2>2, Steps
<1> QED BY <1>1, CallsConsistent, PTL DEF Spec, LockdownLasts

-----------------------------------------------------------------------------
(* The plugins, if one client at a time reloads them                       *)

\* How the registry and the manifest table relate while c reloads the plugins.
TablesDuring(c) ==
  /\ pc[c] = "clearing" => plugged = None
  /\ pc[c] = "listing" => plugged = None /\ manifests = {}
  /\ pc[c] = "loading" => manifests = Registered(plugged)
  /\ pc[c] = "recording" =>
       \A i \in DOMAIN Files :
         Upcoming(c, i) => Registered(plugged) = manifests \cup {NameOf[Files[i]]}

TablesInv ==
  /\ PluginNamesTrue
  /\ \A c \in Caller : TablesDuring(c)
  /\ ~ up => \A c \in Caller : pc[c] \notin Reloading

\* One step of a reload takes the tables from one stage to the next.
LEMMA ReloadStep ==
  ASSUME CallsInv, TablesInv, NEW c \in Caller, ReloadPlugins(c),
         \A y \in Caller : y # c => pc[y] \notin Reloading
  PROVE  /\ TablesDuring(c)'
         /\ pc'[c] \notin Reloading => manifests' = Registered(plugged')
<1>a. NoFile \notin File /\ TablesDuring(c)
  BY ToolCallsAssumption DEF TablesInv
<1>b. pc[c] = "running" => manifests = Registered(plugged)
  BY DEF TablesInv, PluginNamesTrue, Reloading
<1> USE <1>a DEF CallsInv, CallsTypeOK, Goes, Ends, local, world, Reloading
<1>1. CASE PluginsDenied(c)
  BY <1>1, <1>b DEF PluginsDenied, TablesDuring
<1>2. CASE Unplug(c)
  BY <1>2 DEF Unplug, TablesDuring
<1>3. CASE ClearManifests(c)
  BY <1>3 DEF ClearManifests, TablesDuring
<1>4. CASE ListFiles(c) \/ ListFails(c)
  BY <1>4 DEF ListFiles, ListFails, TablesDuring, Registered, None
<1>5. CASE Plug(c)
  <2>1. PICK i \in DOMAIN Files :
          /\ Upcoming(c, i)
          /\ ~ Exists(NameOf[Files[i]])
          /\ plugged' = [plugged EXCEPT ![NameOf[Files[i]]] = Files[i]]
    BY <1>5 DEF Plug
  <2>2. NameOf[Files[i]] \in Plugin /\ Files[i] \in File
    BY <2>1 DEF Exists, Plugin, File
  <2>3. Registered(plugged') = Registered(plugged) \cup {NameOf[Files[i]]}
    BY <2>1, <2>2 DEF Registered
  <2>4. \A k \in DOMAIN Files : Upcoming(c, k)' => k = i
    BY <1>5, <2>1, ToolCallsAssumption DEF Plug, Upcoming
  <2> QED BY <1>5, <2>3, <2>4 DEF Plug, TablesDuring
<1>6. CASE Skip(c)
  BY <1>6 DEF Skip, TablesDuring
<1>7. CASE RecordManifest(c)
  <2>1. PICK i \in DOMAIN Files :
          Upcoming(c, i) /\ manifests' = manifests \cup {NameOf[Files[i]]}
    BY <1>7 DEF RecordManifest
  <2> QED BY <1>7, <2>1 DEF RecordManifest, TablesDuring
<1>8. CASE PluginsLoaded(c)
  BY <1>8 DEF PluginsLoaded, TablesDuring
<1> QED BY <1>1, <1>2, <1>3, <1>4, <1>5, <1>6, <1>7, <1>8 DEF ReloadPlugins

\* Between reloads the reported plugin names are those of the registry, if
\* Reloader has one client: two reloads at once would mix their stages.
THEOREM CallsPluginNamesTrue ==
  ASSUME \A c, d \in Reloader : c = d
  PROVE  Spec => []PluginNamesTrue
<1>1. Init => TablesInv
  BY DEF Init, TablesInv, TablesDuring, PluginNamesTrue, Reloading
<1>2. CallsInv /\ CallsInv' /\ TablesInv /\ [Next]_vars => TablesInv'
  <2> SUFFICES ASSUME CallsInv, CallsInv', TablesInv, [Next]_vars PROVE TablesInv'
    OBVIOUS
  <2>1. ASSUME NEW c \in Caller, CallStep(c) PROVE TablesInv'
    <3>1. \A y \in Caller : y # c => pc'[y] = pc[y] /\ todo'[y] = todo[y]
      BY <2>1, OthersUntouched DEF CallsInv, CallsTypeOK, Functions
    <3>2. CASE ReloadPlugins(c)
      <4>1. req[c].tool = "plugins_reload"
        BY <3>2 DEF CallsInv, Reasonable, Reloading, ReloadPlugins, PluginsDenied, Unplug,
                    ClearManifests, ListFiles, ListFails, Plug, Skip, RecordManifest,
                    PluginsLoaded, Goes, Ends
      <4>2. \A y \in Caller : y # c => pc[y] \notin Reloading
        BY <4>1 DEF CallsInv, Reasonable
      <4>3. TablesDuring(c)' /\ (pc'[c] \notin Reloading => manifests' = Registered(plugged'))
        BY <3>2, <4>2, ReloadStep
      <4>4. \A y \in Caller : TablesDuring(y)'
        BY <3>1, <4>2, <4>3 DEF TablesDuring, Reloading
      <4>5. PluginNamesTrue'
        BY <4>3 DEF PluginNamesTrue, Registered
      <4>6. up'
        BY <3>2 DEF ReloadPlugins, PluginsDenied, Unplug, ClearManifests, ListFiles, ListFails,
                    Plug, Skip, RecordManifest, PluginsLoaded, Goes, Ends, world
      <4> QED BY <4>4, <4>5, <4>6 DEF TablesInv
    <3>3. CASE ~ ReloadPlugins(c)
      <4>1. /\ plugged' = plugged /\ manifests' = manifests
            /\ pc[c] \notin Reloading /\ pc'[c] \notin Reloading
        BY <2>1, <3>3
           DEF CallStep, Pipeline, Arrive, LookUp, CheckPolicy, ShowActive, Hide, Log, Handle,
               ReadPolicy, SetPolicy, Goes, Ends, world, Reloading, Over, CallsInv, CallsTypeOK
      <4>2. \A y \in Caller : TablesDuring(y)'
        BY <3>1, <4>1 DEF TablesInv, TablesDuring, Reloading, Upcoming, Registered
      <4>3. PluginNamesTrue'
        BY <3>1, <4>1 DEF TablesInv, PluginNamesTrue, Registered
      <4>4. up'
        BY <2>1, <3>3
           DEF CallStep, Pipeline, Arrive, LookUp, CheckPolicy, ShowActive, Hide, Log, Handle,
               ReadPolicy, SetPolicy, Goes, Ends, world
      <4> QED BY <4>2, <4>3, <4>4 DEF TablesInv
    <3> QED BY <3>2, <3>3
  <2>2. CASE RuntimeStep
    <3>1. CASE (\E d \in Document : EditPolicy(d)) \/ (\E f \in File : EditPlugins(f))
      BY <3>1 DEF EditPolicy, EditPlugins, local, TablesInv, TablesDuring, PluginNamesTrue,
                  Upcoming, Registered
    <3>2. CASE Crash
      BY <3>2 DEF Crash, TablesInv, TablesDuring, PluginNamesTrue, Registered, None, Reloading
    <3>3. CASE Restart
      <4>1. up' /\ pc' = pc /\ manifests' = Registered(plugged')
        BY <3>3 DEF Restart
      <4>2. \A y \in Caller : pc'[y] \notin Reloading
        BY <3>3, <4>1 DEF Restart, TablesInv
      <4>3. \A y \in Caller : TablesDuring(y)'
        BY <4>2 DEF TablesDuring, Reloading
      <4>4. PluginNamesTrue'
        BY <4>1 DEF PluginNamesTrue, Registered
      <4> QED BY <4>1, <4>3, <4>4 DEF TablesInv
    <3> QED BY <2>2, <3>1, <3>2, <3>3 DEF RuntimeStep
  <2>3. CASE UNCHANGED vars
    BY <2>3 DEF vars, TablesInv, TablesDuring, PluginNamesTrue, Upcoming, Registered
  <2> QED BY <2>1, <2>2, <2>3, Steps
<1>3. TablesInv => PluginNamesTrue
  BY DEF TablesInv
<1> QED BY <1>1, <1>2, <1>3, CallsConsistent, PTL DEF Spec
=============================================================================
