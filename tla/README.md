# CyComAgent in TLA+

A specification of the parts of CyComAgent-MCP that have concurrency, crashes or
decisions worth arguing about, written from the Go source.  Paths below are
relative to the repository.  `PROJECT.json` maps every definition to the lines it
models.

Check a model with `tlc -config MCJobs.cfg MCJobs.tla`, the proofs with
`tlapm JobsProofs.tla`.  `MCBackends` is the largest model, with two to three
minutes on two cores; the proofs of a module take about one.

## The system

One runtime process (`cmd/cycomagent`) serves MCP over HTTP and stdio and runs
tools for its clients.  Around it stand a session bridge in the user's desktop
session, a root broker, helper processes for other MCP servers, a browser bridge,
and the files of the state directory.

| component | state | operations | interacts with |
|---|---|---|---|
| MCP server `internal/mcp/server.go` | counters, protocol of each request | POST, legacy probe, stdio; `dispatch` | registry |
| tool registry `internal/registry/registry.go` | tools, interceptors | Add, Upsert, Remove..., Exists, Call | policy, audit, every handler |
| policy engine `internal/policy/policy.go` | the loaded configuration; `policy.json` | Reload, BeforeCall | registry; its tools |
| audit logger `internal/audit/logger.go` | table of active calls; the event file | BeforeCall, AfterCall, Tail, Prune | registry |
| plugin loader `internal/plugins/loader.go` | manifests; the plugin directory | LoadInto, ReloadInto, run of a plugin | registry |
| job manager `internal/jobs/manager.go` | job table; record and log files; processes | Start, StartExternal, Signal, Prune, recover; watchers | session bridge, kernel |
| session bridge `internal/sessionbridge` | the socket; commands it runs | Run; Exec, Spawn, Status of its client | process tools, job manager |
| root broker `cmd/cycomagent-root`, `internal/broker` | the socket | execute for an authorised peer | process tools |
| target manager `internal/targets/manager.go` | targets and their file | Upsert, Remove, Exec, Copy, Probe | ssh |
| key-value state `internal/state/store.go` | one file per key | Get, Put, Delete, List | |
| stdio helpers `internal/tools/stdio_mcp_linux.go` | one helper process per backend | start, rpc, stop | any-app tools |
| browser bridge `cmd/cycom-browser-bridge`, `browser-extension` | the extension's connection, waiting requests | api, ext | browser tools |
| process tools `internal/tools/process.go` | none of their own | exec, spawn, inspect, signal | bridge, broker, jobs |
| filesystem, desktop, Android, assistant, system tools `internal/tools` | none of their own | one per tool | the operating system |
| watchdog and units `scripts/watchdog.sh`, `packaging/systemd` | | restart | runtime |

What is hard in it, and what makes each part correct:

* **Jobs** outlive the runtime.  Their records are written by handlers, by a
  watcher per job, and by recovery; signals are delivered after the lock is
  released; process ids are reused; a launch through the bridge may lose its
  answer.  No record may call a living process finished, a live job must stay
  addressable, every running record must have a watcher, a pruned job must not
  come back.
* **Calls** interleave with reloads of the policy and of the plugins.  The
  pipeline looks up twice, decides on one configuration and executes later; the
  active table is keyed by content.  Each decided call must leave one event, the
  table must not show calls that are over, a lockdown must last.
* **The policy** compares names with four hand-written lists, while the tools
  carry annotations of their own.  The lists must agree with the annotations, the
  modes must be nested, and a tighter policy must not admit more.
* **The server** takes a message over HTTP or stdio, in one of several protocol
  versions, with a reason in one of four places.  Strictness must only refuse, the
  transports must agree, and the reason that is recorded must be the client's.
* **The session bridge** shares one socket path with its predecessor and
  successor, and its clients must not start a command twice, nor in the wrong
  place, when it goes away; nor may a command get a privilege it was not to have.
* **A command with a time limit** forks, holds pipes and leaves groups while it
  is killed: the limit must bound the call, nothing of the group may stay, and the
  buffers must not be read while they are written.
* **The durable stores** (targets, key-value state) are written by several calls,
  any of which may fail or be cut short by a crash.  What was answered must
  survive; memory and file may differ only where somebody was told; keys share
  files where their names do.
* **File edits** take no lock.  An edit nobody disturbs must keep what it answered,
  also against calls that still have the file open, and a patch must be applied as
  a whole or not at all.
* **A helper process** is shared by calls with time limits of their own.  It dies
  unnoticed, says things nobody asked, and is outdated by a login or an update:
  answers must match, one helper may live at a time, for the desktop of the moment,
  its death may cost one call, and every call must return.
* **The browser bridge** keeps one connection of many, and a table of waiting
  requests by clock readings.  A request must get its own answer, the reader must
  never be blocked by a late one, the newest connection must serve, and every
  request must end.

## Modules

| module | models |
|---|---|
| `JobContract` | what a job handle promises: a process, and what the store reports of it |
| `RemoteCall` | what a call that another process serves promises: done once at most, answered only if done |
| `DurableMap` | what a store promises: a map on disk, changed at one instant of a call that succeeds |
| `Jobs` | the job manager; implements `JobContract` under the mapping `Contract` |
| `JobsProofs` | its theorems |
| `Policy` | the tool catalogue by source file, and the decision of the policy engine as operators |
| `PolicyEngine` | the engine on its own: load a document, decide on a call |
| `ToolCalls` | server, registry, policy, audit and plugin loader together; extends `Policy` |
| `ToolCallsProofs` | its theorems |
| `SessionBridge` | bridges, the socket path, root brokers, and routed `process_exec` calls; implements `RemoteCall` (`BridgeContract`) |
| `SessionBridgeProofs` | its theorems |
| `ExecRun` | the run of one command under a time limit, the code of five places |
| `ExecRunProofs` | its theorems |
| `Admission` | what the server makes of a message: protocol, method, reason |
| `DecisionsProofs` | theorems of `PolicyEngine` and `Admission` |
| `TargetStore` | the target table and `targets.json`; implements `DurableMap` (`TargetsContract`) |
| `KeyStore` | the key-value state, one file per key; implements `DurableMap` (`KeysContract`) |
| `FileEdits` | `fs_write`, `fs_patch`, `fs_move`, `fs_remove` of several callers |
| `EditsProofs` | its theorems |
| `StoresProofs` | theorems of `TargetStore` and `KeyStore`, and of `MCStores`, which joins them to `FileEdits` |
| `StdioHelper` | calls of a helper process, and the helper; implements `RemoteCall` (`HelperContract`) |
| `BrowserBridge` | the browser bridge, `browser_use` before it and the extension behind it; implements `RemoteCall` (`BrowserContract`) |
| `BackendsProofs` | theorems of both |
| `MCJobs`, `MCToolCalls`, `MCSessionBridge`, `MCExecRun` | values of the constants for TLC |
| `MCDecisions`, `MCStores`, `MCBackends` | the same, for two or three modules in one model |

The last three put components into one model that do not interact: a variable
`scene`, chosen in the beginning, says which of them takes steps.

**Jobs.**  `mem` is `Manager.jobs`, `disk` and `logs` the files, `owner` the
kernel's table of processes, `watch` the goroutine of each job, `kill` a signal
between the release of the lock and the system call.  Each critical section is an
action; a start has the separate steps the crash can fall between (log, process,
record).  Recovery is one action, with `CrashInRecover` for one that stops
halfway, and so is Prune with `CrashInPrune`.  An error of `persistLocked`, which
the code ignores, may happen to the jobs in `Unsaved`.  Environment, times and the
text of logs are left out; a record is its status and whether it has an exit code.

**Policy and PolicyEngine.**  The catalogue has every tool the runtime registers
under a name of its own, and `ReadOnlyHint` is the union of what each source file
annotates as reading.  The `anyapp_` tools, which a helper names when it runs, are
left out: to the policy they are like a plugin's.  `IsMutation`, `IsHighImpact`,
`IsSensitiveAndroid` are the code's lists.  `Refused` is `BeforeCall`, in its order;
a request without a method passes it, and `Performed` says that it is sent as GET.
Glob patterns of the allow and deny lists are sets of tools; the limits are numbers
as they are after loading, so that a limit of 0 in the file, which means 3600, is
not told from it.  An annotation is taken at its word: `desktop_capture` is
annotated as reading and writes the file it is asked to.

**ToolCalls.**  `pc` says where each client's call stands.  A call is looked up by
the server, looked up again by the registry, needs a reason, is decided on, shown
as active, handled, hidden, and logged; each is a step of its own because each
takes its own lock.  `policy_reload` reads the file in one step and sets the
configuration in another.  `plugins_reload` empties the registry, then the
manifest table, then reads the directory and registers file by file.  All other
handlers end with a value or an error.  An argument document is the client's own
or one that several send; the id of a call is made of it.

**SessionBridge.**  A bridge checks the path, removes it, binds it, serves, and
when terminated closes its listener and removes the path again, or is killed and
leaves it.  A root broker removes whatever is at its own path and serves until it
is told to end or dies.  A call resolves its context and privilege, from a probe
where `executionContextNeedsBridgeProbe` says so, dials the bridge or the broker,
and is executed by the one it has reached, or started by the runtime itself; if the
connection ends it gets an error while its command goes on.  A server that lives, and
the runtime, may also answer with an error (`Declined`): of a request that is not
started, or of a command that is.

**ExecRun.**  Leader, descendants, group, pipe, the goroutine in `cmd.Wait`, and
the caller between its select, its kill and its return.  Plugins, targets, the
bridge and the broker have the same code; what differs is how the result is
reported, which the outcome `result` keeps.

**Admission.**  A message is a record of what the checks tell apart.  `Protocol` is
`detectProtocol`, `Compatible` is `compatibleArguments`, `ReasonOK` is
`validateReason`; `Posted` and `Line` are the two transports, in the order of their
checks.  That a reason "beside" the arguments is named after its place lets the
model say whose reason an executed call carries.

**TargetStore.**  `table` is `Manager.targets`, `saved` the file.  A change takes
the lock and changes the table in one step, and is written or fails in another; a
crash loses the table.  `settled` and `sure` are what callers may count on: a
change that no other change of the same target overlaps.  `told` are the targets
about which somebody has had an error since the file was last written, the
premise under which the code leaves memory and file different.

**KeyStore.**  `content` is what each file holds, `Safe` the map from keys to file
names, not injective.  The namespace `..`, which `safe` lets pass and which leads out
of the store's directory (store.go:123), is left out: the files are taken to be
nobody else's.  `kept` is what the user of a key may count on, and opens
with every call about the same file.

**FileEdits.**  `text` is what each path holds as a sequence of words, `work` the
call of each editor with the path its open file has by now: it follows a move and
is `Detached` by a removal or a patch.  Opening truncates, writing may stop
halfway, a patch copies, looks up the mode, and renames; what it is going to put in
place is in the `copy` of its call.  `Word` are the words of texts and patches.
`expect` is what a path holds as far as callers that nobody disturbed can know,
`patchOnly` the files that only patches change.

**StdioHelper.**  `current` is `s.cmd`, `born` the signature it was started for,
`inbox` and `outbox` the pipes, `call` where each call stands; its time has been
running since before the mutex.  All of `rpcLocked` is there: the write that fails
when the helper is dead, the reader that passes over what has no id or another's,
the end of the context, the decoding error, and the `stopLocked` in each of them.
The helper may answer, repeat an answer, notify, ask something itself with any id,
write what is not JSON, fall silent or die.  The reader looks at the id and at
nothing else, so that a request of the helper's own (`Unasked`) with the awaited id
is taken for the answer.  It has no result: in the handshake nobody looks, and in a
call the decoding fails (anyapp_linux.go:164), so that the caller has an error, the
helper is kept, and the real answer waits in the pipe for the next call to pass over
(`DecodeFails`).  One thing is assumed: what the helper sends as a response, with a
result or an error, has the id of a request that it has read.  A helper that made up
responses could make `HelperContract` false.  Writing a request is assumed not to
block.

**BrowserBridge.**  `sock` and `reader` are the `ext` of each connection, `mu` the
mutex where it is kept while the old connection is closed, `pending` and `slot` the
table and its channels, `pc` the `api` of each request.  Readings of the clock are
chosen freely, so that two may be equal.  A write that fails after all has been
delivered is a `Write` and then a `TimeOut`.

**RemoteCall.**  `fate` is what has become of what a caller has asked, `reply` what it
was told.  A question is put once; it is then asked, done or lost, and nothing leads
back.  An error may come at any time and says nothing of the fate.  The session
bridge maps to it by where a command was started (`ran`), so that a second start has
no counterpart; the helper by the pipe in which the question or its answer is, also for a call that
has failed and left it there; the browser bridge by where an answer can be, from the extension to the
channel of the request (`Replied`), and for requests whose reading nobody shares.

**DurableMap.**  `stored` is what is on disk, `asked` the changes under way, `late`
what an error did not take back: a target whose write has failed is in the table, and
comes to the file with the next change that is written (`Unsaved`), unless the same
target is changed before.  The key-value state has nothing of the kind, so that its
`late` is empty for ever.

**How they compose.**  `ToolCalls` extends `Policy`, and so uses the same decision
the engine's own model checks.  `Jobs` sees the bridge as a launch that succeeds,
fails or loses its answer; `SessionBridge` shows where these come from (`Lost`).
`SessionBridge` starts a command in one step; `ExecRun` is that step in detail.
`Admission` ends where `ToolCalls` begins, with a call whose reason is there or is
not.  `TargetStore` gives `target_exec` the definition with which `ExecRun` runs.

## Runs

| run | bounds | result |
|---|---|---|
| `jobs` | one service job, whose record may fail to be written, and one external job, two process ids; crashes, prunes, foreign processes without limit | holds |
| `jobs_recovered_signal` | the same without failing writes | `TerminationNoticed` violated |
| `decisions` | the whole catalogue under every mode and combination of permissions, with limits below, at and above and lists across classes; every combination of what a version check looks at, and of what a reason check looks at | holds |
| `calls` | two clients, one of which reloads plugins; two manifests of one name; edits and crashes without limit | holds |
| `calls_unaudited` | the same | `EveryCallAudited` violated |
| `bridge` | three bridges, two root brokers, one client calling again and again, logins that do not overlap | holds |
| `bridge_overlap` | two bridges that may overlap | `ListenerReachable` violated |
| `exec` | one command, three descendants that stay in its group | holds |
| `exec_escape` | the same, descendants may leave the group | `BoundedByTimeout` violated |
| `stores` | two callers in each store; two targets and a name with blanks around it; two keys that share a file and one that does not; two paths, one document, two patches that overlap in a word, appending to texts of at most one word | holds |
| `patches` | the same | `PatchesStay` violated |
| `backends` | two calls of two clients, two helpers, one message of a helper that answers nothing, one change of session, compositor or binary; two requests, two clock readings, two connections | holds |

The bounds are the smallest in which what matters can happen.  Two jobs and two
ids allow an id to move from one job to the other or to a stranger while records
still name it.  Two clients suffice for identical calls, and for a reload between
any two steps of the other's call; two manifests of one name make the order of
loading matter.  A third bridge starts after one that was killed and one that left;
calls of other clients change nothing that a call looks at, so one client is
enough.  Three descendants give a child, a grandchild and one forked during the
kill.  Two callers are enough for every hazard of a store, which is about one call
between two steps of another.  Two calls and two helpers give a helper that dies or
is outdated between calls and its successor; a message that answers nothing can be
a notification, an old answer, a request of the helper's own with the awaited id or
another, or garbage, before or after the right one.  Two
connections are an old one and the one that replaces it, two readings may be equal
or not.

The bounds that cap something the code does not are `MaxHelpers`, `MaxCalls`,
`MaxNoise`, `MaxChanges`, `MaxConns` and `MaxLength`, each named in its module.
`MaxHelpers` is as large as `MaxCalls`, since a call starts one helper at most, so
that it never keeps a call from going on.  `exec`, `exec_escape` and `backends` do
not check deadlock: their calls are over when they have returned.  In `stores` and
`patches` callers of one kind are interchangeable (`Symmetry`); these runs have no
liveness.

What the violated properties mean:

* **A recovered job that was signalled is never concluded** by the runtime that
  recovered it: `monitorRecovered` (manager.go:369) waits for a status that
  `Signal` has replaced.
* **A call without a reason is not audited.**  registry.go:345 returns before the
  interceptors, against README.md:65 and :180.
* **An old bridge deletes the socket of the new one** if it is still leaving:
  bridge_linux.go:146 removes the path by name.
* **A descendant that leaves its group makes a time limit void**: after the kill
  the caller waits for the pipe (loader.go:148 and four more places).
* **A patch undoes another.**  `fs_patch` is announced as atomic
  (filesystem.go:49); a patch that is read before another is renamed, and renamed
  after it, takes that one's replacements away, and both callers were told of
  success.  What does hold is `PatchAllOrNothing`: a file has all of a patch or
  nothing of it.

What some of the passing properties leave out.  `LiveJobAddressable` exempts the jobs
whose record could not be written (`Unsaved`): the code ignores that error, and after
a restart such a job is lost.  `ShownWhileRunning` is about arguments that nobody else
sends, since of two identical calls the first to end takes the other's entry away.
`AnswerIsOwn` is about requests whose reading of the clock nobody shares.
`TighterRefusesMore` compares limits as loaded, and `ReadonlyOnlyReads` the policy's
list of reading tools with the annotations, two lists that are kept by hand.

Two more observations have no run of their own.  `Signal` (manager.go:247) does not
look at the status, so that a late signal makes a finished job `terminating` until
the next restart and `job_prune` keeps it: `SignalMark` shows it.  And readonly mode
refuses two tools annotated as reading, `display_outputs` and `android_api_list`,
which the list in policy.go:192 does not have; README.md:201 promises no more than
that mutations are denied.

What the passing runs check: `FinishedMeansDead`, `LiveJobAddressable`,
`RunningIsWatched`, `PrunedStaysGone`, `DeathNoticed` and the refinement
`ContractSpec` (jobs); `ReadonlyOnlyReads`, `TighterRefusesMore`,
`StrictOnlyRefuses`, `TransportsAgree`, `ReasonIsClients` (decisions);
`AuditedOnce`, `ActiveHasCall`, `ShownWhileRunning`, `PluginNamesTrue`,
`LockdownLasts` (calls); `ListenerReachable`, `GivesUpForAnother`, `NoSilentFallback`,
`PrivilegeKept`, `BridgeDeathNoticed` and the refinement `BridgeContract` (bridge);
`OutputIsComplete`, `NoneLeftBehind`, `BoundedByTimeout` (exec);
`ChangesSurvive`, `AnswersSurvive`, `QuietEditKept`, `PatchAllOrNothing` and the
refinement `StoresContract` (stores); `OneHelper`, `RightDesktop`,
`DeathFailsOneCall`, `EveryCallReturns`, `AnswerIsOwn`, `ReaderNeverStuck`,
`LatestServes`, `EveryRequestEnds` and the refinements `HelperContract` and
`BrowserContract` (backends).  Each has a
mutant: a plausible slip of the code under which the same run finds it violated.
The mutants stand before the definitions they change.  The type invariants of the
modules, `MemoryMatchesDisk`, `ModesNested`, `AnsweredChangeSeen` and
`OnlyRequestsPending` are proved and take part in no run, and so are three properties
a refinement contains: `StartedOnce` and `AnswersMatch`, which follow from
`BridgeContract` and `HelperContract` (`ContractStartsOnce`, `ContractAnswersMatch`),
and `DriftWasReported`, without which a step of the target table would write what
`DurableMap` has not `late`.

## Fairness

* `Jobs`: watchers are goroutines on tickers, and a marked signal is a running
  call, so `WatchStep` and `SignalSend` are weakly fair.  `Restart` is, because the
  units say `Restart=always` and the watchdog does the same on Termux.  No client
  call, exit or crash is fair.
* `SessionBridge`: only `Lost`, since the kernel closes the connections of a dead
  process and the client is reading.  Neither commands nor bridges need end.
* `ExecRun`: the caller and its goroutine (`Returning`).  Deadlines and exits are
  not fair; `BoundedByTimeout` starts where the context is over.
* `StdioHelper`: a call goes on where it can (`CallStep`), its time passes
  (`Expire`), and the mutex, which Go hands to whoever has waited longer than a
  millisecond, comes to each (`SF` of `Lock`).  The helper is not fair: it may be
  silent for ever.
* `BrowserBridge`: the handler of a request goes on (`ApiStep`, with its time limit),
  and closing a replaced connection ends, after 5 s at the latest (`Replace`).
  Neither the extension nor the readers are fair.
* All other modules have safety properties only.

## Proofs

All theorems hold for any values of the constants that meet the named assumptions
of the modules.  Those only say that model values are apart from each other
(`NoPid \notin Pid`), that subsets are subsets and bounds natural numbers, that
trimming a name twice is trimming it once, that messages are messages and texts are
sequences of words, and, for the calls, that some policy document can be loaded.

* **Jobs.**  `FinishedMeansDead` and `LiveJobAddressable` are not inductive: a
  watcher writes an end because a process id is free, and that says something
  about the job only together with what its record and its watcher are.  `JobsInv`
  ties the four together (a living job's id is its own, its watcher runs or the
  runtime is down, memory is empty while it is down, disk follows memory except for
  `Unsaved` jobs) and yields the theorems on each of the properties, and, with one
  lemma for each kind of step, that every step of `Jobs` maps to a step of
  `JobContract` or a stutter.  `JobsPrunedStaysGone` comes from that refinement.
* **Calls.**  `CallsInv` is the type invariant with what each program counter says
  of its request and outcome (`Reasonable`), enough for `AuditedOnce`.
  `ActiveHasCall` and `ShownWhileRunning` add how each step changes the table.
  `TablesInv` relates registry and manifests at every stage of a reload;
  `CallsPluginNamesTrue` assumes one reloading client, as the property needs.
  `CallsLockdownLasts` uses that `policy_reload` and `plugins_reload` are
  mutations, with the real catalogue.
* **Bridge.**  `CallsInv` counts where a command was started at each stage of a
  call.  `SocketInv`, for logins that do not overlap, says that at most one bridge
  is in progress and whose socket the path holds; without that assumption
  `ListenerReachable` is false, as `bridge_overlap` shows.  `PrivilegeKept` needs of a
  call at each stage that it is bound for, or connected to, a server of the right kind.
* **Commands.**  `ExecInv` says that after the kill nobody alive is in the group,
  so nobody can fork into it, and that the pipe stays free once it is.  It does not
  need descendants to stay in the group: only the liveness does.
* **Decisions.**  The properties speak about the last message or the calls decided
  so far under one configuration, and follow from what these operators return; the
  invariants (`EngineTypeOK`, `AdmissionInv`) say that configuration, message and
  reply belong together.  That readonly mode only admits reading tools is proved
  from the catalogue itself.
* **Stores.**  `KeysInv` adds to the types that a key is open while a call about its
  file is under way, and what a call that is alone will find or leave.  `TargetsInv`
  is more involved, since memory may be ahead of the file: `Settled` (what is settled
  is in the file, and in memory while the runtime is up), `Counted` (what a call may
  count on is what it will write or find), `Drift` (a difference has an error
  behind it, or the call that is about to be written) and `Locking`.  For the
  refinement of `DurableMap` it takes `Pending` besides: the call that has the lock
  has its change in the table, and no error outlives the runtime.  Then a written
  table is the old file with the change of the call and with what was late: that is
  where `Drift` is needed.  `ScenesImplementStores` says that the model of `stores`
  behaves as each of the three modules, so that what is proved of them
  (`StoresKeepContract`, `StoresTypeCorrect`) is what the run checks.
* **File edits.**  `EditsInv` says how far each call is and what it has made of its
  file (`Progress`), that a file a call counts on is touched by no other, and that an
  open file exists.  `PatchesInv` says that a text, and every copy about to replace
  one, shows each patch as a whole or not at all; it needs that new words tell whose
  they are, `NewWordsTell`, the premise of `PatchAllOrNothing`, which `MCStores`
  assumes by name (`PatchesTell`), so that TLC confirms it.  What a list of
  replacements does is a recursive function, about which the provers know nothing.  The
  proof says what it computes without one: a run of the list exists for each length
  (`RunExists`, by induction over a set of numbers, from the well-foundedness of `<`),
  a run is what `Patched` is (`PatchedIsRun`), and a text that was whole is whole after
  it (`PatchedWhole`).
* **Backends.**  `HelperInv` needs `Turns` (one call has the mutex), `Questions`
  (ids are given out in order, and what is in the pipes with the last one, the
  helper's own requests apart, is the question of the call that waits), and `Casualties` (a helper that failed a call
  is never current again).  `BrowserInv` needs `Connections`, `Stamps` (two requests
  meet in the table only with one reading), `Places` (an answer is with the
  extension, in the socket, in the reader's hands or gone, in one of these only)
  and `Delivered` (one in a channel is in none of them), from which it follows that
  there is always room in the channel.
* **Remote calls.**  Each of the three refinements is by one lemma for each step that
  says how fate and reply of every caller change.  The bridge needs no more than
  `CallsInv`.  The helper needs `Numbers`: each call has a number of its own,
  from one upwards, which tells its question from the handshake, from what the helper
  says of itself, and from the question of a failed call that is still in a pipe while
  others write theirs; that a question is in one pipe only is in `Questions`.  The browser bridge needs `Taken`: what a request has
  got, it has got when it was over; that an answer which was taken, passed on or
  dropped is nowhere else comes from `Places` and `Delivered`.

Only model-checked: `DeathNoticed`, `BridgeDeathNoticed`, `BoundedByTimeout`,
`EveryCallReturns` and `EveryRequestEnds`, since liveness under fairness is beyond the
prover.  Every other property of a passing run is a theorem.

## Not modelled

Reading operations (Tail, List, `fs_read`, `process_inspect`, health pages) change
nothing.  The rewriting of schemas, output truncation, environment merging and log
formats are layout.  The identification of peers, tokens and origins are taken to
succeed.  The Windows bridge, installers, packaging, flags and host detection are
outside.  The tools for Android, the assistant and the desktop run one external
program after another and keep no state between calls: what a backend has done
before it failed is not visible to the code, and a model would have nothing to
check it against.  The clones that are made after the lock is released
(manager.go:99 and :228) and recovery running beside the watchers it has started
are data races the models do not have: their outcomes are not enumerated.
Directories, links and modes of files are left out of `FileEdits`; a power failure,
after which synced and unsynced data differ, is not modelled: a crash is that of
the runtime.  The audit log is taken to be writable.

## Plan

What is left, in order of weight:

1. `JobsOverBridge`: `Jobs` and `SessionBridge` composed, so that the answers a
   launch loses are those of a bridge that ends, with the composition's version of
   `LiveJobAddressable`.
2. An audit log whose append fails, and its `Prune` beside calls that append.
3. Recovery in steps beside the watchers it starts, and torn reads of a record.
4. A policy reload by two clients at once, with the order in which they set it.
5. What `ToolCalls` takes from `Policy` proved of `PolicyEngine` for the calls as they
   are executed, not only as they are decided.
