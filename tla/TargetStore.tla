---------------------------- MODULE TargetStore -----------------------------
(***************************************************************************)
(* The machine targets of internal/targets/manager.go: the table in memory *)
(* and the file targets.json that a restart reads.                         *)
(*                                                                         *)
(* Upsert and Remove take the lock, change the table and write all of it   *)
(* to a temporary file that is renamed over the old one.  The write may    *)
(* fail at any of its steps, and the change then stays in memory.  The     *)
(* runtime may crash between any two steps; the temporary file it leaves   *)
(* has a name nobody reads, and so is not part of the state.  Probe, Exec  *)
(* and Copy work on a copy of the target they have looked up.              *)
(***************************************************************************)
EXTENDS Naturals

CONSTANTS
  Caller,    \* the concurrent tool calls
  Name,      \* names of targets, as callers spell them
  Trim,      \* strings.TrimSpace of each
  Local,     \* the name of the implicit target
  Target,    \* definitions of a target
  Enabled,   \* those that are enabled
  Invalid,   \* a definition that Upsert refuses
  Absent,    \* the table has no such target
  Open       \* nobody has been promised anything

ASSUME TargetsAssumption ==
  /\ Trim \in [Name -> Name]
  /\ \A n \in Name : Trim[Trim[n]] = Trim[n]
  /\ Local \in Name
  /\ Trim[Local] = Local
  /\ Enabled \subseteq Target
  /\ {Invalid, Absent, Open} \cap Target = {}
  /\ Absent # Open

VARIABLES
  running,   \* the runtime is up
  table,     \* Manager.targets
  saved,     \* what targets.json says
  req,       \* the call under way of each caller
  settled,   \* the change of each target last answered with success
  told       \* targets whose change was answered with an error

targetVars == <<running, table, saved, req, settled, told>>

Entry == Target \cup {Absent}

Stage == {"none", "called", "held", "using", "done", "failed"}

\* What a call is about, how far it is, what it has looked up, and what its
\* caller may count on that to be.
Req == [op : {"upsert", "remove", "use"}, name : Name, def : Entry \cup {Invalid},
        stage : Stage, got : Entry, sure : Entry \cup {Open}]

NoReq == [op |-> "use", name |-> Local, def |-> Absent, stage |-> "none",
          got |-> Absent, sure |-> Open]

Changes(r) == r.op # "use" /\ r.stage \in {"called", "held", "done", "failed"}

\* The name under which the table is changed: only Upsert trims.
Place(r) == IF r.op = "upsert" THEN Trim[r.name] ELSE r.name

LockFree == \A c \in Caller : req[c].stage # "held"

TargetsInit ==
  /\ running = TRUE
  /\ table = [n \in Name |-> Absent]
  /\ saved = [n \in Name |-> Absent]
  /\ req = [c \in Caller |-> NoReq]
  /\ settled = [n \in Name |-> Absent]
  /\ told = {}

-----------------------------------------------------------------------------
(* Upsert and Remove                                                       *)

\* What is answered with an error before the lock is taken: nothing changes.
RefusedEarly(op, n, d) ==
  \/ op = "upsert" /\ (Trim[n] = Local \/ d = Invalid)
  \/ op = "remove" /\ n = Local

\* What the caller of a new call may count on: a use finds what is settled, a
\* change is kept if no other change of the same target is under way.
Sure(op, n, d) ==
  IF op = "use" THEN settled[n]
  ELSE IF \E c \in Caller : Changes(req[c]) /\ Place(req[c]) = n THEN Open ELSE d

Request(op, n, d) ==
  [op |-> op, name |-> n, def |-> d,
   stage |-> "called", got |-> Absent, sure |-> Open]

\* A change that is asked for opens the question what the target is, for those
\* who are changing it or looking it up as well.
Unsettled(n) ==
  [c \in Caller |-> IF Place(req[c]) = n /\ req[c].stage # "using"
                    THEN [req[c] EXCEPT !.sure = Open] ELSE req[c]]

AskChange(c, op, n, d) ==
  LET r == Request(op, n, d) IN
  /\ running
  /\ req[c] = NoReq
  /\ d = Absent <=> op = "remove"
  /\ ~ RefusedEarly(op, n, d)
  /\ req' = [Unsettled(Place(r)) EXCEPT ![c] = [r EXCEPT !.sure = Sure(op, Place(r), d)]]
  /\ settled' = [settled EXCEPT ![Place(r)] = Open]
  /\ UNCHANGED <<running, table, saved, told>>

\* Remove of what is not there ends here.
ChangeTable(c) ==
  LET r == req[c] IN
  /\ r.stage = "called" /\ r.op # "use"
  /\ LockFree
  /\ IF r.op = "remove" /\ table[r.name] = Absent
     THEN req' = [req EXCEPT ![c].stage = "failed"] /\ UNCHANGED table
     ELSE /\ req' = [req EXCEPT ![c].stage = "held"]
          /\ table' = [table EXCEPT ![Place(r)] = r.def]
  /\ UNCHANGED <<running, saved, settled, told>>

\* Mutants: only the target of the call is written, or nothing for a removal.
PersistOwn(c) ==
  /\ req[c].stage = "held"
  /\ req' = [req EXCEPT ![c].stage = "done"]
  /\ saved' = [saved EXCEPT ![Place(req[c])] = table[Place(req[c])]]
  /\ told' = {}
  /\ UNCHANGED <<running, table, settled>>

PersistUpsertsOnly(c) ==
  /\ req[c].stage = "held"
  /\ req' = [req EXCEPT ![c].stage = "done"]
  /\ saved' = IF req[c].op = "upsert" THEN table ELSE saved
  /\ told' = {}
  /\ UNCHANGED <<running, table, settled>>

\* persistLocked writes the whole table, with what earlier calls have failed to
\* save.
Persist(c) ==
  /\ req[c].stage = "held"
  /\ req' = [req EXCEPT ![c].stage = "done"]
  /\ saved' = table
  /\ told' = {}
  /\ UNCHANGED <<running, table, settled>>

PersistFails(c) ==
  /\ req[c].stage = "held"
  /\ req' = [req EXCEPT ![c].stage = "failed"]
  /\ told' = told \cup {Place(req[c])}
  /\ UNCHANGED <<running, table, saved, settled>>

AnswerChange(c) ==
  LET r == req[c] IN
  /\ r.op # "use" /\ r.stage \in {"done", "failed"}
  /\ req' = [req EXCEPT ![c] = NoReq]
  /\ settled' = IF r.stage = "done" /\ r.sure # Open
                THEN [settled EXCEPT ![Place(r)] = r.sure] ELSE settled
  /\ UNCHANGED <<running, table, saved, told>>

-----------------------------------------------------------------------------
(* Probe, Exec and Copy                                                    *)

AskUse(c, n) ==
  /\ running
  /\ req[c] = NoReq
  /\ n # Local
  /\ req' = [req EXCEPT ![c] = [Request("use", n, Absent) EXCEPT !.sure = Sure("use", n, Absent)]]
  /\ UNCHANGED <<running, table, saved, settled, told>>

\* Get makes a copy under the lock; a disabled target is not used.
LookUp(c) ==
  LET r == req[c] IN
  /\ r.stage = "called" /\ r.op = "use"
  /\ LockFree
  /\ req' = [req EXCEPT ![c].got = table[r.name],
                        ![c].stage = IF table[r.name] \in Enabled THEN "using" ELSE "failed"]
  /\ UNCHANGED <<running, table, saved, settled, told>>

AnswerUse(c) ==
  /\ req[c].op = "use" /\ req[c].stage \in {"using", "failed"}
  /\ req' = [req EXCEPT ![c] = NoReq]
  /\ UNCHANGED <<running, table, saved, settled, told>>

-----------------------------------------------------------------------------
CrashTargets ==
  /\ running
  /\ running' = FALSE
  /\ table' = [n \in Name |-> Absent]
  /\ req' = [c \in Caller |-> NoReq]
  /\ told' = {}
  /\ UNCHANGED <<saved, settled>>

\* New and load.
LoadTargets ==
  /\ ~ running
  /\ running' = TRUE
  /\ table' = saved
  /\ UNCHANGED <<saved, req, settled, told>>

CallerStep(c) ==
  \/ \E op \in {"upsert", "remove"}, n \in Name, d \in Entry \cup {Invalid} :
       AskChange(c, op, n, d)
  \/ \E n \in Name : AskUse(c, n)
  \/ ChangeTable(c) \/ Persist(c) \/ PersistFails(c) \/ AnswerChange(c)
  \/ LookUp(c) \/ AnswerUse(c)

TargetsNext ==
  \/ \E c \in Caller : CallerStep(c)
  \/ CrashTargets
  \/ LoadTargets

TargetsSpec == TargetsInit /\ [][TargetsNext]_targetVars

-----------------------------------------------------------------------------
(* Properties                                                              *)

TargetsTypeOK ==
  /\ running \in BOOLEAN
  /\ table \in [Name -> Entry]
  /\ saved \in [Name -> Entry]
  /\ req \in [Caller -> Req]
  /\ settled \in [Name -> Entry \cup {Open}]
  /\ told \subseteq Name

\* tools/targets.go:15: targets "are durable configuration, not live MCP
\* sessions".  The change of a target that was last answered with success, and
\* that no other change overlapped or followed, is in the file whatever writes
\* have failed and whenever the runtime has crashed since.
ChangesSurvive ==
  \A n \in Name : settled[n] # Open => saved[n] = settled[n]

\* A call that looks a target up finds the change its caller may count on, and
\* uses no other definition.
AnsweredChangeSeen ==
  \A c \in Caller :
    LET r == req[c] IN
    r.op = "use" /\ r.stage \in {"using", "failed"} /\ r.sure # Open => r.got = r.sure

\* Where the table is not what a restart will find, somebody was answered with
\* an error, about that very target, since the file was last written.
DriftWasReported ==
  running /\ LockFree =>
    \A n \in Name : table[n] # saved[n] => n \in told

\* What a caller waits for, and what is in the table only.
Awaited(r) ==
  IF ~ Changes(r) THEN [state |-> "idle"]
  ELSE [state |-> CASE r.stage = "done" -> "stored" [] r.stage = "failed" -> "failed" [] OTHER -> "asked",
        cell |-> Place(r), value |-> r.def]

Unsaved(n) ==
  IF n \in told /\ ~ \E c \in Caller : req[c].stage = "held" /\ Place(req[c]) = n
  THEN table[n] ELSE Open

TargetsMap == INSTANCE DurableMap WITH
  Client <- Caller, Cell <- Name, Value <- Entry, Never <- Open,
  stored <- saved,
  late   <- [n \in Name |-> Unsaved(n)],
  asked  <- [c \in Caller |-> Awaited(req[c])]

\* The file changes as a whole, at one instant of a call that answers with success
\* (persistLocked, manager.go:437); what another call has failed to write may come
\* with it, and nothing else does.
TargetsContract == TargetsMap!Spec
=============================================================================
