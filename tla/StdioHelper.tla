---------------------------- MODULE StdioHelper -----------------------------
(***************************************************************************)
(* The helper process behind a group of tools, of                          *)
(* internal/tools/stdio_mcp_linux.go and anyapp_linux.go.                  *)
(*                                                                         *)
(* Calls take turns under a mutex.  The one that has it starts the helper  *)
(* if there is none or if the desktop environment or the binary has        *)
(* changed, writes its request, and waits for the answer with its id or    *)
(* for its own time limit, which has been running since before it waited   *)
(* for the mutex.  Whatever goes wrong, it stops the helper; the next call *)
(* starts another.  The helper is a process that may answer, say something *)
(* else, fall silent or die at any time.                                   *)
(*                                                                         *)
(* Of the helper one thing is assumed, that it keeps to JSON-RPC: what it  *)
(* sends as a response, with a result or an error, bears the id of a       *)
(* request that it has read.  Its own requests bear what id it likes, and  *)
(* the reader, which never looks at the method, takes one for the response *)
(* that is awaited if the ids agree.                                       *)
(*                                                                         *)
(* Requests are assumed to fit into the pipe, so that writing one does not *)
(* block; a write to a helper that has died fails.                         *)
(***************************************************************************)
EXTENDS Naturals, Sequences

CONSTANTS
  Client,      \* the concurrent calls
  Bus,         \* sessions of the desktop, by their message bus
  Display,     \* displays of those sessions
  Isolated,    \* the display of the isolated compositor
  Version,     \* fingerprints of the helper's binary
  MaxChanges,  \* bound: changes of all that
  MaxHelpers,  \* bound: helpers that are started
  MaxNoise,    \* bound: messages of a helper that answer nothing, its own requests too
  MaxCalls     \* bound: calls, over all clients

ASSUME HelperAssumption ==
  /\ MaxChanges \in Nat
  /\ MaxHelpers \in Nat
  /\ MaxNoise \in Nat
  /\ MaxCalls \in Nat

VARIABLES
  desktop,   \* the session that desktopEnvironment finds
  headless,  \* the isolated compositor: none, its state file alone, or running
  version,   \* the binary that is installed
  changes,   \* how often one of these has changed
  current,   \* the helper in s.cmd: its number, 0 for none
  born,      \* the signature each helper was started for; s.envSig is the current one's
  nextID,    \* s.nextID
  started,   \* the number of helpers started
  alive,     \* the helpers whose process lives
  inbox,     \* requests the current helper has not read
  outbox,    \* what it has written and nobody has read
  noise,     \* messages beyond its answers
  call,      \* the call of each client
  calls,     \* the number of calls made
  victims    \* for each helper, the calls that failed because it had died

world == <<desktop, headless, version, changes>>

helperVars == <<world, current, born, nextID, started, alive, inbox, outbox,
                noise, call, calls, victims>>

Helper == 1 .. MaxHelpers

Environment == [bus : Bus, display : Display \cup {Isolated}]

Signature == [env : Environment, version : Version]

\* The isolated compositor, while it runs, takes the place of the session's
\* display; what it leaves behind does not.
EnvironmentNow ==
  IF headless = "running" THEN [desktop EXCEPT !.display = Isolated] ELSE desktop

SignatureNow == [env |-> EnvironmentNow, version |-> version]

\* `sig` is what the call has computed, `want` the id it waits for; `serial` stands
\* for what it asks.
NoCall == [pc |-> "idle", expired |-> FALSE, want |-> 0, serial |-> 0, got |-> 0,
           sig |-> CHOOSE s \in Signature : TRUE]

\* The stages of a call that has the mutex.
Locked == {"locked", "hello", "ready", "asked"}

TurnFree == \A c \in Client : call[c].pc \notin Locked

HelperInit ==
  /\ desktop \in [bus : Bus, display : Display]
  /\ headless = "none"
  /\ version \in Version
  /\ changes = 0
  /\ current = 0 /\ nextID = 0 /\ started = 0
  /\ born = [h \in Helper |-> NoCall.sig]
  /\ alive = {}
  /\ inbox = <<>> /\ outbox = <<>> /\ noise = 0
  /\ call = [c \in Client |-> NoCall]
  /\ calls = 0
  /\ victims = [h \in Helper |-> 0]

-----------------------------------------------------------------------------
(* stopLocked, and how calls end by it                                     *)

At(c, pc) == call[c].pc = pc

Goes(c, pc) == call' = [call EXCEPT ![c].pc = pc]

\* Of a call that is over nothing is left but what it asked and what it got.
Ended(c, pc, got) == [NoCall EXCEPT !.pc = pc, !.serial = call[c].serial, !.got = got]

Ends(c, pc, got) == call' = [call EXCEPT ![c] = Ended(c, pc, got)]

\* stopLocked: the helper is killed and reaped, and its pipes are closed.
StopLocked ==
  /\ current' = 0
  /\ alive' = alive \ {current}
  /\ inbox' = <<>> /\ outbox' = <<>>

HelperStays == UNCHANGED <<current, alive, inbox, outbox>>

\* Mutant: a helper that cannot be written to or read from is kept.
FailKeeps(c) ==
  /\ Ends(c, "failed", 0)
  /\ HelperStays
  /\ victims' = IF current \in Helper \ alive THEN [victims EXCEPT ![current] = @ + 1] ELSE victims

\* A call ends with an error of the transport.
Fail(c) ==
  /\ Ends(c, "failed", 0)
  /\ StopLocked
  /\ victims' = IF current \in Helper \ alive THEN [victims EXCEPT ![current] = @ + 1] ELSE victims

-----------------------------------------------------------------------------
(* A call                                                                  *)

\* callTool, up to the mutex: the time limit is running.
Ask(c) ==
  /\ At(c, "idle") /\ calls < MaxCalls
  /\ calls' = calls + 1
  /\ call' = [call EXCEPT ![c] = [NoCall EXCEPT !.pc = "waiting", !.serial = calls + 1]]
  /\ HelperStays
  /\ UNCHANGED <<world, born, nextID, started, noise, victims>>

\* The limit of 20 s, or the end of the client.
Expire(c) ==
  /\ call[c].pc \in Locked \cup {"waiting"} /\ ~ call[c].expired
  /\ call' = [call EXCEPT ![c].expired = TRUE]
  /\ HelperStays
  /\ UNCHANGED <<world, born, nextID, started, noise, calls, victims>>

Lock(c) ==
  /\ At(c, "waiting")
  /\ TurnFree
  /\ call' = [call EXCEPT ![c].pc = "locked", ![c].sig = SignatureNow]
  /\ HelperStays
  /\ UNCHANGED <<world, born, nextID, started, noise, calls, victims>>

\* Mutant: a helper that has been started is used.
UsableAlways(c) == current # 0

\* ensureStartedLocked: a helper that was started for this environment is taken
\* for running, dead or alive.
Usable(c) == current # 0 /\ born[current] = call[c].sig

Reuse(c) ==
  /\ At(c, "locked")
  /\ Usable(c)
  /\ Goes(c, "ready")
  /\ HelperStays
  /\ UNCHANGED <<world, born, nextID, started, noise, calls, victims>>

\* Mutant: the old helper is forgotten, not stopped.
StartAnother(c) ==
  /\ At(c, "locked")
  /\ ~ Usable(c)
  /\ started < MaxHelpers
  /\ started' = started + 1
  /\ current' = started + 1
  /\ alive' = alive \cup {started + 1}
  /\ born' = [born EXCEPT ![started + 1] = call[c].sig]
  /\ inbox' = <<[id |-> 1, serial |-> 0]>>
  /\ outbox' = <<>>
  /\ noise' = 0
  /\ nextID' = 1
  /\ call' = [call EXCEPT ![c].pc = "hello", ![c].want = 1]
  /\ UNCHANGED <<world, calls, victims>>

\* Otherwise one is started in its place, and asked to initialize.
Start(c) ==
  /\ At(c, "locked")
  /\ ~ Usable(c)
  /\ started < MaxHelpers
  /\ started' = started + 1
  /\ current' = started + 1
  /\ alive' = (alive \ {current}) \cup {started + 1}
  /\ born' = [born EXCEPT ![started + 1] = call[c].sig]
  /\ inbox' = <<[id |-> 1, serial |-> 0]>>
  /\ outbox' = <<>>
  /\ noise' = 0
  /\ nextID' = 1
  /\ call' = [call EXCEPT ![c].pc = "hello", ![c].want = 1]
  /\ UNCHANGED <<world, calls, victims>>

\* The binary is missing, or the process cannot be started.
StartFails(c) ==
  /\ At(c, "locked")
  /\ ~ Usable(c)
  /\ Fail(c)
  /\ UNCHANGED <<world, born, nextID, started, noise, calls>>

\* rpcLocked, up to the waiting: the limit is not looked at.
WriteCall(c) ==
  /\ At(c, "ready")
  /\ nextID' = nextID + 1
  /\ current \in alive
  /\ inbox' = Append(inbox, [id |-> nextID + 1, serial |-> call[c].serial])
  /\ call' = [call EXCEPT ![c].pc = "asked", ![c].want = nextID + 1]
  /\ UNCHANGED <<world, current, alive, outbox, born, started, noise, calls, victims>>

WriteCallFails(c) ==
  /\ At(c, "ready")
  /\ current \notin alive
  /\ Fail(c)
  /\ nextID' = nextID + 1
  /\ UNCHANGED <<world, born, started, noise, calls>>

\* The reader passes over what has no id or another's, and knows a response by
\* nothing but its id.
Answers(c, msg) == msg.kind \in {"answer", "error", "request"} /\ msg.id = call[c].want

Reading(c) == call[c].pc \in {"hello", "asked"} /\ outbox # <<>>

Unread == outbox' = Tail(outbox) /\ UNCHANGED <<current, alive, inbox>>

PassOver(c) ==
  /\ Reading(c)
  /\ ~ Answers(c, Head(outbox)) /\ Head(outbox).kind # "garbage"
  /\ Unread
  /\ UNCHANGED <<world, born, nextID, started, noise, call, calls, victims>>

\* initialize is answered, or seems to be, since its result is not looked at, and
\* `initialized` is notified.
Hello(c) ==
  /\ Reading(c) /\ At(c, "hello")
  /\ Answers(c, Head(outbox)) /\ Head(outbox).kind # "error"
  /\ current \in alive
  /\ Goes(c, "ready")
  /\ Unread
  /\ UNCHANGED <<world, born, nextID, started, noise, calls, victims>>

\* It is refused, or the notification cannot be written.
HelloFails(c) ==
  /\ Reading(c) /\ At(c, "hello")
  /\ Answers(c, Head(outbox))
  /\ Head(outbox).kind = "error" \/ current \notin alive
  /\ Fail(c)
  /\ UNCHANGED <<world, born, nextID, started, noise, calls>>

\* Mutant: a message without a result is taken for a tool result that is empty.
ReceiveAny(c) ==
  /\ Reading(c) /\ At(c, "asked")
  /\ Answers(c, Head(outbox))
  /\ Ends(c, "done", Head(outbox).serial)
  /\ Unread
  /\ UNCHANGED <<world, born, nextID, started, noise, calls, victims>>

\* An answer, or an error of the tool, which leaves the helper as it is.
Receive(c) ==
  /\ Reading(c) /\ At(c, "asked")
  /\ Answers(c, Head(outbox)) /\ Head(outbox).kind # "request"
  /\ Ends(c, "done", Head(outbox).serial)
  /\ Unread
  /\ UNCHANGED <<world, born, nextID, started, noise, calls, victims>>

\* What is no tool result cannot be decoded: a response without one, or a request of
\* the helper's own that has the awaited id.  The call fails, the helper stays, and
\* the answer to the call, if it comes, is left for the next call to pass over.
DecodeFails(c) ==
  /\ Reading(c) /\ At(c, "asked")
  /\ Answers(c, Head(outbox)) /\ Head(outbox).kind # "error"
  /\ Ends(c, "failed", 0)
  /\ Unread
  /\ UNCHANGED <<world, born, nextID, started, noise, calls, victims>>

\* The decoder stops at the end of what a dead helper has written, or at what is
\* not JSON.
ReadFails(c) ==
  /\ call[c].pc \in {"hello", "asked"}
  /\ \/ outbox = <<>> /\ current \notin alive
     \/ outbox # <<>> /\ Head(outbox).kind = "garbage"
  /\ Fail(c)
  /\ UNCHANGED <<world, born, nextID, started, noise, calls>>

\* Mutant: the time limit is not looked at.
GiveUpNever(c) == FALSE /\ UNCHANGED helperVars

\* The select finds the context done; it may do so while an answer is there.
GiveUp(c) ==
  /\ call[c].pc \in {"hello", "asked"} /\ call[c].expired
  /\ Fail(c)
  /\ UNCHANGED <<world, born, nextID, started, noise, calls>>

Return(c) ==
  /\ call[c].pc \in {"done", "failed"}
  /\ call' = [call EXCEPT ![c] = NoCall]
  /\ HelperStays
  /\ UNCHANGED <<world, born, nextID, started, noise, calls, victims>>

-----------------------------------------------------------------------------
(* The helper and its surroundings                                         *)

Serve ==
  /\ current \in alive /\ inbox # <<>>
  /\ \E kind \in {"answer", "error"} :
       outbox' = Append(outbox, [id |-> Head(inbox).id, serial |-> Head(inbox).serial,
                                kind |-> kind])
  /\ inbox' = Tail(inbox)
  /\ UNCHANGED <<world, current, born, nextID, started, alive, noise, call, calls, victims>>

\* A notification, something that is not JSON, an answer that was given before, or a
\* request with any id that a call may come to wait for.
Unasked ==
  {m \in [id : 0 .. MaxCalls + 1, serial : {0}, kind : {"note", "garbage", "answer", "request"}] :
     CASE m.kind = "answer"  -> 0 < m.id /\ m.id < nextID
       [] m.kind = "request" -> 0 < m.id
       [] OTHER              -> m.id = 0}

Babble ==
  /\ current \in alive /\ noise < MaxNoise
  /\ noise' = noise + 1
  /\ \E m \in Unasked : outbox' = Append(outbox, m)
  /\ UNCHANGED <<world, current, born, nextID, started, alive, inbox, call, calls, victims>>

HelperDies ==
  /\ current \in alive
  /\ alive' = alive \ {current}
  /\ inbox' = <<>>
  /\ UNCHANGED <<world, current, born, nextID, started, outbox, noise, call, calls, victims>>

\* Login and logout, the isolated compositor, and an update.
WorldChanges ==
  /\ changes < MaxChanges
  /\ changes' = changes + 1
  /\ \/ desktop' \in [bus : Bus, display : Display] \ {desktop} /\ UNCHANGED <<headless, version>>
     \/ headless' \in {"none", "stale", "running"} \ {headless} /\ UNCHANGED <<desktop, version>>
     \/ version' \in Version \ {version} /\ UNCHANGED <<desktop, headless>>
  /\ HelperStays
  /\ UNCHANGED <<born, nextID, started, noise, call, calls, victims>>

-----------------------------------------------------------------------------
CallStep(c) ==
  \/ Lock(c) \/ Reuse(c) \/ Start(c) \/ StartFails(c) \/ WriteCall(c) \/ WriteCallFails(c)
  \/ PassOver(c) \/ Hello(c) \/ HelloFails(c) \/ Receive(c) \/ DecodeFails(c) \/ ReadFails(c)
  \/ GiveUp(c) \/ Return(c)

HelperNext ==
  \/ \E c \in Client : Ask(c) \/ Expire(c) \/ CallStep(c)
  \/ Serve \/ Babble \/ HelperDies \/ WorldChanges

\* Calls go on where they can, every time limit passes, and the mutex, which Go
\* gives to whoever has waited for more than a millisecond, is given to each.
HelperFairness ==
  \A c \in Client :
    /\ WF_helperVars(CallStep(c))
    /\ WF_helperVars(Expire(c))
    /\ SF_helperVars(Lock(c))

HelperSpec == HelperInit /\ [][HelperNext]_helperVars /\ HelperFairness

-----------------------------------------------------------------------------
(* Properties                                                              *)

Message == [id : Nat, serial : Nat, kind : {"note", "answer", "error", "request", "garbage"}]

HelperTypeOK ==
  /\ SignatureNow \in Signature
  /\ changes \in 0 .. MaxChanges
  /\ current \in 0 .. started
  /\ started \in 0 .. MaxHelpers
  /\ born \in [Helper -> Signature]
  /\ nextID \in Nat
  /\ alive \subseteq 1 .. started
  /\ inbox \in Seq([id : Nat, serial : Nat])
  /\ outbox \in Seq(Message)
  /\ noise \in 0 .. MaxNoise
  /\ calls \in 0 .. MaxCalls
  /\ call \in [Client -> [pc : {"idle", "waiting", "locked", "hello", "ready", "asked",
                                 "done", "failed"},
                           expired : BOOLEAN, want : Nat, serial : 0 .. MaxCalls, got : Nat,
                           sig : Signature]]
  /\ victims \in [Helper -> Nat]

\* rpcLocked's matching of ids, and callTool's decoding of results: an answer is that
\* of the helper to this very call, whatever it asks of its own accord, and whatever
\* calls before have left unread.
AnswersMatch == \A c \in Client : At(c, "done") => call[c].got = call[c].serial

\* The processes are never more than the one that the client knows of: neither a
\* change of the desktop nor a failure to initialize leaves one behind.
OneHelper == alive \subseteq {current}

\* A call is never made to a helper that was started for another desktop than the
\* one that was there when its turn came: what is meant for the isolated display
\* does not reach the user's.
RightDesktop ==
  \A c \in Client :
    call[c].pc \in {"hello", "ready", "asked"} =>
      current # 0 /\ born[current].env = call[c].sig.env

\* A helper that has died is found out by one call, which fails; the next has
\* another one started.
DeathFailsOneCall == \A h \in Helper : victims[h] <= 1

\* What becomes of a call's question, from where it is, and what its client is told;
\* a helper that was not stopped may still deal with the question of a call that failed.
Holds(messages, c) == \E i \in DOMAIN messages : messages[i].serial = call[c].serial

HelperFate(c) ==
  CASE call[c].pc \in {"idle", "waiting", "locked", "hello", "ready"} -> "unasked"
    [] call[c].pc \in {"asked", "failed"} /\ Holds(inbox, c) -> "asked"
    [] call[c].pc \in {"asked", "failed"} /\ ~ Holds(inbox, c) /\ Holds(outbox, c) -> "done"
    [] At(c, "done") /\ call[c].got = call[c].serial -> "done"
    [] OTHER -> "lost"

HelperReply(c) ==
  CASE At(c, "done") -> "answer" [] At(c, "failed") -> "error" [] OTHER -> "none"

HelperRemote == INSTANCE RemoteCall WITH
  Caller <- Client,
  fate   <- [c \in Client |-> HelperFate(c)],
  reply  <- [c \in Client |-> HelperReply(c)]

\* rpcLocked (stdio_mcp_linux.go:81) never asks again: the helper clicks and types,
\* and what it may have done before it died, or went over the time, is not done
\* twice.  What is returned as the answer was done: a request of the helper's own
\* that is taken for the response is no tool result, and ends in an error.
HelperContract == HelperRemote!Spec

\* anyapp_linux.go:137: every call is bounded, so that "a wedged capture/portal
\* cannot stall" the others.
EveryCallReturns == \A c \in Client : At(c, "waiting") ~> At(c, "idle")
=============================================================================
