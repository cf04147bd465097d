--------------------------- MODULE BrowserBridge ----------------------------
(***************************************************************************)
(* The bridge between the tool browser_use and the browser's extension:    *)
(* cmd/cycom-browser-bridge/main.go with browser-extension/background.js   *)
(* and internal/tools/browser.go around it.                                *)
(*                                                                         *)
(* `ext` serves the extension's connection; a new one replaces the old one *)
(* and closes it while it has the mutex.  `api` serves a request: it       *)
(* stamps it with a reading of the clock, enters a channel for one answer  *)
(* into the pending table, writes the request to the connection there is,  *)
(* and waits for the answer for 15 s.  The extension answers each request  *)
(* once, in any order, on the connection it came by; it drops what it      *)
(* cannot send any more.  Two requests may read the same time.             *)
(***************************************************************************)
EXTENDS Naturals, Sequences

CONSTANTS
  Request,   \* the requests, each made once
  Id,        \* readings of the clock
  MaxConns,  \* bound: connections of extensions
  None       \* no request, no reading

ASSUME BrowserAssumption ==
  /\ MaxConns \in Nat
  /\ None \notin Request /\ None \notin Id

VARIABLES
  sock,      \* how far each connection is
  conn,      \* the global conn; 0 is nil
  mu,        \* the connection whose ext has the mutex to close the one before, or 0
  reader,    \* what the reader of each connection is doing
  asked,     \* the requests the extension has not answered, by connection
  said,      \* its answers that have not been read, by connection
  pc,        \* how far each request is
  id,        \* its reading of the clock
  via,       \* the connection it is written to
  pending,   \* the request whose channel is under each id
  slot,      \* the channel of each request: an answer, named by its request
  got        \* the answer that each request returned

extVars == <<sock, conn, mu, reader, asked, said>>

apiVars == <<pc, id, via, got>>

browserVars == <<extVars, apiVars, pending, slot>>

Conn == 1 .. MaxConns

AtRest == [stage |-> "reading", answer |-> None, to |-> None]

BrowserInit ==
  /\ sock = [c \in Conn |-> "none"]
  /\ conn = 0 /\ mu = 0
  /\ reader = [c \in Conn |-> AtRest]
  /\ asked = [c \in Conn |-> {}]
  /\ said = [c \in Conn |-> <<>>]
  /\ pc = [r \in Request |-> "idle"]
  /\ id = [r \in Request |-> None]
  /\ via = [r \in Request |-> 0]
  /\ pending = [i \in Id |-> None]
  /\ slot = [r \in Request |-> None]
  /\ got = [r \in Request |-> None]

MutexFree == mu = 0

Becomes(c, state) == sock' = [sock EXCEPT ![c] = state]

-----------------------------------------------------------------------------
(* ext                                                                     *)

\* An extension connects: after a connection was lost, or from another browser.
Accept(c) ==
  /\ sock[c] = "none" /\ \A d \in 1 .. c - 1 : sock[d] # "none"
  /\ Becomes(c, "accepted")
  /\ UNCHANGED <<conn, mu, reader, asked, said, apiVars, pending, slot>>

\* The mutex is taken, and with an old connection kept for as long as closing that
\* takes.
Install(c) ==
  /\ sock[c] = "accepted" /\ MutexFree
  /\ IF conn = 0
     THEN Becomes(c, "open") /\ conn' = c /\ UNCHANGED mu
     ELSE /\ mu' = c
          /\ Becomes(conn, IF sock[conn] = "open" THEN "closing" ELSE sock[conn])
          /\ UNCHANGED conn
  /\ UNCHANGED <<reader, asked, said, apiVars, pending, slot>>

\* The old one is closed, by agreement or after 5 s.
Replace(c) ==
  /\ mu = c /\ c # 0
  /\ sock' = [sock EXCEPT ![c] = "open",
                          ![conn] = IF sock[conn] = "closing" THEN "shut" ELSE @]
  /\ conn' = c
  /\ mu' = 0
  /\ UNCHANGED <<reader, asked, said, apiVars, pending, slot>>

ReadAnswer(c) ==
  /\ sock[c] \in {"open", "closing"} /\ reader[c] = AtRest /\ said[c] # <<>>
  /\ reader' = [reader EXCEPT ![c] = [stage |-> "read", answer |-> Head(said[c]), to |-> None]]
  /\ said' = [said EXCEPT ![c] = Tail(@)]
  /\ UNCHANGED <<sock, conn, mu, asked, apiVars, pending, slot>>

\* Mutant: it goes to any request that is pending.
LookUpAny(c) ==
  /\ reader[c].stage = "read" /\ MutexFree
  /\ \E i \in Id :
       reader' = [reader EXCEPT ![c] = IF pending[i] = None THEN AtRest
                                       ELSE [@ EXCEPT !.stage = "sending", !.to = pending[i]]]
  /\ UNCHANGED <<sock, conn, mu, asked, said, apiVars, pending, slot>>

\* An answer that nobody waits for is dropped.
LookUp(c) ==
  LET r == pending[id[reader[c].answer]] IN
  /\ reader[c].stage = "read" /\ MutexFree
  /\ reader' = [reader EXCEPT ![c] = IF r = None THEN AtRest
                                     ELSE [@ EXCEPT !.stage = "sending", !.to = r]]
  /\ UNCHANGED <<sock, conn, mu, asked, said, apiVars, pending, slot>>

\* Mutant: the channel has no buffer.
RoomWhileWaiting(r) == slot[r] = None /\ pc[r] \in {"registered", "sent"}

\* The channel holds one answer, whether or not somebody still waits.
Room(r) == slot[r] = None

Deliver(c) ==
  LET to == reader[c].to IN
  /\ reader[c].stage = "sending" /\ Room(to)
  /\ slot' = [slot EXCEPT ![to] = reader[c].answer]
  /\ reader' = [reader EXCEPT ![c] = AtRest]
  /\ UNCHANGED <<sock, conn, mu, asked, said, apiVars, pending>>

ReadEnds(c) ==
  /\ sock[c] = "shut" /\ reader[c] = AtRest
  /\ Becomes(c, "ended")
  /\ asked' = [asked EXCEPT ![c] = {}]
  /\ said' = [said EXCEPT ![c] = <<>>]
  /\ UNCHANGED <<conn, mu, reader, apiVars, pending, slot>>

\* Mutant: whoever ends clears the connection.
CleanUpAny(c) ==
  /\ sock[c] = "ended" /\ MutexFree
  /\ conn' = 0
  /\ Becomes(c, "gone")
  /\ UNCHANGED <<mu, reader, asked, said, apiVars, pending, slot>>

\* The deferred function: only its own connection is forgotten.
CleanUp(c) ==
  /\ sock[c] = "ended" /\ MutexFree
  /\ conn' = IF conn = c THEN 0 ELSE conn
  /\ Becomes(c, "gone")
  /\ UNCHANGED <<mu, reader, asked, said, apiVars, pending, slot>>

-----------------------------------------------------------------------------
(* api                                                                     *)

Moves(r, stage) == pc' = [pc EXCEPT ![r] = stage]

Stamp(r, i) ==
  /\ pc[r] = "idle"
  /\ Moves(r, "stamped")
  /\ id' = [id EXCEPT ![r] = i]
  /\ UNCHANGED <<extVars, via, got, pending, slot>>

\* Without an extension the request is refused, with 503.
Register(r) ==
  /\ pc[r] = "stamped" /\ MutexFree
  /\ IF conn = 0
     THEN Moves(r, "done") /\ UNCHANGED <<pending, via>>
     ELSE /\ Moves(r, "registered")
          /\ pending' = [pending EXCEPT ![id[r]] = r]
          /\ via' = [via EXCEPT ![r] = conn]
  /\ UNCHANGED <<extVars, id, got, slot>>

\* The request may be written and lost, if the connection has ended unnoticed.
Write(r) ==
  /\ pc[r] = "registered"
  /\ Moves(r, "sent")
  /\ asked' = IF sock[via[r]] = "open" THEN [asked EXCEPT ![via[r]] = @ \cup {r}] ELSE asked
  /\ UNCHANGED <<sock, conn, mu, reader, said, id, via, got, pending, slot>>

\* The connection has ended, or takes no data until the time is up: 502.  If the request
\* went through all the same, that is Write and then TimeOut, which end alike.
WriteFails(r) ==
  /\ pc[r] = "registered"
  /\ Moves(r, "over")
  /\ UNCHANGED <<extVars, id, via, got, pending, slot>>

TakeAnswer(r) ==
  /\ pc[r] = "sent" /\ slot[r] # None
  /\ Moves(r, "over")
  /\ got' = [got EXCEPT ![r] = slot[r]]
  /\ slot' = [slot EXCEPT ![r] = None]
  /\ UNCHANGED <<extVars, id, via, pending>>

\* Mutant: after half the time the request is written once more.
TimeOutRetried(r) ==
  /\ pc[r] = "sent"
  /\ Moves(r, "registered")
  /\ UNCHANGED <<extVars, id, via, got, pending, slot>>

\* Mutant: nobody looks at the time.
TimeOutNever(r) == pc[r] = "never" /\ UNCHANGED browserVars

\* 15 s have passed, or the client of browserUse has gone: 504.
TimeOut(r) ==
  /\ pc[r] = "sent"
  /\ Moves(r, "over")
  /\ UNCHANGED <<extVars, id, via, got, pending, slot>>

\* The deferred delete takes away what is there under this id.
Unregister(r) ==
  /\ pc[r] = "over" /\ MutexFree
  /\ Moves(r, "done")
  /\ pending' = [pending EXCEPT ![id[r]] = None]
  /\ UNCHANGED <<extVars, id, via, got, slot>>

-----------------------------------------------------------------------------
(* The extension                                                           *)

Answer(c, r) ==
  /\ sock[c] = "open" /\ r \in asked[c]
  /\ asked' = [asked EXCEPT ![c] = @ \ {r}]
  /\ said' = [said EXCEPT ![c] = Append(@, r)]
  /\ UNCHANGED <<sock, conn, mu, reader, apiVars, pending, slot>>

\* The browser is closed, or the connection breaks.
Drop(c) ==
  /\ sock[c] \in {"open", "closing"}
  /\ Becomes(c, "shut")
  /\ UNCHANGED <<conn, mu, reader, asked, said, apiVars, pending, slot>>

-----------------------------------------------------------------------------
ApiStep(r) ==
  \/ Register(r) \/ Write(r) \/ WriteFails(r) \/ TakeAnswer(r) \/ TimeOut(r) \/ Unregister(r)

BrowserNext ==
  \/ \E c \in Conn :
       \/ Accept(c) \/ Install(c) \/ Replace(c) \/ ReadAnswer(c) \/ LookUp(c)
       \/ Deliver(c) \/ ReadEnds(c) \/ CleanUp(c) \/ Drop(c)
       \/ \E r \in Request : Answer(c, r)
  \/ \E r \in Request : (\E i \in Id : Stamp(r, i)) \/ ApiStep(r)

\* Requests go on, their time passes, and closing a connection comes to an end.
BrowserFairness ==
  /\ \A r \in Request : WF_browserVars(ApiStep(r))
  /\ \A c \in Conn : WF_browserVars(Replace(c))

BrowserSpec == BrowserInit /\ [][BrowserNext]_browserVars /\ BrowserFairness

-----------------------------------------------------------------------------
(* Properties                                                              *)

BrowserTypeOK ==
  /\ sock \in [Conn -> {"none", "accepted", "open", "closing", "shut", "ended", "gone"}]
  /\ conn \in 0 .. MaxConns
  /\ mu \in 0 .. MaxConns
  /\ reader \in [Conn -> [stage : {"reading", "read", "sending"},
                          answer : Request \cup {None}, to : Request \cup {None}]]
  /\ asked \in [Conn -> SUBSET Request]
  /\ said \in [Conn -> Seq(Request)]
  /\ pc \in [Request -> {"idle", "stamped", "registered", "sent", "over", "done"}]
  /\ id \in [Request -> Id \cup {None}]
  /\ via \in [Request -> 0 .. MaxConns]
  /\ pending \in [Id -> Request \cup {None}]
  /\ slot \in [Request -> Request \cup {None}]
  /\ got \in [Request -> Request \cup {None}]

\* The readings of the clock are what keeps requests apart.
Unshared(r) == \A s \in Request \ {r} : id[s] # id[r]

\* The reader that sends on a channel (main.go:65) never waits for room, however
\* late an answer comes and whether or not its request is over: unless another
\* request had the same reading of the clock.
ReaderNeverStuck ==
  \A c \in Conn :
    reader[c].stage = "sending" /\ Unshared(reader[c].to) => Room(reader[c].to)

\* A request returns its own answer, in whatever order the extension answers,
\* unless another request had the same reading of the clock.
AnswerIsOwn ==
  \A r \in Request : got[r] # None /\ Unshared(r) => got[r] = r

\* The connection that was installed last, and is still open, is the one that
\* requests are written to, however late those before it come to their end.
LatestServes == \A c \in Conn : sock[c] = "open" => conn = c

\* The table has an entry only for a request that is under way, also if two share
\* it: it does not grow with requests that fail.
OnlyRequestsPending ==
  \A i \in Id : pending[i] # None => pc[pending[i]] \in {"registered", "sent", "over"}

\* What becomes of a request, from where it is or where its answer is.
Replied(r) ==
  \/ \E c \in Conn : reader[c].answer = r \/ \E i \in DOMAIN said[c] : said[c][i] = r
  \/ slot[r] = r \/ got[r] = r

BrowserFate(r) ==
  CASE pc[r] \in {"idle", "stamped", "registered"} -> "unasked"
    [] pc[r] \in {"sent", "over", "done"} ->
         IF \E c \in Conn : r \in asked[c] THEN "asked"
         ELSE IF Replied(r) THEN "done" ELSE "lost"

BrowserReply(r) ==
  CASE pc[r] \notin {"over", "done"} -> "none"
    [] OTHER -> IF got[r] = None THEN "error" ELSE "answer"

BrowserRemote == INSTANCE RemoteCall WITH
  Caller <- Request,
  fate   <- [r \in Request |-> BrowserFate(r)],
  reply  <- [r \in Request |-> BrowserReply(r)]

\* api (main.go:75) and the extension: a request with a reading of its own is made
\* once, also if its answer is late or the connection is replaced meanwhile, and
\* what its caller gets as an answer was done for it.
BrowserContract ==
  /\ BrowserRemote!Init
  /\ [][\A r \in Request : Unshared(r)' => BrowserRemote!Step(r)]_browserVars

\* browser.go:32 waits for 20 s at most because the bridge answers every request,
\* with an answer of the extension or without one.
EveryRequestEnds == \A r \in Request : pc[r] = "stamped" ~> pc[r] = "done"
=============================================================================
