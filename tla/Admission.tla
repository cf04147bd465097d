----------------------------- MODULE Admission ------------------------------
(***************************************************************************)
(* How the server decides what becomes of a message: the checks of the     *)
(* two transports and of the protocol version, the dispatch to a method,   *)
(* and for a tool call the reason that every call must state               *)
(* (internal/mcp/server.go and internal/registry/registry.go).             *)
(*                                                                         *)
(* A message is described by what those checks tell apart.  A reason is    *)
(* named by the place where the client put it, and is "bad" where it is    *)
(* not a text or is blank.  Tools, policy and audit are in ToolCalls.      *)
(***************************************************************************)
EXTENDS Naturals, Sequences

CONSTANT Message   \* the messages that may come

VARIABLES
  strict,    \* Server.Strict
  compat,    \* Server.CompatMissingReason
  message,   \* the last message, as a set of at most one
  reply      \* what was answered to it

admissionVars == <<strict, compat, message, reply>>

Latest == "latest"
Unstated == ""
SupportedLegacy == {"legacy", "older"}

Methods == {"server/discover", "initialize", "tools/list", "tools/call", "ping", "other"}

Shapes == {"absent", "null", "list", "object"}

Texts == {"own", "beside", "meta", "fallback"}

MessageOK(m) ==
  /\ m.form \in {"unparsed", "invalid", "ok"}      \* JSON at all; JSON-RPC 2.0 with a method
  /\ m.id \in BOOLEAN                              \* a request, not a notification
  /\ m.method \in Methods
  /\ {m.header, m.body} \subseteq SupportedLegacy \cup {Latest, Unstated, "unknown"}
  /\ m.mirrored \in BOOLEAN                        \* Mcp-Method and Mcp-Name say the same
  /\ m.known \in BOOLEAN                           \* the tool exists
  /\ m.shape \in Shapes                            \* of the arguments
  /\ m.reasons \in Seq({"own", "bad"})             \* in the arguments, repeated members too
  /\ m.shape # "object" => m.reasons = <<>>
  /\ m.beside \in {Unstated, "beside", "bad"}      \* params.reason
  /\ m.meta \in {Unstated, "meta", "bad"}          \* params._meta.reason

ASSUME AdmissionAssumption == \A m \in Message : MessageOK(m)

Reply(kind, how) == [kind |-> kind, how |-> how]

Errors == {"parse error", "invalid request", "version", "mirror", "no method", "no tool", "no reason"}

-----------------------------------------------------------------------------
(* The protocol version                                                    *)

\* Mutant: without a header the client is taken for a legacy one.
ProtocolByHeader(isStrict, m) ==
  IF m.header = Latest
  THEN IF m.body = Latest \/ (m.body = Unstated /\ ~ isStrict) THEN "modern" ELSE "refused"
  ELSE IF m.header \in SupportedLegacy \cup {Unstated} THEN "legacy" ELSE "refused"

\* detectProtocol: one mention of the latest version makes the request a modern
\* one, and then the other must not contradict it.
Protocol(isStrict, m) ==
  LET stated == {m.header, m.body} \ {Unstated} IN
  IF Latest \in stated
  THEN IF stated = {Latest} /\ (isStrict => Unstated \notin {m.header, m.body})
       THEN "modern" ELSE "refused"
  ELSE IF m.header \in SupportedLegacy \cup {Unstated} THEN "legacy" ELSE "refused"

-----------------------------------------------------------------------------
(* The reason of a call                                                    *)

\* What Registry.Call gets: arguments with the reasons that are in them.
Arguments(m) == [shape |-> m.shape, reasons |-> m.reasons]

\* Mutant: the fallback is preferred where it is configured.
SuppliedLast(isStrict, m) ==
  CASE compat /\ ~ isStrict -> "fallback"
    [] (~ compat \/ isStrict) /\ m.beside # Unstated -> m.beside
    [] OTHER -> m.meta

\* The reason a client has put beside the arguments.
Supplied(isStrict, m) ==
  CASE m.beside # Unstated -> m.beside
    [] m.beside = Unstated /\ m.meta # Unstated -> m.meta
    [] OTHER -> IF compat /\ ~ isStrict THEN "fallback" ELSE Unstated

\* Mutant: the fallback repairs what is not valid.
CompatibleRepaired(isStrict, m) ==
  LET reason == Supplied(isStrict, m) IN
  IF m.shape \in {"null", "list"} \/ m.reasons = <<"own">> \/ reason = Unstated
  THEN Arguments(m)
  ELSE [shape |-> "object", reasons |-> <<reason>>]

\* compatibleArguments: a reason in the arguments stays, a bad one too.
Compatible(isStrict, m) ==
  LET reason == Supplied(isStrict, m) IN
  IF m.shape \in {"null", "list"} \/ m.reasons # <<>> \/ reason = Unstated
  THEN Arguments(m)
  ELSE [shape |-> "object", reasons |-> <<reason>>]

\* validateReason: an object with one reason, which is a text.
ReasonOK(args) ==
  args.shape = "object" /\ Len(args.reasons) = 1 /\ args.reasons[1] \in Texts

-----------------------------------------------------------------------------
\* dispatch: what is answered by each method, and in which form.  An executed call
\* is named by the reason that the interceptors see.
Dispatch(isStrict, m, protocol) ==
  LET args == Compatible(isStrict, m) IN
  CASE m.method = "server/discover" -> Reply("result", "modern")
    [] m.method = "initialize" -> Reply("result", "legacy")
    [] m.method = "tools/list" -> Reply("result", protocol)
    [] m.method = "ping" -> IF protocol = "modern" THEN Reply("no method", "") ELSE Reply("result", "legacy")
    [] m.method = "tools/call" ->
         IF ~ m.known THEN Reply("no tool", "")
         ELSE IF ReasonOK(args) THEN Reply("executed", args.reasons[1])
         ELSE Reply("no reason", "")
    [] OTHER -> Reply("no method", "")

\* handlePOST, in the order of its checks.
Posted(isStrict, m) ==
  LET protocol == Protocol(isStrict, m) IN
  CASE m.form = "unparsed" -> Reply("parse error", "")
    [] m.form = "invalid" -> Reply("invalid request", "")
    [] OTHER ->
       IF protocol = "refused" THEN Reply("version", "")
       ELSE IF isStrict /\ protocol = "modern" /\ ~ m.mirrored THEN Reply("mirror", "")
       ELSE IF ~ m.id THEN Reply("accepted", "")
       ELSE Dispatch(isStrict, m, protocol)

\* ServeStdio, for one line: there are no headers, and a wrong version is not
\* refused.  What is no valid request is dispatched all the same.
Line(isStrict, m) ==
  CASE m.form = "unparsed" -> Reply("parse error", "")
    [] m.form # "unparsed" /\ ~ m.id -> Reply("accepted", "")
    [] OTHER -> Dispatch(isStrict, m, IF m.method = "server/discover" \/ m.body = Latest
                                      THEN "modern" ELSE "legacy")

-----------------------------------------------------------------------------
AdmissionInit ==
  /\ strict \in BOOLEAN /\ compat \in BOOLEAN
  /\ message = {} /\ reply = Reply("accepted", "")

HandlePOST(m) ==
  /\ message = {}
  /\ message' = {m}
  /\ reply' = Posted(strict, m)
  /\ UNCHANGED <<strict, compat>>

ServeLine(m) ==
  /\ message = {} /\ m.header = Unstated
  /\ message' = {m}
  /\ reply' = Line(strict, m)
  /\ UNCHANGED <<strict, compat>>

NextMessage ==
  /\ message # {}
  /\ message' = {} /\ reply' = Reply("accepted", "")
  /\ UNCHANGED <<strict, compat>>

AdmissionNext ==
  \/ \E m \in Message : HandlePOST(m) \/ ServeLine(m)
  \/ NextMessage

AdmissionSpec == AdmissionInit /\ [][AdmissionNext]_admissionVars

-----------------------------------------------------------------------------
(* Properties                                                              *)

AdmissionTypeOK ==
  /\ strict \in BOOLEAN /\ compat \in BOOLEAN
  /\ message \subseteq Message
  /\ reply.kind \in Errors \cup {"accepted", "result", "executed"}
  /\ reply.how \in Texts \cup {"", "modern", "legacy"}

\* What a strict server does for a message, one that is not strict does in the same
\* way: strictness refuses more, and changes nothing else.
StrictOnlyRefuses ==
  \A m \in message :
    Posted(TRUE, m).kind \notin Errors => Posted(FALSE, m) = Posted(TRUE, m)

\* The two transports do the same with a valid request, as long as the server is
\* not strict and the client states no version in a header.
TransportsAgree ==
  \A m \in message :
    m.form = "ok" /\ m.header = Unstated /\ ~ strict => Line(FALSE, m) = Posted(FALSE, m)

\* compatibleArguments (server.go:366): a reason in the arguments "always wins", a
\* bad one too, and the fallback never passes for "client-supplied intent".
ReasonIsClients ==
  \A m \in message :
    reply.kind = "executed" =>
      /\ m.reasons # <<>> => m.reasons = <<"own">> /\ reply.how = "own"
      /\ reply.how = "fallback" => {m.beside, m.meta} = {Unstated} /\ compat /\ ~ strict
=============================================================================
