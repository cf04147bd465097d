-------------------------- MODULE DecisionsProofs ---------------------------
(***************************************************************************)
(* Proofs about the decisions on a call: those of the policy engine, for   *)
(* any documents and any calls, and those of the server, for any messages. *)
(***************************************************************************)
EXTENDS PolicyEngine, Admission, TLAPS

-----------------------------------------------------------------------------
(* The policy engine                                                       *)

\* Loading fills in what is missing, and leaves the rest.
LEMMA LoadedFields ==
  ASSUME NEW d \in Document, Loadable(d)
  PROVE  /\ Loaded(d).mode \in Modes
         /\ Loaded(d).maxExec \in Int /\ Loaded(d).maxExec > 0
         /\ Loaded(d).deny = d.deny /\ Loaded(d).allow = d.allow
         /\ Loaded(d).limited = d.limited /\ Loaded(d).privileged = d.privileged
         /\ Loaded(d).remote = d.remote /\ Loaded(d).sensitive = d.sensitive
<1>1. d \in [parses : BOOLEAN, mode : STRING, deny : SUBSET STRING, limited : BOOLEAN,
             allow : SUBSET STRING, privileged : BOOLEAN, remote : BOOLEAN,
             plugins : BOOLEAN, sensitive : BOOLEAN, maxExec : Int]
  BY EngineAssumption
<1>2. Loaded(d).mode = IF d.mode = "" THEN "full" ELSE d.mode
  BY <1>1 DEF Loaded
<1>3. Loaded(d).maxExec = IF d.maxExec <= 0 THEN 3600 ELSE d.maxExec
  BY <1>1 DEF Loaded, DefaultMaxExec
<1>4. /\ Loaded(d).deny = d.deny /\ Loaded(d).allow = d.allow
      /\ Loaded(d).limited = d.limited /\ Loaded(d).privileged = d.privileged
      /\ Loaded(d).remote = d.remote /\ Loaded(d).sensitive = d.sensitive
  BY <1>1 DEF Loaded
<1>5. d.maxExec \in Int
  BY <1>1
<1>6. Loaded(d).mode \in Modes
  BY <1>2 DEF Loadable, Modes
<1>7. Loaded(d).maxExec \in Int /\ Loaded(d).maxExec > 0
  BY <1>3, <1>5
<1> QED BY <1>4, <1>6, <1>7

EngineInv ==
  /\ asked \subseteq Request
  /\ \E d \in Document : Loadable(d) /\ cfg = Loaded(d)

LEMMA EngineInvariant == EngineSpec => []EngineInv
<1>1. EngineInit => EngineInv
  BY DEF EngineInit, EngineInv
<1>2. EngineInv /\ [EngineNext]_engineVars => EngineInv'
  BY DEF EngineInv, EngineNext, engineVars, Reload, BeforeCall, Answer
<1> QED BY <1>1, <1>2, PTL DEF EngineSpec

\* policy.go:79-86: a configuration in force has a known mode and a limit.
THEOREM EngineTypeCorrect == EngineSpec => []EngineTypeOK
<1>1. EngineInv => EngineTypeOK
  BY LoadedFields DEF EngineInv, EngineTypeOK
<1> QED BY <1>1, EngineInvariant, PTL

\* What is no mutation is a tool that reads, or a request.
LEMMA WhatReads ==
  ASSUME NEW tool \in STRING, ~ IsMutation(tool)
  PROVE  tool \in ReadOnlyHint \cup {"fs_list", "network_request"}
<1>1. CASE tool \in FsTool
  BY <1>1 DEF IsMutation, FsTool, ReadOnlyHint, FsHint
<1>2. CASE tool \in StateTool
  BY <1>2 DEF IsMutation, StateTool, FsTool, ReadOnlyHint, StateHint
<1>3. CASE tool \notin FsTool \cup StateTool
  <2>1. tool \in ReadingTool
    BY <1>3 DEF IsMutation
  <2> QED
    BY <2>1 DEF ReadingTool, ReadOnlyHint, TargetHint, JobHint, ProcessHint, SystemHint,
                GovernanceHint, DesktopHint, AssistantHint
<1> QED BY <1>1, <1>2, <1>3

\* policy.go:144, 161: readonly mode lets through only what reads.
THEOREM EngineReadonlyOnlyReads == EngineSpec => []ReadonlyOnlyReads
<1>1. EngineInv => ReadonlyOnlyReads
  <2> SUFFICES ASSUME EngineInv, NEW call \in asked, cfg.mode = "readonly", ~ Refused(cfg, call)
               PROVE  \/ call.tool \in ReadOnlyHint \cup {"fs_list"}
                      \/ call.tool = "network_request" /\ Performed(call.method) \in ReadMethods
    BY DEF ReadonlyOnlyReads
  <2>1. call.tool \in STRING
    BY EngineAssumption DEF EngineInv
  <2>2. ~ IsMutation(call.tool)
    BY DEF Refused
  <2>3. call.tool = "network_request" => Performed(call.method) \in ReadMethods
    BY DEF Refused, Performed, ReadMethods
  <2> QED BY <2>1, <2>2, <2>3, WhatReads
<1> QED BY <1>1, EngineInvariant, PTL

\* policy.go:199: what safe mode refuses is among what readonly mode refuses.
LEMMA HighImpactMutates ==
  ASSUME NEW tool \in STRING, IsHighImpact(tool) PROVE IsMutation(tool)
<1>1. tool \notin StateTool /\ tool \notin ReadingTool
  BY DEF IsHighImpact, StateTool, ReadingTool
<1>2. tool \in FsTool => tool = "fs_remove"
  BY DEF IsHighImpact, FsTool
<1> QED BY <1>1, <1>2 DEF IsMutation

\* policy.go:144-151: full, safe and readonly are nested.
THEOREM EngineModesNested == EngineSpec => []ModesNested
<1>1. EngineInv => ModesNested
  <2> SUFFICES ASSUME EngineInv, NEW call \in asked
               PROVE  /\ Refused([cfg EXCEPT !.mode = "full"], call) =>
                           Refused([cfg EXCEPT !.mode = "safe"], call)
                      /\ Refused([cfg EXCEPT !.mode = "safe"], call) =>
                           Refused([cfg EXCEPT !.mode = "readonly"], call)
    BY DEF ModesNested
  <2>1. call.tool \in STRING
    BY EngineAssumption DEF EngineInv
  <2>2. PICK d \in Document : cfg = Loaded(d)
    BY DEF EngineInv
  <2>3. \A m \in Modes :
          LET c == [cfg EXCEPT !.mode = m] IN
          /\ c.mode = m /\ c.deny = cfg.deny /\ c.limited = cfg.limited /\ c.allow = cfg.allow
          /\ c.sensitive = cfg.sensitive /\ c.privileged = cfg.privileged
          /\ c.remote = cfg.remote /\ c.maxExec = cfg.maxExec
    BY <2>2, EngineAssumption DEF Loaded
  <2>4. IsHighImpact(call.tool) => IsMutation(call.tool)
    BY <2>1, HighImpactMutates
  <2> QED BY <2>3, <2>4 DEF Refused, ListsRefuse, Modes
<1> QED BY <1>1, EngineInvariant, PTL

\* policy.go:127-172: taking a permission away admits no further call.
THEOREM EngineTighterRefusesMore == EngineSpec => []TighterRefusesMore
<1>1. EngineInv => TighterRefusesMore
  <2> SUFFICES ASSUME EngineInv, NEW call \in asked, NEW doc \in Document,
                      Loadable(doc), Tighter(Loaded(doc), cfg), Refused(cfg, call)
               PROVE  Refused(Loaded(doc), call)
    BY DEF TighterRefusesMore
  <2>1. call.seconds \in Int
    BY EngineAssumption DEF EngineInv
  <2>2. cfg.maxExec \in Int /\ Loaded(doc).maxExec \in Int
    BY LoadedFields DEF EngineInv
  <2>3. ListsRefuse(cfg, call) => ListsRefuse(Loaded(doc), call)
    BY DEF ListsRefuse, Tighter
  <2>4. call.seconds > cfg.maxExec => call.seconds > Loaded(doc).maxExec
    BY <2>1, <2>2 DEF Tighter
  <2> QED BY <2>3, <2>4 DEF Refused, Tighter
<1> QED BY <1>1, EngineInvariant, PTL

-----------------------------------------------------------------------------
(* The server                                                              *)

AdmissionInv ==
  /\ strict \in BOOLEAN /\ compat \in BOOLEAN
  /\ message \subseteq Message
  /\ message = {} => reply = Reply("accepted", "")
  /\ \A m \in message : reply \in {Posted(strict, m), Line(strict, m)}

LEMMA AdmissionInvariant == AdmissionSpec => []AdmissionInv
<1>1. AdmissionInit => AdmissionInv
  BY DEF AdmissionInit, AdmissionInv
<1>2. AdmissionInv /\ [AdmissionNext]_admissionVars => AdmissionInv'
  <2> SUFFICES ASSUME AdmissionInv, [AdmissionNext]_admissionVars PROVE AdmissionInv'
    OBVIOUS
  <2>1. ASSUME NEW m \in Message, HandlePOST(m) \/ ServeLine(m) PROVE AdmissionInv'
    <3>1. /\ message' = {m} /\ strict' = strict /\ compat' = compat
          /\ reply' = Posted(strict, m) \/ reply' = Line(strict, m)
      BY <2>1 DEF HandlePOST, ServeLine
    <3>2. Posted(strict, m)' = Posted(strict, m) /\ Line(strict, m)' = Line(strict, m)
      BY <3>1 DEF Posted, Line, Dispatch, Protocol, Compatible, Supplied, Arguments, ReasonOK, Reply
    <3> QED BY <3>1, <3>2 DEF AdmissionInv
  <2>2. CASE NextMessage
    BY <2>2 DEF NextMessage, AdmissionInv
  <2>3. CASE UNCHANGED admissionVars
    <3>1. UNCHANGED <<strict, compat, message, reply>>
      BY <2>3 DEF admissionVars
    <3>2. \A m \in message : /\ Posted(strict, m)' = Posted(strict, m)
                             /\ Line(strict, m)' = Line(strict, m)
      BY <3>1 DEF Posted, Line, Dispatch, Protocol, Compatible, Supplied, Arguments, ReasonOK, Reply
    <3> QED BY <3>1, <3>2 DEF AdmissionInv, Reply
  <2> QED BY <2>1, <2>2, <2>3 DEF AdmissionNext
<1> QED BY <1>1, <1>2, PTL DEF AdmissionSpec

\* Whatever is not dispatched is refused or accepted.
LEMMA PostedOrLine ==
  ASSUME AdmissionInv, NEW m \in message
  PROVE  \/ \E k \in Errors \cup {"accepted"} : reply = Reply(k, "")
         \/ \E p \in {"modern", "legacy"} : reply = Dispatch(strict, m, p)
<1>1. Protocol(strict, m) \in {"modern", "legacy", "refused"}
  BY DEF Protocol
<1>2. CASE reply = Posted(strict, m)
  BY <1>1, <1>2 DEF Posted, Errors
<1>3. CASE reply = Line(strict, m)
  BY <1>3 DEF Line, Errors
<1> QED BY <1>2, <1>3 DEF AdmissionInv

\* What a method is answered: a call that is executed had a reason that is valid.
LEMMA Dispatched ==
  ASSUME NEW m \in Message, NEW p \in {"modern", "legacy"}
  PROVE  \/ \E k \in Errors \cup {"result"}, h \in {"", "modern", "legacy"} :
              Dispatch(strict, m, p) = Reply(k, h)
         \/ /\ ReasonOK(Compatible(strict, m))
            /\ Dispatch(strict, m, p) = Reply("executed", Compatible(strict, m).reasons[1])
  BY DEF Dispatch, Errors

\* server.go:241: strictness refuses and changes nothing else.
THEOREM ServerStrictOnlyRefuses == AdmissionSpec => []StrictOnlyRefuses
<1>1. AdmissionInv => StrictOnlyRefuses
  <2> SUFFICES ASSUME AdmissionInv, NEW m \in message, Posted(TRUE, m).kind \notin Errors
               PROVE  Posted(FALSE, m) = Posted(TRUE, m)
    BY DEF StrictOnlyRefuses
  <2>1. m.form \notin {"unparsed", "invalid"} /\ Protocol(TRUE, m) # "refused"
    BY DEF Posted, Errors, Reply
  <2>2. Protocol(FALSE, m) = Protocol(TRUE, m)
    BY <2>1 DEF Protocol
  <2>3. CASE ~ m.id
    BY <2>1, <2>2, <2>3 DEF Posted, Errors, Reply
  <2>4. CASE m.id
    <3>1. Posted(TRUE, m) = Dispatch(TRUE, m, Protocol(TRUE, m))
          /\ Posted(FALSE, m) = Dispatch(FALSE, m, Protocol(TRUE, m))
      BY <2>1, <2>2, <2>4 DEF Posted, Errors, Reply
    <3>2. CASE Compatible(TRUE, m) = Compatible(FALSE, m)
      BY <3>1, <3>2 DEF Dispatch
    <3>3. CASE Compatible(TRUE, m) # Compatible(FALSE, m)
      <4>1. Compatible(TRUE, m) = Arguments(m) /\ m.reasons = <<>>
        BY <3>3 DEF Compatible, Supplied
      <4>2. Compatible(TRUE, m).reasons = <<>>
        <5>1. Arguments(m).reasons = m.reasons
          BY DEF Arguments
        <5> QED BY <5>1, <4>1
      <4>3. ~ ReasonOK(Compatible(TRUE, m))
        <5>1. Len(<<>>) # 1
          OBVIOUS
        <5> QED BY <5>1, <4>2 DEF ReasonOK
      <4>4. m.method = "tools/call" /\ m.known =>
              Dispatch(TRUE, m, Protocol(TRUE, m)) = Reply("no reason", "")
        BY <4>3 DEF Dispatch
      <4>5. ~ (m.method = "tools/call" /\ m.known)
        <5>1. Reply("no reason", "").kind \in Errors
          BY DEF Errors, Reply
        <5> QED BY <5>1, <3>1, <4>4
      <4> QED BY <3>1, <4>5 DEF Dispatch
    <3> QED BY <3>2, <3>3
  <2> QED BY <2>3, <2>4
<1> QED BY <1>1, AdmissionInvariant, PTL

\* server.go:141, 458: both transports do the same with a valid request.
THEOREM ServerTransportsAgree == AdmissionSpec => []TransportsAgree
<1>1. AdmissionInv => TransportsAgree
  <2> SUFFICES ASSUME AdmissionInv, NEW m \in message, m.form = "ok", m.header = Unstated
               PROVE  Line(FALSE, m) = Posted(FALSE, m)
    BY DEF TransportsAgree
  <2>1. Protocol(FALSE, m) = IF m.body = Latest THEN "modern" ELSE "legacy"
    BY DEF Protocol, Unstated, Latest, SupportedLegacy
  <2>2. Dispatch(FALSE, m, "legacy") = Dispatch(FALSE, m, "modern")
          \/ m.method # "server/discover"
    BY DEF Dispatch
  <2> QED BY <2>1, <2>2 DEF Line, Posted
<1> QED BY <1>1, AdmissionInvariant, PTL

\* server.go:372: a call is executed only for a reason that its client has given,
\* or, where that is allowed, for the fallback when there is none.
THEOREM ServerReasonIsClients == AdmissionSpec => []ReasonIsClients
<1>1. AdmissionInv => ReasonIsClients
  <2> SUFFICES ASSUME AdmissionInv, NEW m \in message, reply.kind = "executed"
               PROVE  /\ m.reasons # <<>> => m.reasons = <<"own">> /\ reply.how = "own"
                      /\ reply.how = "fallback" =>
                           {m.beside, m.meta} = {Unstated} /\ compat /\ ~ strict
    BY DEF ReasonIsClients
  <2>1. m \in Message /\ MessageOK(m)
    BY AdmissionAssumption DEF AdmissionInv
  <2>2. \E p \in {"modern", "legacy"} : reply = Dispatch(strict, m, p)
    <3>1. \/ \E k \in Errors \cup {"accepted"} : reply = Reply(k, "")
          \/ \E p \in {"modern", "legacy"} : reply = Dispatch(strict, m, p)
      BY PostedOrLine
    <3>2. \A k \in Errors \cup {"accepted"} : Reply(k, "").kind # "executed"
      BY DEF Reply, Errors
    <3> QED BY <3>1, <3>2
  <2>3. /\ ReasonOK(Compatible(strict, m))
        /\ reply.how = Compatible(strict, m).reasons[1]
    <3>1. \/ \E k \in Errors \cup {"result"}, h \in {"", "modern", "legacy"} : reply = Reply(k, h)
          \/ /\ ReasonOK(Compatible(strict, m))
             /\ reply = Reply("executed", Compatible(strict, m).reasons[1])
      BY <2>1, <2>2, Dispatched
    <3>2. \A k \in Errors \cup {"result"}, h \in {"", "modern", "legacy"} :
            Reply(k, h).kind # "executed"
      BY DEF Reply, Errors
    <3>3. \A how : Reply("executed", how).how = how
      BY DEF Reply
    <3> QED BY <3>1, <3>2, <3>3
  <2>4. CASE m.reasons # <<>>
    <3>1. Compatible(strict, m) = [shape |-> m.shape, reasons |-> m.reasons]
      BY <2>4 DEF Compatible, Arguments
    <3>2. Len(m.reasons) = 1 /\ m.reasons[1] \in {"own", "bad"} /\ m.reasons[1] \in Texts
      BY <2>1, <2>3, <3>1 DEF ReasonOK, MessageOK
    <3>3. m.reasons[1] = "own"
      BY <3>2 DEF Texts
    <3>4. m.reasons = <<"own">>
      BY <2>1, <3>2, <3>3 DEF MessageOK
    <3> QED BY <2>3, <3>1, <3>3, <3>4
  <2>5. CASE m.reasons = <<>>
    <3>1. Compatible(strict, m) # Arguments(m)
      BY <2>3, <2>5 DEF Arguments, ReasonOK
    <3>2. Compatible(strict, m).reasons[1] = Supplied(strict, m)
      BY <3>1 DEF Compatible
    <3> QED BY <2>1, <2>3, <2>5, <3>2 DEF Supplied, MessageOK, Unstated
  <2> QED BY <2>4, <2>5
<1> QED BY <1>1, AdmissionInvariant, PTL

\* Every variable of the server's decision has its type.
THEOREM AdmissionTypeCorrect == AdmissionSpec => []AdmissionTypeOK
<1>1. AdmissionInv => AdmissionTypeOK
  <2> SUFFICES ASSUME AdmissionInv
               PROVE  /\ reply.kind \in Errors \cup {"accepted", "result", "executed"}
                      /\ reply.how \in Texts \cup {"", "modern", "legacy"}
    BY DEF AdmissionInv, AdmissionTypeOK
  <2>1. \E k \in Errors \cup {"accepted", "result", "executed"},
            h \in Texts \cup {"", "modern", "legacy"} : reply = Reply(k, h)
    <3>1. CASE message = {}
      BY <3>1 DEF AdmissionInv
    <3>2. ASSUME NEW m \in message
          PROVE  \E k \in Errors \cup {"accepted", "result", "executed"},
                    h \in Texts \cup {"", "modern", "legacy"} : reply = Reply(k, h)
      <4>1. CASE \E k \in Errors \cup {"accepted"} : reply = Reply(k, "")
        BY <4>1
      <4>2. CASE \E p \in {"modern", "legacy"} : reply = Dispatch(strict, m, p)
        <5>1. m \in Message
          BY DEF AdmissionInv
        <5>2. ReasonOK(Compatible(strict, m)) => Compatible(strict, m).reasons[1] \in Texts
          BY DEF ReasonOK
        <5>3. PICK p \in {"modern", "legacy"} : reply = Dispatch(strict, m, p)
          BY <4>2
        <5>4. CASE \E k \in Errors \cup {"result"}, h \in {"", "modern", "legacy"} : reply = Reply(k, h)
          BY <5>4
        <5>5. CASE /\ ReasonOK(Compatible(strict, m))
                   /\ reply = Reply("executed", Compatible(strict, m).reasons[1])
          BY <5>2, <5>5
        <5> QED BY <5>1, <5>3, <5>4, <5>5, Dispatched
      <4> QED BY <4>1, <4>2, PostedOrLine
    <3> QED BY <3>1, <3>2
  <2>2. PICK k \in Errors \cup {"accepted", "result", "executed"},
             h \in Texts \cup {"", "modern", "legacy"} : reply = Reply(k, h)
    BY <2>1
  <2>3. reply.kind = k /\ reply.how = h
    BY <2>2 DEF Reply
  <2> QED BY <2>3
<1> QED BY <1>1, AdmissionInvariant, PTL
=============================================================================
