--------------------------- MODULE BackendsProofs ---------------------------
(***************************************************************************)
(* Proofs about the backends that tools share, StdioHelper and             *)
(* BrowserBridge, for any numbers of calls, helpers, requests, clock       *)
(* readings and connections.                                               *)
(***************************************************************************)
EXTENDS StdioHelper, BrowserBridge, SequenceTheorems, TLAPS

-----------------------------------------------------------------------------
(* The helper process                                                      *)

CallRecord ==
  [pc : {"idle", "waiting", "locked", "hello", "ready", "asked", "done", "failed"},
   expired : BOOLEAN, want : Nat, serial : 0 .. MaxCalls, got : Nat, sig : Signature]

\* One call at a time has the mutex.
Turns ==
  \A c, d \in Client : call[c].pc \in Locked /\ call[d].pc \in Locked => c = d

\* The helper's own requests apart, ids are given out in order; what is under way with
\* the last one is the question of the call that waits for it, or a response to it.
Asked(i) == i \in DOMAIN inbox

Answered(i) == i \in DOMAIN outbox /\ outbox[i].kind \in {"answer", "error"}

Numbered ==
  /\ \A i : Asked(i) => inbox[i].id <= nextID
  /\ \A i : Answered(i) => outbox[i].id <= nextID

OfCall(c) ==
  /\ \A i : Asked(i) /\ inbox[i].id = nextID => inbox[i].serial = call[c].serial
  /\ \A i : Answered(i) /\ outbox[i].id = nextID => outbox[i].serial = call[c].serial

Questions ==
  /\ Numbered
  /\ current # 0 => nextID >= 1
  /\ \A c \in Client : At(c, "asked") => call[c].want = nextID /\ OfCall(c)

\* A helper that has failed a call is neither used nor started again.
Casualties ==
  \A h \in Helper : victims[h] <= 1 /\ (victims[h] # 0 => h <= started /\ h # current)

HelperInv ==
  /\ HelperTypeOK
  /\ desktop \in [bus : Bus, display : Display] /\ version \in Version
  /\ Turns /\ Questions /\ Casualties
  /\ OneHelper /\ RightDesktop /\ AnswersMatch

\* The signature of any environment has its type, and so has an idle call.
LEMMA SignatureTyped ==
  ASSUME desktop \in [bus : Bus, display : Display], version \in Version
  PROVE  SignatureNow \in Signature /\ NoCall.sig \in Signature
<1>1. EnvironmentNow \in Environment
  BY DEF EnvironmentNow, Environment
<1>2. SignatureNow \in Signature
  BY <1>1 DEF SignatureNow, Signature
<1>3. NoCall.sig = CHOOSE s \in Signature : TRUE
  BY DEF NoCall
<1> QED BY <1>2, <1>3

LEMMA HelperInvInit == HelperInit => HelperInv
<1> SUFFICES ASSUME HelperInit PROVE HelperInv
  OBVIOUS
<1>1. SignatureNow \in Signature /\ NoCall.sig \in Signature
  BY SignatureTyped DEF HelperInit
<1>2. /\ NoCall.pc = "idle" /\ NoCall.serial = 0 /\ NoCall.got = 0
      /\ NoCall \in [pc : {"idle"}, expired : BOOLEAN, want : Nat, serial : {0}, got : Nat,
                     sig : Signature]
  BY <1>1 DEF NoCall
<1>3. HelperTypeOK
  <2>1. call \in [Client -> CallRecord]
    BY <1>2, HelperAssumption DEF HelperInit, CallRecord
  <2> QED BY <2>1, <1>1, HelperAssumption DEF HelperInit, HelperTypeOK, Helper, CallRecord
<1> QED BY <1>2, <1>3
        DEF HelperInit, HelperInv, Turns, Questions, Numbered, OfCall, Asked, Answered, Casualties,
            OneHelper, RightDesktop, AnswersMatch, At, Locked, Helper

\* The elements of a sequence.
LEMMA Elements ==
  ASSUME NEW S, NEW s \in Seq(S)
  PROVE  \A i \in DOMAIN s : s[i] \in S
  OBVIOUS

\* What is left of a sequence, and what is added to it.
LEMMA TailElements ==
  ASSUME NEW S, NEW s \in Seq(S), s # <<>>
  PROVE  /\ Tail(s) \in Seq(S) /\ Head(s) \in S /\ Head(s) = s[1] /\ 1 \in DOMAIN s
         /\ \A i \in DOMAIN Tail(s) : i + 1 \in DOMAIN s /\ Tail(s)[i] = s[i + 1]
  OBVIOUS

LEMMA AppendElements ==
  ASSUME NEW S, NEW s \in Seq(S), NEW e \in S
  PROVE  /\ Append(s, e) \in Seq(S)
         /\ \A i \in DOMAIN Append(s, e) :
              \/ i \in DOMAIN s /\ Append(s, e)[i] = s[i]
              \/ i = Len(s) + 1 /\ Append(s, e)[i] = e
  OBVIOUS

\* A step of one call that leaves the helper as it is, and reads at most one of its
\* messages.
LEMMA CallOnly ==
  ASSUME HelperInv, NEW c \in Client,
         UNCHANGED <<world, current, born, nextID, started, alive, inbox, noise, victims>>,
         outbox' = outbox \/ (outbox # <<>> /\ outbox' = Tail(outbox)),
         calls' \in 0 .. MaxCalls,
         call' = [call EXCEPT ![c] = call'[c]], call'[c] \in CallRecord,
         call'[c].pc \in Locked => call[c].pc \in Locked \/ TurnFree,
         call'[c].pc \in {"hello", "ready", "asked"} =>
           current # 0 /\ born[current].env = call'[c].sig.env,
         call'[c].pc = "asked" =>
           call[c].pc = "asked" /\ call'[c].serial = call[c].serial /\ call'[c].want = call[c].want,
         call'[c].pc = "done" => call'[c].got = call'[c].serial
  PROVE  HelperInv'
<1>1. \A d \in Client \ {c} : call'[d] = call[d]
  BY DEF HelperInv, HelperTypeOK
<1>2. outbox' \in Seq(Message) /\ \A i \in DOMAIN outbox' : \E k \in DOMAIN outbox : outbox'[i] = outbox[k]
  <2>1. outbox \in Seq(Message)
    BY DEF HelperInv, HelperTypeOK
  <2>2. CASE outbox' = outbox
    BY <2>1, <2>2
  <2>3. CASE outbox # <<>> /\ outbox' = Tail(outbox)
    BY <2>1, <2>3, TailElements
  <2> QED BY <2>2, <2>3
<1>3. call' \in [Client -> CallRecord]
  <2>1. call \in [Client -> CallRecord]
    BY DEF HelperInv, HelperTypeOK, CallRecord
  <2> QED BY <2>1
<1>4. HelperTypeOK' /\ desktop' \in [bus : Bus, display : Display] /\ version' \in Version
  <2>1. SignatureNow' = SignatureNow
    BY DEF SignatureNow, EnvironmentNow, world
  <2> QED BY <2>1, <1>2, <1>3 DEF HelperInv, HelperTypeOK, CallRecord, world
<1>5. Turns'
  <2> SUFFICES ASSUME NEW d \in Client, NEW e \in Client,
                      call'[d].pc \in Locked, call'[e].pc \in Locked
               PROVE  d = e
    BY DEF Turns
  <2>1. CASE call[c].pc \in Locked
    BY <2>1, <1>1 DEF HelperInv, Turns
  <2>2. CASE call[c].pc \notin Locked
    <3>1. CASE TurnFree
      BY <3>1, <1>1 DEF TurnFree
    <3>2. CASE ~ TurnFree
      BY <2>2, <3>2, <1>1 DEF HelperInv, Turns
    <3> QED BY <3>1, <3>2
  <2> QED BY <2>1, <2>2
<1>6. Questions'
  <2>1. Numbered' /\ (current' # 0 => nextID' >= 1)
    BY <1>2 DEF HelperInv, Questions, Numbered, Asked, Answered
  <2>2. ASSUME NEW d \in Client, call'[d].pc = "asked"
        PROVE  call'[d].want = nextID' /\ OfCall(d)'
    <3>1. call[d].pc = "asked" /\ call'[d].serial = call[d].serial /\ call'[d].want = call[d].want
      BY <2>2, <1>1
    <3> QED BY <3>1, <1>2 DEF HelperInv, Questions, OfCall, Asked, Answered, At
  <2> QED BY <2>1, <2>2 DEF Questions, At
<1>7. RightDesktop' /\ AnswersMatch' /\ OneHelper' /\ Casualties'
  BY <1>1 DEF HelperInv, RightDesktop, AnswersMatch, At, OneHelper, Casualties
<1> QED BY <1>4, <1>5, <1>6, <1>7 DEF HelperInv

\* A call that is over has its type.
LEMMA EndedCall ==
  ASSUME HelperInv, NEW c \in Client, NEW to \in {"done", "failed"}, NEW g \in Nat
  PROVE  /\ Ended(c, to, g) \in CallRecord /\ Ended(c, to, g).pc = to
         /\ Ended(c, to, g).serial = call[c].serial /\ Ended(c, to, g).got = g
<1> DEFINE s == CHOOSE s \in Signature : TRUE
<1>1. s \in Signature /\ call[c].serial \in 0 .. MaxCalls
  BY SignatureTyped DEF NoCall, HelperInv, HelperTypeOK
<1> HIDE DEF s
<1>2. NoCall = [pc |-> "idle", expired |-> FALSE, want |-> 0, serial |-> 0, got |-> 0,
                sig |-> s]
  BY DEF NoCall, s
<1> QED BY <1>1, <1>2 DEF Ended, CallRecord

\* A call that fails stops the helper it used.
LEMMA FailStep ==
  ASSUME HelperInv, NEW c \in Client, call[c].pc \in Locked, Fail(c),
         UNCHANGED <<world, born, started, noise, calls>>, nextID' \in {nextID, nextID + 1}
  PROVE  HelperInv'
<1>1. /\ \A d \in Client \ {c} : call'[d] = call[d] /\ call'[d].pc \notin Locked
      /\ call'[c] = Ended(c, "failed", 0)
  BY DEF Fail, Ends, HelperInv, HelperTypeOK, Turns
<1>2. call[c] \in CallRecord
  BY DEF HelperInv, HelperTypeOK, CallRecord
<1>3. call'[c] \in CallRecord /\ call'[c].pc = "failed"
  BY <1>1, <1>2, EndedCall
<1>4. current' = 0 /\ alive' = {} /\ inbox' = <<>> /\ outbox' = <<>>
  BY DEF Fail, StopLocked, HelperInv, OneHelper
<1>5. HelperTypeOK' /\ desktop' \in [bus : Bus, display : Display] /\ version' \in Version
  <2>1. SignatureNow' = SignatureNow
    BY DEF SignatureNow, EnvironmentNow, world
  <2>2. call' \in [Client -> CallRecord]
    BY <1>1, <1>3 DEF Fail, Ends, HelperInv, HelperTypeOK, CallRecord
  <2>3. victims' \in [Helper -> Nat]
    BY DEF Fail, HelperInv, HelperTypeOK
  <2>4. nextID' \in Nat /\ 0 \in 0 .. started
    BY HelperAssumption DEF HelperInv, HelperTypeOK
  <2> QED BY <2>1, <2>2, <2>3, <2>4, <1>4 DEF HelperInv, HelperTypeOK, CallRecord, world
<1>6. Turns' /\ Questions' /\ OneHelper' /\ RightDesktop' /\ AnswersMatch'
  <2>1. \A d \in Client : call'[d].pc \notin Locked
    BY <1>1, <1>3 DEF Locked
  <2>2. Numbered' /\ current' = 0
    BY <1>4 DEF Numbered, Asked, Answered
  <2>3. Questions'
    BY <2>1, <2>2 DEF Questions, At, Locked
  <2>4. AnswersMatch'
    BY <1>1, <1>3 DEF HelperInv, AnswersMatch, At
  <2> QED BY <2>1, <2>3, <2>4, <1>4 DEF Turns, OneHelper, RightDesktop, Locked
<1>7. Casualties'
  <2> SUFFICES ASSUME NEW h \in Helper PROVE (victims[h] <= 1 /\ (victims[h] # 0 => h <= started /\ h # current))'
    BY DEF Casualties
  <2>1. h \in Nat /\ h # 0 /\ victims[h] \in Nat /\ started \in Nat
    BY HelperAssumption DEF Helper, HelperInv, HelperTypeOK
  <2>2. CASE h = current /\ current \in Helper \ alive
    <3>1. victims[h] = 0 /\ victims'[h] = victims[h] + 1 /\ h <= started
      BY <2>1, <2>2 DEF HelperInv, HelperTypeOK, Casualties, Fail
    <3> QED BY <3>1, <2>1, <1>4
  <2>3. CASE ~ (h = current /\ current \in Helper \ alive)
    <3>1. victims'[h] = victims[h]
      BY <2>3 DEF HelperInv, HelperTypeOK, Fail
    <3> QED BY <3>1, <2>1, <1>4 DEF HelperInv, Casualties
  <2> QED BY <2>2, <2>3
<1> QED BY <1>5, <1>6, <1>7 DEF HelperInv

LEMMA StartStep ==
  ASSUME HelperInv, NEW c \in Client, Start(c)
  PROVE  HelperInv'
<1>1. call[c] \in CallRecord /\ call[c].pc = "locked" /\ call[c].sig \in Signature
      /\ version \in Version /\ started \in Nat
  BY DEF Start, At, HelperInv, HelperTypeOK, CallRecord
<1>2. /\ \A d \in Client \ {c} : call'[d] = call[d] /\ call'[d].pc \notin Locked
      /\ call'[c] = [call[c] EXCEPT !.pc = "hello", !.want = 1]
      /\ call' \in [Client -> CallRecord]
      /\ call'[c].pc = "hello" /\ call'[c].sig = call[c].sig
  <2>1. /\ call'[c] = [call[c] EXCEPT !.pc = "hello", !.want = 1]
        /\ \A d \in Client \ {c} : call'[d] = call[d]
        /\ DOMAIN call' = Client /\ call' = [d \in Client |-> call'[d]]
    BY DEF Start, HelperInv, HelperTypeOK
  <2>2. call'[c] \in CallRecord /\ call'[c].pc = "hello" /\ call'[c].sig = call[c].sig
    <3>1. call'[c] = [pc |-> "hello", expired |-> call[c].expired, want |-> 1,
                      serial |-> call[c].serial, got |-> call[c].got, sig |-> call[c].sig]
      BY <2>1, <1>1 DEF CallRecord
    <3> QED BY <3>1, <1>1 DEF CallRecord
  <2>3. \A d \in Client \ {c} : call[d] \in CallRecord
    BY DEF HelperInv, HelperTypeOK, CallRecord
  <2>4. \A d \in Client \ {c} : call[d].pc \notin Locked
    BY <1>1 DEF HelperInv, Turns, Locked
  <2> QED BY <2>1, <2>2, <2>3, <2>4
<1>3. /\ started' = started + 1 /\ current' = started + 1 /\ alive' = {started + 1}
      /\ inbox' = <<[id |-> 1, serial |-> 0]>> /\ outbox' = <<>> /\ nextID' = 1 /\ noise' = 0
      /\ started + 1 \in Helper
      /\ UNCHANGED <<world, calls, victims>>
  <2>1. alive' = {started + 1}
    <3>1. alive \subseteq {current}
      BY DEF HelperInv, OneHelper
    <3> QED BY <3>1 DEF Start
  <2>2. started + 1 \in Helper
    BY <1>1, HelperAssumption DEF Start, Helper
  <2> QED BY <2>1, <2>2 DEF Start
<1>4. /\ born' \in [Helper -> Signature]
      /\ born'[started + 1].env = call[c].sig.env
  BY <1>1, <1>3 DEF Start, HelperInv, HelperTypeOK
<1>5. HelperTypeOK' /\ desktop' \in [bus : Bus, display : Display] /\ version' \in Version
  <2>1. SignatureNow' = SignatureNow
    BY <1>3 DEF SignatureNow, EnvironmentNow, world
  <2>2. inbox' \in Seq([id : Nat, serial : Nat]) /\ outbox' \in Seq(Message)
    BY <1>3
  <2>3. started' \in 0 .. MaxHelpers /\ current' \in 0 .. started' /\ alive' \subseteq 1 .. started'
        /\ noise' \in 0 .. MaxNoise /\ nextID' \in Nat
    BY <1>1, <1>3, HelperAssumption DEF Helper
  <2> QED BY <2>1, <2>2, <2>3, <1>2, <1>3, <1>4 DEF HelperInv, HelperTypeOK, CallRecord, world
<1>6. Turns' /\ OneHelper'
  BY <1>2, <1>3 DEF Turns, OneHelper
<1>a. RightDesktop'
  <2> SUFFICES ASSUME NEW d \in Client, call'[d].pc \in {"hello", "ready", "asked"}
               PROVE  current' # 0 /\ born'[current'].env = call'[d].sig.env
    BY DEF RightDesktop
  <2>1. d = c
    BY <1>2 DEF Locked
  <2>2. current' = started + 1 /\ started + 1 # 0
    BY <1>1, <1>3
  <2> QED BY <2>1, <2>2, <1>2, <1>4
<1>b. AnswersMatch'
  BY <1>2 DEF HelperInv, AnswersMatch, At
<1>7. Questions'
  <2>1. Numbered' /\ nextID' >= 1
    BY <1>3 DEF Numbered, Asked, Answered
  <2>2. \A d \in Client : ~ At(d, "asked")'
    BY <1>2 DEF At, Locked
  <2> QED BY <2>1, <2>2 DEF Questions
<1>8. Casualties'
  <2> SUFFICES ASSUME NEW h \in Helper PROVE (victims[h] <= 1 /\ (victims[h] # 0 => h <= started /\ h # current))'
    BY DEF Casualties
  <2>1. h \in Nat
    BY HelperAssumption DEF Helper
  <2> QED BY <2>1, <1>1, <1>3 DEF HelperInv, Casualties
<1> QED BY <1>5, <1>6, <1>7, <1>8, <1>a, <1>b DEF HelperInv

LEMMA WriteCallStep ==
  ASSUME HelperInv, NEW c \in Client, WriteCall(c)
  PROVE  HelperInv'
<1>1. /\ call[c] \in CallRecord /\ call[c].pc = "ready" /\ nextID \in Nat
      /\ inbox \in Seq([id : Nat, serial : Nat]) /\ outbox \in Seq(Message)
      /\ call[c].serial \in Nat
  BY HelperAssumption DEF WriteCall, At, HelperInv, HelperTypeOK, CallRecord
<1>2. /\ nextID' = nextID + 1 /\ nextID + 1 \in Nat
      /\ inbox' = Append(inbox, [id |-> nextID + 1, serial |-> call[c].serial])
      /\ UNCHANGED <<world, current, alive, outbox, born, started, noise, calls, victims>>
  BY <1>1 DEF WriteCall
<1>3. /\ call'[c] \in CallRecord /\ call'[c].pc = "asked" /\ call'[c].want = nextID + 1
      /\ call'[c].serial = call[c].serial /\ call'[c].sig = call[c].sig
  <2>1. call'[c] = [call[c] EXCEPT !.pc = "asked", !.want = nextID + 1]
    BY DEF WriteCall, HelperInv, HelperTypeOK
  <2>2. call'[c] = [pc |-> "asked", expired |-> call[c].expired, want |-> nextID + 1,
                    serial |-> call[c].serial, got |-> call[c].got, sig |-> call[c].sig]
    BY <2>1, <1>1 DEF CallRecord
  <2> QED BY <2>2, <1>1, <1>2 DEF CallRecord
<1>4. /\ \A d \in Client \ {c} : call'[d] = call[d] /\ call[d].pc \notin Locked
      /\ call' \in [Client -> CallRecord]
  <2>1. /\ \A d \in Client \ {c} : call'[d] = call[d] /\ call[d] \in CallRecord
        /\ call' = [d \in Client |-> call'[d]]
    BY DEF WriteCall, HelperInv, HelperTypeOK, CallRecord
  <2>2. \A d \in Client \ {c} : call[d].pc \notin Locked
    BY <1>1 DEF HelperInv, Turns, Locked
  <2> QED BY <2>1, <2>2, <1>3
<1>5. /\ inbox' \in Seq([id : Nat, serial : Nat])
      /\ \A i \in DOMAIN inbox' :
           \/ i \in DOMAIN inbox /\ inbox'[i] = inbox[i]
           \/ inbox'[i] = [id |-> nextID + 1, serial |-> call[c].serial]
  <2>1. [id |-> nextID + 1, serial |-> call[c].serial] \in [id : Nat, serial : Nat]
    BY <1>1
  <2> QED BY <2>1, <1>1, <1>2, AppendElements
<1>6. HelperTypeOK' /\ desktop' \in [bus : Bus, display : Display] /\ version' \in Version
  <2>1. SignatureNow' = SignatureNow
    BY <1>2 DEF SignatureNow, EnvironmentNow, world
  <2> QED BY <2>1, <1>2, <1>4, <1>5 DEF HelperInv, HelperTypeOK, CallRecord, world
<1>7. Turns' /\ OneHelper' /\ Casualties'
  BY <1>2, <1>4 DEF HelperInv, Turns, OneHelper, Casualties
<1>8. RightDesktop'
  <2> SUFFICES ASSUME NEW d \in Client, call'[d].pc \in {"hello", "ready", "asked"}
               PROVE  current # 0 /\ born[current].env = call'[d].sig.env
    BY <1>2 DEF RightDesktop
  <2>1. d = c
    BY <1>4 DEF Locked
  <2> QED BY <2>1, <1>1, <1>3 DEF HelperInv, RightDesktop
<1>9. AnswersMatch'
  BY <1>3, <1>4 DEF HelperInv, AnswersMatch, At
<1>10. Questions'
  <2>1. /\ \A i \in DOMAIN inbox : inbox[i].id \in Nat /\ inbox[i].id <= nextID
        /\ \A i : Answered(i) => outbox[i].id \in Nat /\ outbox[i].id <= nextID
    <3>1. (\A i \in DOMAIN inbox : inbox[i] \in [id : Nat, serial : Nat])
          /\ (\A i \in DOMAIN outbox : outbox[i] \in Message)
      BY <1>1, Elements
    <3>2. /\ \A i \in DOMAIN inbox : inbox[i].id \in Nat
          /\ \A i \in DOMAIN outbox : outbox[i].id \in Nat
      BY <3>1 DEF Message
    <3> QED BY <3>2 DEF HelperInv, Questions, Numbered, Asked, Answered
  <2>2. \A i : Answered(i) => outbox[i].id <= nextID + 1 /\ outbox[i].id # nextID + 1
    BY <2>1, <1>1
  <2>3. \A i \in DOMAIN inbox' :
          inbox'[i].id <= nextID + 1 /\ (inbox'[i].id = nextID + 1 => inbox'[i].serial = call[c].serial)
    <3> SUFFICES ASSUME NEW i \in DOMAIN inbox'
                 PROVE  /\ inbox'[i].id <= nextID + 1
                        /\ inbox'[i].id = nextID + 1 => inbox'[i].serial = call[c].serial
      OBVIOUS
    <3>1. CASE i \in DOMAIN inbox /\ inbox'[i] = inbox[i]
      <4>1. inbox[i].id \in Nat /\ inbox[i].id <= nextID
        BY <2>1, <3>1
      <4> QED BY <4>1, <3>1, <1>1
    <3>2. CASE inbox'[i] = [id |-> nextID + 1, serial |-> call[c].serial]
      BY <3>2, <1>2
    <3> QED BY <3>1, <3>2, <1>5
  <2>4. Numbered' /\ nextID' >= 1
    BY <2>2, <2>3, <1>1, <1>2 DEF Numbered, Asked, Answered
  <2>5. \A d \in Client : At(d, "asked")' => d = c
    BY <1>4 DEF At, Locked
  <2>6. OfCall(c)'
    BY <2>2, <2>3, <1>2, <1>3 DEF OfCall, Asked, Answered
  <2> QED BY <2>4, <2>5, <2>6, <1>2, <1>3 DEF Questions
<1> QED BY <1>6, <1>7, <1>8, <1>9, <1>10 DEF HelperInv

\* What the helper says unasked is a message without a question; if it is a response,
\* its id is older than the last.
LEMMA UnaskedMessage ==
  ASSUME NEW e \in Unasked
  PROVE  /\ e \in Message /\ e.serial = 0
         /\ e.kind \in {"answer", "error"} => e.id \in Nat /\ e.id < nextID
<1>1. /\ e \in [id : 0 .. MaxCalls + 1, serial : {0}, kind : {"note", "garbage", "answer", "request"}]
      /\ e.kind = "answer" => e.id < nextID
  BY DEF Unasked
<1>2. e.id \in Nat
  BY <1>1, HelperAssumption
<1> QED BY <1>1, <1>2 DEF Message

\* A step of the helper itself moves no call; a response it writes carries no id that
\* has not been given out, and the last one only with the question that came with it.
LEMMA HelperOnly ==
  ASSUME HelperInv, Serve \/ Babble \/ HelperDies
  PROVE  HelperInv'
<1>1. /\ UNCHANGED <<world, current, born, nextID, started, call, calls, victims>>
      /\ alive' \subseteq alive /\ noise' \in 0 .. MaxNoise
  <2>1. noise \in 0 .. MaxNoise
    BY DEF HelperInv, HelperTypeOK
  <2> QED BY <2>1, HelperAssumption DEF Serve, Babble, HelperDies
<1>2. /\ inbox \in Seq([id : Nat, serial : Nat]) /\ outbox \in Seq(Message) /\ nextID \in Nat
      /\ Numbered
  BY DEF HelperInv, HelperTypeOK, Questions
<1>3. /\ inbox' \in Seq([id : Nat, serial : Nat])
      /\ \A i \in DOMAIN inbox' : \E k \in DOMAIN inbox : inbox'[i] = inbox[k]
  <2>1. CASE inbox # <<>> /\ inbox' = Tail(inbox)
    BY <2>1, <1>2, TailElements
  <2>2. CASE inbox' = <<>>
    BY <2>2
  <2>3. CASE inbox' = inbox
    BY <2>3, <1>2
  <2> QED BY <2>1, <2>2, <2>3 DEF Serve, Babble, HelperDies
<1>4. /\ outbox' \in Seq(Message)
      /\ \A i \in DOMAIN outbox' :
           \/ \E k \in DOMAIN outbox : outbox'[i] = outbox[k]
           \/ \E k \in DOMAIN inbox : outbox'[i].id = inbox[k].id /\ outbox'[i].serial = inbox[k].serial
           \/ outbox'[i].kind \in {"answer", "error"} =>
                outbox'[i].id \in Nat /\ outbox'[i].id < nextID
  <2>1. CASE Serve
    <3>1. PICK kind \in {"answer", "error"} :
            outbox' = Append(outbox, [id |-> Head(inbox).id, serial |-> Head(inbox).serial,
                                      kind |-> kind])
      BY <2>1 DEF Serve
    <3> DEFINE e == [id |-> Head(inbox).id, serial |-> Head(inbox).serial, kind |-> kind]
    <3>2. inbox # <<>> /\ 1 \in DOMAIN inbox /\ Head(inbox) = inbox[1]
          /\ Head(inbox) \in [id : Nat, serial : Nat]
      BY <2>1, <1>2, TailElements DEF Serve
    <3>3. e \in Message
      BY <3>2 DEF Message
    <3>4. e.id = inbox[1].id /\ e.serial = inbox[1].serial
      BY <3>2
    <3> HIDE DEF e
    <3>5. outbox' = Append(outbox, e)
      BY <3>1 DEF e
    <3>6. /\ outbox' \in Seq(Message)
          /\ \A i \in DOMAIN outbox' : (\E k \in DOMAIN outbox : outbox'[i] = outbox[k]) \/ outbox'[i] = e
      BY <3>3, <3>5, <1>2, AppendElements
    <3> QED BY <3>2, <3>4, <3>6
  <2>2. CASE Babble
    <3>1. PICK e \in Unasked : outbox' = Append(outbox, e)
      BY <2>2 DEF Babble
    <3>2. e \in Message /\ (e.kind \in {"answer", "error"} => e.id \in Nat /\ e.id < nextID)
      BY UnaskedMessage
    <3> QED BY <3>1, <3>2, <1>2, AppendElements
  <2>3. CASE HelperDies
    BY <2>3, <1>2 DEF HelperDies
  <2> QED BY <2>1, <2>2, <2>3
<1>5. HelperTypeOK' /\ desktop' \in [bus : Bus, display : Display] /\ version' \in Version
  <2>1. SignatureNow' = SignatureNow
    BY <1>1 DEF SignatureNow, EnvironmentNow, world
  <2> QED BY <2>1, <1>1, <1>3, <1>4 DEF HelperInv, HelperTypeOK, world
<1>6. Turns' /\ Casualties' /\ OneHelper' /\ RightDesktop' /\ AnswersMatch'
  BY <1>1 DEF HelperInv, Turns, Casualties, OneHelper, RightDesktop, AnswersMatch, At
<1>7. Questions'
  <2>1. /\ current' # 0 => nextID' >= 1
        /\ \A i : Asked(i)' => inbox'[i].id <= nextID
    BY <1>1, <1>2, <1>3 DEF Numbered, Asked, HelperInv, Questions
  <2>2. ASSUME NEW i, Answered(i)'
        PROVE  \/ \E k : Answered(k) /\ outbox'[i] = outbox[k]
               \/ \E k : Asked(k) /\ outbox'[i].id = inbox[k].id /\ outbox'[i].serial = inbox[k].serial
               \/ outbox'[i].id \in Nat /\ outbox'[i].id < nextID
    BY <2>2, <1>4 DEF Asked, Answered
  <2>3. Numbered'
    <3>1. ASSUME NEW i, Answered(i)' PROVE outbox'[i].id <= nextID
      BY <3>1, <2>2, <1>2 DEF Numbered
    <3> QED BY <3>1, <2>1, <1>1 DEF Numbered
  <2>4. ASSUME NEW d \in Client, call[d].pc = "asked"
        PROVE  call[d].want = nextID /\ OfCall(d)'
    <3>1. call[d].want = nextID /\ OfCall(d)
      BY <2>4 DEF HelperInv, Questions, At
    <3>2. \A i : Asked(i)' /\ inbox'[i].id = nextID => inbox'[i].serial = call[d].serial
      BY <3>1, <1>3 DEF OfCall, Asked
    <3>3. ASSUME NEW i, Answered(i)', outbox'[i].id = nextID
          PROVE  outbox'[i].serial = call[d].serial
      <4>1. ~ (outbox'[i].id < nextID)
        BY <3>3, <1>2
      <4> QED BY <4>1, <3>3, <2>2, <3>1 DEF OfCall
    <3> QED BY <3>1, <3>2, <3>3, <1>1 DEF OfCall
  <2> QED BY <2>1, <2>3, <2>4, <1>1 DEF Questions, At
<1> QED BY <1>5, <1>6, <1>7 DEF HelperInv

\* What happens around the helper touches only the environment.
LEMMA WorldOnly ==
  ASSUME HelperInv, WorldChanges
  PROVE  HelperInv'
<1>1. /\ desktop' \in [bus : Bus, display : Display] /\ version' \in Version
      /\ changes' \in 0 .. MaxChanges
      /\ UNCHANGED <<current, alive, inbox, outbox, born, nextID, started, noise, call, calls,
                     victims>>
  <2>1. changes \in 0 .. MaxChanges /\ changes < MaxChanges /\ changes' = changes + 1
    BY DEF WorldChanges, HelperInv, HelperTypeOK
  <2>2. changes' \in 0 .. MaxChanges
    BY <2>1, HelperAssumption
  <2> QED BY <2>2 DEF WorldChanges, HelperStays, HelperInv
<1>2. SignatureNow' \in Signature
  <2>1. EnvironmentNow' \in Environment
    BY <1>1 DEF EnvironmentNow, Environment
  <2> QED BY <2>1, <1>1 DEF SignatureNow, Signature
<1>3. HelperTypeOK'
  BY <1>1, <1>2 DEF HelperInv, HelperTypeOK
<1>4. (Turns /\ Questions /\ Casualties /\ OneHelper /\ RightDesktop /\ AnswersMatch)'
  BY <1>1 DEF HelperInv, Turns, Questions, Numbered, OfCall, Asked, Answered, Casualties, OneHelper,
              RightDesktop, AnswersMatch, At
<1> QED BY <1>1, <1>3, <1>4 DEF HelperInv

\* The steps of a call that leave the helper as it is.
LEMMA QuietStep ==
  ASSUME HelperInv, NEW c \in Client,
         \/ Ask(c) \/ Expire(c) \/ Lock(c) \/ Reuse(c)
         \/ PassOver(c) \/ Hello(c) \/ Receive(c) \/ DecodeFails(c) \/ Return(c)
  PROVE  HelperInv'
<1>1. /\ call \in [Client -> CallRecord] /\ call[c] \in CallRecord /\ calls \in 0 .. MaxCalls
      /\ SignatureNow \in Signature /\ NoCall.sig \in Signature /\ current \in Nat
  BY SignatureTyped, HelperAssumption DEF HelperInv, HelperTypeOK, CallRecord
<1>2. NoCall \in CallRecord /\ NoCall.pc = "idle" /\ NoCall.got = 0
  <2> DEFINE s == CHOOSE s \in Signature : TRUE
  <2>1. s \in Signature
    BY <1>1
  <2>2. 0 \in 0 .. MaxCalls
    BY HelperAssumption
  <2> HIDE DEF s
  <2>3. NoCall = [pc |-> "idle", expired |-> FALSE, want |-> 0, serial |-> 0, got |-> 0,
                  sig |-> s]
    BY DEF NoCall, s
  <2> QED BY <2>1, <2>2, <2>3 DEF CallRecord
<1>3. ASSUME NEW q \in CallRecord, call' = [call EXCEPT ![c] = q]
      PROVE  call'[c] = q /\ call' = [call EXCEPT ![c] = call'[c]]
  BY <1>1, <1>3
<1>4. CASE Ask(c)
  <2> DEFINE q == [NoCall EXCEPT !.pc = "waiting", !.serial = calls + 1]
  <2>1. calls + 1 \in 0 .. MaxCalls
    BY <1>1, <1>4, HelperAssumption DEF Ask
  <2>3. q \in CallRecord /\ q.pc = "waiting"
    BY <2>1, <1>2 DEF CallRecord
  <2> HIDE DEF q
  <2>4. call' = [call EXCEPT ![c] = q]
    BY <1>4 DEF Ask, q
  <2>5. call'[c] = q /\ call' = [call EXCEPT ![c] = call'[c]]
    BY <2>3, <2>4, <1>3
  <2> QED BY <2>1, <2>3, <2>5, <1>4, CallOnly DEF Ask, HelperStays, Locked
<1>5. CASE Expire(c)
  <2> DEFINE q == [call[c] EXCEPT !.expired = TRUE]
  <2>2. /\ q \in CallRecord /\ q.pc = call[c].pc /\ q.want = call[c].want /\ q.got = call[c].got
        /\ q.serial = call[c].serial /\ q.sig = call[c].sig
    BY <1>1 DEF CallRecord
  <2> HIDE DEF q
  <2>3. call' = [call EXCEPT ![c] = q]
    BY <1>5 DEF Expire, q
  <2>4. call'[c] = q /\ call' = [call EXCEPT ![c] = call'[c]]
    BY <2>2, <2>3, <1>3
  <2>5. q.pc \in {"hello", "ready", "asked"} => current # 0 /\ born[current].env = q.sig.env
    BY <2>2 DEF HelperInv, RightDesktop
  <2>6. q.pc # "done"
    BY <2>2, <1>5 DEF Expire, Locked
  <2> QED BY <2>2, <2>4, <2>5, <2>6, <1>1, <1>5, CallOnly DEF Expire, HelperStays
<1>6. CASE Lock(c)
  <2> DEFINE q == [call[c] EXCEPT !.pc = "locked", !.sig = SignatureNow]
  <2>2. q \in CallRecord /\ q.pc = "locked"
    BY <1>1 DEF CallRecord
  <2> HIDE DEF q
  <2>3. call' = [call EXCEPT ![c] = q]
    BY <1>6 DEF Lock, q
  <2>4. call'[c] = q /\ call' = [call EXCEPT ![c] = call'[c]]
    BY <2>2, <2>3, <1>3
  <2> QED BY <2>2, <2>4, <1>1, <1>6, CallOnly DEF Lock, HelperStays
<1>7. ASSUME NEW p \in {"ready"}, call' = [call EXCEPT ![c].pc = p]
      PROVE  /\ call'[c] \in CallRecord /\ call'[c].pc = p /\ call'[c].sig = call[c].sig
             /\ call' = [call EXCEPT ![c] = call'[c]]
  <2> DEFINE q == [call[c] EXCEPT !.pc = p]
  <2>1. q = [pc |-> p, expired |-> call[c].expired, want |-> call[c].want,
             serial |-> call[c].serial, got |-> call[c].got, sig |-> call[c].sig]
    BY <1>1 DEF CallRecord
  <2>2. q \in CallRecord /\ q.pc = p /\ q.sig = call[c].sig
    BY <2>1, <1>1 DEF CallRecord
  <2> HIDE DEF q
  <2>3. call' = [call EXCEPT ![c] = q]
    BY <1>7 DEF q
  <2> QED BY <2>2, <2>3, <1>3
<1>8. CASE Reuse(c)
  <2>1. current # 0 /\ born[current].env = call[c].sig.env /\ call[c].pc = "locked"
    BY <1>8 DEF Reuse, Usable, At
  <2>2. call' = [call EXCEPT ![c].pc = "ready"]
    BY <1>8 DEF Reuse, Goes
  <2> QED BY <2>1, <2>2, <1>1, <1>7, <1>8, CallOnly DEF Reuse, HelperStays, Locked
<1>9. CASE PassOver(c)
  <2>1. call' = [call EXCEPT ![c] = call'[c]] /\ call'[c] = call[c]
    BY <1>1, <1>9 DEF PassOver
  <2>2. call[c].pc \in {"hello", "asked"} /\ outbox # <<>> /\ outbox' = Tail(outbox)
    BY <1>9 DEF PassOver, Reading, Unread
  <2>3. current # 0 /\ born[current].env = call[c].sig.env
    BY <2>2 DEF HelperInv, RightDesktop
  <2> QED BY <2>1, <2>2, <2>3, <1>1, <1>9, CallOnly DEF PassOver, Unread
<1>10. CASE Hello(c)
  <2>1. call[c].pc = "hello" /\ outbox # <<>> /\ outbox' = Tail(outbox)
    BY <1>10 DEF Hello, Reading, Unread, At
  <2>2. current # 0 /\ born[current].env = call[c].sig.env
    BY <2>1 DEF HelperInv, RightDesktop
  <2>3. call' = [call EXCEPT ![c].pc = "ready"]
    BY <1>10 DEF Hello, Goes
  <2> QED BY <2>1, <2>2, <2>3, <1>1, <1>7, <1>10, CallOnly DEF Hello, Unread, Locked
<1>11. CASE Receive(c)
  <2> DEFINE q == Ended(c, "done", Head(outbox).serial)
  <2>1. call[c].pc = "asked" /\ outbox # <<>> /\ outbox' = Tail(outbox)
        /\ Head(outbox).id = call[c].want /\ Head(outbox).kind \in {"answer", "error"}
    BY <1>11 DEF Receive, Reading, Unread, At, Answers
  <2>2. /\ 1 \in DOMAIN outbox /\ Head(outbox) = outbox[1] /\ Head(outbox) \in Message
    BY <2>1, TailElements DEF HelperInv, HelperTypeOK
  <2>3. Head(outbox).serial = call[c].serial
    BY <2>1, <2>2 DEF HelperInv, Questions, OfCall, Answered, At
  <2>5. call[c].serial \in Nat
    BY <1>1, HelperAssumption DEF CallRecord
  <2>6. q \in CallRecord /\ q.pc = "done" /\ q.got = q.serial
    BY <2>3, <2>5, EndedCall
  <2> HIDE DEF q
  <2>7. call' = [call EXCEPT ![c] = q]
    BY <1>11 DEF Receive, Ends, q
  <2>8. call'[c] = q /\ call' = [call EXCEPT ![c] = call'[c]]
    BY <2>6, <2>7, <1>3
  <2> QED BY <2>1, <2>6, <2>8, <1>1, <1>11, CallOnly DEF Receive, Unread, Locked
<1>12. CASE Return(c)
  <2>1. call'[c] = NoCall /\ call' = [call EXCEPT ![c] = call'[c]]
    BY <1>2, <1>3, <1>12 DEF Return
  <2> QED BY <2>1, <1>1, <1>2, <1>12, CallOnly DEF Return, HelperStays, Locked
<1>13. CASE DecodeFails(c)
  <2> DEFINE q == Ended(c, "failed", 0)
  <2>1. q \in CallRecord /\ q.pc = "failed"
    BY EndedCall
  <2> HIDE DEF q
  <2>2. call' = [call EXCEPT ![c] = q]
    BY <1>13 DEF DecodeFails, Ends, q
  <2>3. call'[c] = q /\ call' = [call EXCEPT ![c] = call'[c]]
    BY <2>1, <2>2, <1>3
  <2>4. outbox # <<>> /\ outbox' = Tail(outbox)
    BY <1>13 DEF DecodeFails, Reading, Unread
  <2> QED BY <2>1, <2>3, <2>4, <1>1, <1>13, CallOnly DEF DecodeFails, Unread, Locked
<1> QED BY <1>4, <1>5, <1>6, <1>8, <1>9, <1>10, <1>11, <1>12, <1>13

\* The steps that end a call with an error of the transport.
LEMMA FailingStep ==
  ASSUME HelperInv, NEW c \in Client,
         StartFails(c) \/ WriteCallFails(c) \/ HelloFails(c) \/ ReadFails(c) \/ GiveUp(c)
  PROVE  HelperInv'
<1>1. /\ Fail(c) /\ call[c].pc \in Locked
      /\ UNCHANGED <<world, born, started, noise, calls>>
      /\ nextID' \in {nextID, nextID + 1}
  BY DEF StartFails, WriteCallFails, HelloFails, ReadFails, GiveUp, At, Locked
<1> QED BY <1>1, FailStep

LEMMA HelperInvStep == HelperInv /\ [HelperNext]_helperVars => HelperInv'
<1> SUFFICES ASSUME HelperInv, [HelperNext]_helperVars PROVE HelperInv'
  OBVIOUS
<1>1. CASE UNCHANGED helperVars
  <2>1. SignatureNow' = SignatureNow
    BY <1>1 DEF helperVars, world, SignatureNow, EnvironmentNow
  <2> QED BY <2>1, <1>1 DEF helperVars, world, HelperInv, HelperTypeOK, Turns, Questions, Numbered,
                  OfCall, Asked, Answered, Casualties, OneHelper, RightDesktop, AnswersMatch, At
<1>2. ASSUME NEW c \in Client, Ask(c) \/ Expire(c) \/ CallStep(c)
      PROVE  HelperInv'
  BY <1>2, QuietStep, FailingStep, StartStep, WriteCallStep DEF CallStep
<1>3. CASE Serve \/ Babble \/ HelperDies
  BY <1>3, HelperOnly
<1>4. CASE WorldChanges
  BY <1>4, WorldOnly
<1> QED BY <1>1, <1>2, <1>3, <1>4 DEF HelperNext

\* The state of the helper's client is always what HelperInv says
\* (stdio_mcp_linux.go:31-180 with anyapp_linux.go:136-247).
THEOREM HelperInvariant == HelperSpec => []HelperInv
<1>1. HelperInit => HelperInv
  BY HelperInvInit
<1>2. HelperInv /\ [HelperNext]_helperVars => HelperInv'
  BY HelperInvStep
<1> QED BY <1>1, <1>2, PTL DEF HelperSpec

\* Every variable of the helper's client has its type.
THEOREM HelperTypeCorrect == HelperSpec => []HelperTypeOK
<1>1. HelperInv => HelperTypeOK
  BY DEF HelperInv
<1> QED BY <1>1, HelperInvariant, PTL

\* rpcLocked and callTool return the answer to the very request that was written, also
\* when a request of the helper's own has its id.
THEOREM HelperAnswersMatch == HelperSpec => []AnswersMatch
<1>1. HelperInv => AnswersMatch
  BY DEF HelperInv
<1> QED BY <1>1, HelperInvariant, PTL

\* ensureStartedLocked and stopLocked leave no second process behind.
THEOREM HelperOneHelper == HelperSpec => []OneHelper
<1>1. HelperInv => OneHelper
  BY DEF HelperInv
<1> QED BY <1>1, HelperInvariant, PTL

\* A call is made to a helper of the desktop that its turn found.
THEOREM HelperRightDesktop == HelperSpec => []RightDesktop
<1>1. HelperInv => RightDesktop
  BY DEF HelperInv
<1> QED BY <1>1, HelperInvariant, PTL

\* A dead helper costs one call.
THEOREM HelperDeathFailsOneCall == HelperSpec => []DeathFailsOneCall
<1>1. HelperInv => DeathFailsOneCall
  BY DEF HelperInv, Casualties, DeathFailsOneCall
<1> QED BY <1>1, HelperInvariant, PTL

-----------------------------------------------------------------------------
(* The calls of the helper implement RemoteCall.                           *)

\* Calls are numbered from one, each with a number of its own, which tells their questions
\* apart and from the handshake and what the helper asks or says of itself.
Numbers ==
  \A c \in Client : call[c].pc # "idle" =>
    /\ call[c].serial \in 1 .. calls
    /\ \A d \in Client \ {c} : call[d].pc # "idle" => call[d].serial # call[c].serial

LEMMA NumbersStep == HelperInv /\ Numbers /\ [HelperNext]_helperVars => Numbers'
<1> SUFFICES ASSUME HelperInv, Numbers, [HelperNext]_helperVars PROVE Numbers'
  OBVIOUS
<1>a. call \in [Client -> CallRecord] /\ calls \in Nat
  BY HelperAssumption DEF HelperInv, HelperTypeOK, CallRecord
<1>1. ASSUME NEW c \in Client, Ask(c) PROVE Numbers'
  <2>1. \A d \in Client : IF d = c THEN call'[d].serial = calls + 1 ELSE call'[d] = call[d]
    BY <1>1, <1>a DEF Ask, NoCall
  <2>2. calls' = calls + 1
    BY <1>1 DEF Ask
  <2> QED BY <2>1, <2>2, <1>a DEF Numbers
<1>2. ASSUME calls' = calls,
             \A d \in Client : \/ call'[d].pc = "idle"
                               \/ call[d].pc # "idle" /\ call'[d].serial = call[d].serial
                               \/ call'[d] = call[d]
      PROVE  Numbers'
  BY <1>2 DEF Numbers
<1>3. ASSUME NEW c \in Client, Return(c) PROVE Numbers'
  <2>1. \A d \in Client : call'[d] = call[d] \/ call'[d].pc = "idle"
    BY <1>3, <1>a DEF Return, NoCall
  <2> QED BY <2>1, <1>2, <1>3 DEF Return
<1>4. ASSUME NEW c \in Client, Expire(c) \/ (CallStep(c) /\ ~ Return(c)) PROVE Numbers'
  <2>1. call[c].pc # "idle" /\ calls' = calls
    BY <1>4, <1>a DEF Expire, CallStep, Lock, Reuse, Start, StartFails, WriteCall, WriteCallFails,
                      PassOver, Hello, HelloFails, Receive, DecodeFails, ReadFails, GiveUp, At,
                      Locked, Reading
  <2>2. \A d \in Client : call'[d] = call[d] \/ (d = c /\ call'[c].serial = call[c].serial)
    <3>1. CASE \E to, g : Ends(c, to, g)
      <4>1. \A to, g : Ended(c, to, g).serial = call[c].serial
        BY DEF Ended, NoCall
      <4> QED BY <3>1, <4>1, <1>a DEF Ends
    <3>2. CASE Expire(c) \/ Lock(c) \/ Reuse(c) \/ Start(c) \/ WriteCall(c) \/ PassOver(c) \/ Hello(c)
      BY <3>2, <1>a DEF Expire, Lock, Reuse, Start, WriteCall, PassOver, Hello, Goes, CallRecord
    <3> QED BY <1>4, <3>1, <3>2 DEF CallStep, StartFails, WriteCallFails, HelloFails, Receive,
                                    DecodeFails, ReadFails, GiveUp, Fail
  <2> QED BY <2>1, <2>2, <1>2
<1>5. CASE Serve \/ Babble \/ HelperDies \/ WorldChanges \/ UNCHANGED helperVars
  BY <1>5 DEF Serve, Babble, HelperDies, WorldChanges, helperVars, Numbers
<1> QED BY <1>1, <1>3, <1>4, <1>5 DEF HelperNext

\* What a step does to the fate of a question, and to what its client is told.
HelperRemoteStep(d) ==
  \/ HelperFate(d)' = HelperFate(d) /\ HelperReply(d)' = HelperReply(d)
  \/ /\ HelperReply(d) = "none" /\ HelperReply(d)' = "none"
     /\ HelperFate(d) = "unasked" /\ HelperFate(d)' = "asked"
  \/ /\ HelperReply(d) # "answer" /\ HelperReply(d)' = HelperReply(d)
     /\ \/ HelperFate(d) = "asked" /\ HelperFate(d)' = "done"
        \/ HelperFate(d) \in {"asked", "done"} /\ HelperFate(d)' = "lost"
  \/ /\ HelperReply(d) = "none"
     /\ \/ HelperFate(d) \in {"asked", "done"} /\ HelperFate(d)' = "done" /\ HelperReply(d)' = "answer"
        \/ HelperFate(d)' \in {HelperFate(d), "lost"} /\ HelperReply(d)' = "error"
  \/ HelperReply(d) # "none" /\ HelperFate(d)' = "unasked" /\ HelperReply(d)' = "none"

\* The question of a call may be in a pipe while it waits for the answer, and after it has
\* failed; until then, and once it is answered, the pipes do not matter to it.
LEMMA OnlyAskedMatters ==
  ASSUME HelperInv, NEW d \in Client, call[d].pc \notin {"asked", "failed"}, call'[d] = call[d]
  PROVE  HelperFate(d)' = HelperFate(d) /\ HelperReply(d)' = HelperReply(d)
<1>1. HelperReply(d)' = HelperReply(d)
  BY DEF HelperReply, At
<1>2. CASE call[d].pc \in {"idle", "waiting", "locked", "hello", "ready"}
  BY <1>1, <1>2 DEF HelperFate, At
<1>3. CASE call[d].pc = "done"
  BY <1>1, <1>3 DEF HelperFate, At
<1>4. call[d].pc \in {"idle", "waiting", "locked", "hello", "ready", "asked", "done", "failed"}
  BY DEF HelperInv, HelperTypeOK
<1> QED BY <1>1, <1>2, <1>3, <1>4

LEMMA HelperRemoteStepHolds ==
  ASSUME HelperInv, HelperInv', Numbers, [HelperNext]_helperVars, NEW d \in Client
  PROVE  HelperRemoteStep(d)
<1> USE DEF HelperRemoteStep
<1>a. call \in [Client -> CallRecord] /\ call' \in [Client -> CallRecord]
  BY DEF HelperInv, HelperTypeOK, CallRecord
<1>b. inbox \in Seq([id : Nat, serial : Nat]) /\ outbox \in Seq(Message)
  BY DEF HelperInv, HelperTypeOK
<1>c. call[d].pc \in {"idle", "waiting", "locked", "hello", "ready", "asked", "done", "failed"}
  BY <1>a DEF CallRecord
\* Where a call stands says what its client was told, and mostly what became of its
\* question.
<1>d. /\ call[d].pc \notin {"done", "failed"} => HelperReply(d) = "none"
      /\ call[d].pc = "done" => HelperReply(d) = "answer" /\ HelperFate(d) = "done"
      /\ call[d].pc = "failed" => HelperReply(d) = "error"
      /\ call[d].pc \in {"idle", "waiting", "locked", "hello", "ready"} => HelperFate(d) = "unasked"
      /\ call[d].pc \in {"asked", "failed"} =>
           HelperFate(d) = IF Holds(inbox, d) THEN "asked"
                             ELSE IF Holds(outbox, d) THEN "done" ELSE "lost"
  BY DEF HelperReply, HelperFate, HelperInv, AnswersMatch, At
<1>e. /\ call'[d].pc \notin {"done", "failed"} => HelperReply(d)' = "none"
      /\ call'[d].pc = "done" => HelperReply(d)' = "answer" /\ HelperFate(d)' = "done"
      /\ call'[d].pc = "failed" => HelperReply(d)' = "error"
      /\ call'[d].pc \in {"idle", "waiting", "locked", "hello", "ready"} => HelperFate(d)' = "unasked"
      /\ call'[d].pc \in {"asked", "failed"} =>
           HelperFate(d)' = IF Holds(inbox, d)' THEN "asked"
                             ELSE IF Holds(outbox, d)' THEN "done" ELSE "lost"
  BY DEF HelperReply, HelperFate, HelperInv, AnswersMatch, At
<1> HIDE DEF HelperRemoteStep
\* A step of another call may read what is written for d, clear the pipes, or write a
\* question of its own.
<1>1. ASSUME NEW c \in Client, c # d, Ask(c) \/ Expire(c) \/ CallStep(c)
      PROVE  HelperRemoteStep(d)
  <2>1. call'[d] = call[d]
    BY <1>1, <1>a DEF Ask, Expire, CallStep, Lock, Reuse, Start, StartFails, WriteCall,
                      WriteCallFails, PassOver, Hello, HelloFails, Receive, DecodeFails, ReadFails,
                      GiveUp, Return, Goes, Ends, Fail
  <2>2. CASE call[d].pc \notin {"asked", "failed"}
    BY <2>1, <2>2, OnlyAskedMatters DEF HelperRemoteStep
  <2>3. ASSUME call[d].pc \in {"asked", "failed"},
               (Holds(inbox, d)' <=> Holds(inbox, d)) /\ (Holds(outbox, d)' => Holds(outbox, d))
        PROVE  HelperRemoteStep(d)
    BY <2>1, <2>3, <1>d, <1>e DEF HelperRemoteStep
  <2>4. ASSUME call[d].pc \in {"asked", "failed"}, ~ Holds(inbox, d)', ~ Holds(outbox, d)'
        PROVE  HelperRemoteStep(d)
    BY <2>1, <2>4, <1>d, <1>e DEF HelperRemoteStep
  <2>5. CASE call[d].pc \in {"asked", "failed"} /\ inbox' = inbox
             /\ (outbox' = outbox \/ (outbox # <<>> /\ outbox' = Tail(outbox)))
    <3>1. Holds(outbox, d)' => Holds(outbox, d)
      <4>1. CASE outbox' = outbox
        BY <4>1, <2>1 DEF Holds
      <4>2. CASE outbox # <<>> /\ outbox' = Tail(outbox)
        BY <4>2, <2>1, <1>b, TailElements DEF Holds
      <4> QED BY <2>5, <4>1, <4>2
    <3>2. Holds(inbox, d)' <=> Holds(inbox, d)
      BY <2>1, <2>5 DEF Holds
    <3> QED BY <2>5, <2>3, <3>1, <3>2
  <2>6. CASE call[d].pc \in {"asked", "failed"} /\ outbox' = <<>>
             /\ inbox' \in {<<>>, <<[id |-> 1, serial |-> 0]>>}
    <3>1. call'[d].serial # 0
      BY <2>1, <2>6 DEF Numbers
    <3>2. ~ Holds(inbox, d)' /\ ~ Holds(outbox, d)'
      BY <2>6, <3>1 DEF Holds
    <3> QED BY <2>6, <2>4, <3>2
  <2>7. CASE call[d].pc \in {"asked", "failed"} /\ WriteCall(c)
    <3>1. call[c].serial # call[d].serial
      BY <2>7, <1>1 DEF Numbers, WriteCall, At
    <3>2. /\ inbox' = Append(inbox, [id |-> nextID + 1, serial |-> call[c].serial])
          /\ outbox' = outbox
      BY <2>7 DEF WriteCall
    <3>3. /\ \A i \in DOMAIN inbox : i \in DOMAIN inbox' /\ inbox'[i] = inbox[i]
          /\ \A i \in DOMAIN inbox' : \/ i \in DOMAIN inbox /\ inbox'[i] = inbox[i]
                                     \/ inbox'[i].serial = call[c].serial
      BY <3>2, <1>b
    <3>4. (Holds(inbox, d)' <=> Holds(inbox, d)) /\ (Holds(outbox, d)' <=> Holds(outbox, d))
      BY <3>1, <3>2, <3>3, <2>1 DEF Holds
    <3> QED BY <2>7, <2>3, <3>4
  <2> QED
    BY <1>1, <2>2, <2>5, <2>6, <2>7
       DEF Ask, Expire, CallStep, Lock, Reuse, Start, StartFails, WriteCallFails, PassOver, Hello,
           HelloFails, Receive, DecodeFails, ReadFails, GiveUp, Return, HelperStays, Unread, Reading,
           Fail, StopLocked
<1>2. CASE Ask(d)
  <2>1. call[d].pc = "idle" /\ call'[d].pc = "waiting"
    BY <1>2, <1>a DEF Ask, At, NoCall
  <2> QED BY <2>1, <1>d, <1>e DEF HelperRemoteStep
<1>3. CASE Expire(d)
  <2>1. call'[d].pc = call[d].pc /\ call'[d].serial = call[d].serial
    BY <1>3, <1>a DEF Expire, CallRecord
  <2>2. call[d].pc \in {"waiting", "locked", "hello", "ready", "asked"}
    BY <1>3 DEF Expire, Locked
  <2>3. UNCHANGED <<inbox, outbox>>
    BY <1>3 DEF Expire, HelperStays
  <2>4. (Holds(inbox, d)' <=> Holds(inbox, d)) /\ (Holds(outbox, d)' <=> Holds(outbox, d))
    BY <2>1, <2>3 DEF Holds
  <2> QED BY <2>1, <2>2, <2>4, <1>d, <1>e DEF HelperRemoteStep
<1>4. CASE Lock(d) \/ Reuse(d) \/ Start(d) \/ Hello(d)
  <2>1. /\ call[d].pc \in {"waiting", "locked", "hello"}
        /\ call'[d].pc \in {"locked", "ready", "hello"}
    BY <1>4, <1>a DEF Lock, Reuse, Start, Hello, At, Goes, CallRecord
  <2> QED BY <2>1, <1>d, <1>e DEF HelperRemoteStep
<1>5. CASE StartFails(d) \/ WriteCallFails(d) \/ HelloFails(d) \/ ReadFails(d) \/ GiveUp(d)
  <2>1. /\ call[d].pc \notin {"done", "failed"} /\ call'[d].pc = "failed"
        /\ inbox' = <<>> /\ outbox' = <<>>
    BY <1>5, <1>a DEF StartFails, WriteCallFails, HelloFails, ReadFails, GiveUp, Fail, StopLocked,
                      At, Ends, Ended, Reading, NoCall
  <2>2. ~ Holds(inbox, d)' /\ ~ Holds(outbox, d)'
    BY <2>1 DEF Holds
  <2> QED BY <2>1, <2>2, <1>d, <1>e DEF HelperRemoteStep
\* A call that fails on a message of no use leaves its question where it is.
<1>f. CASE DecodeFails(d)
  <2>1. /\ call[d].pc = "asked" /\ call'[d].pc = "failed" /\ call'[d].serial = call[d].serial
        /\ inbox' = inbox /\ outbox # <<>> /\ outbox' = Tail(outbox)
    <3>1. call'[d] = Ended(d, "failed", 0)
      BY <1>f, <1>a DEF DecodeFails, Ends
    <3>2. call'[d].pc = "failed" /\ call'[d].serial = call[d].serial
      BY <3>1, EndedCall
    <3> QED BY <1>f, <3>2 DEF DecodeFails, At, Reading, Unread
  <2>2. Holds(inbox, d)' <=> Holds(inbox, d)
    BY <2>1 DEF Holds
  <2>3. Holds(outbox, d)' => Holds(outbox, d)
    BY <2>1, <1>b, TailElements DEF Holds
  <2> QED BY <2>1, <2>2, <2>3, <1>d, <1>e DEF HelperRemoteStep
<1>6. CASE WriteCall(d)
  <2>1. /\ call[d].pc = "ready" /\ call'[d].pc = "asked" /\ call'[d].serial = call[d].serial
        /\ inbox' = Append(inbox, [id |-> nextID + 1, serial |-> call[d].serial])
    BY <1>6, <1>a DEF WriteCall, At, CallRecord
  <2>2. /\ Len(inbox) + 1 \in DOMAIN inbox'
        /\ inbox'[Len(inbox) + 1] = [id |-> nextID + 1, serial |-> call[d].serial]
    BY <2>1, <1>b
  <2>3. Holds(inbox, d)'
    BY <2>1, <2>2 DEF Holds
  <2> QED BY <2>1, <2>3, <1>d, <1>e DEF HelperRemoteStep
<1>7. CASE PassOver(d)
  <2>1. /\ call'[d] = call[d] /\ inbox' = inbox /\ outbox # <<>> /\ outbox' = Tail(outbox)
        /\ call[d].pc \in {"hello", "asked"}
    BY <1>7 DEF PassOver, Reading, Unread
  <2>2. Holds(inbox, d)' <=> Holds(inbox, d)
    BY <2>1 DEF Holds
  <2>3. Holds(outbox, d)' => Holds(outbox, d)
    BY <2>1, <1>b, TailElements DEF Holds
  <2> QED BY <2>1, <2>2, <2>3, <1>d, <1>e DEF HelperRemoteStep
<1>8. CASE Receive(d)
  <2>1. /\ call[d].pc = "asked" /\ call'[d].pc = "done" /\ outbox # <<>>
        /\ Head(outbox).id = call[d].want /\ Head(outbox).kind \in {"answer", "error"}
    BY <1>8, <1>a DEF Receive, At, Reading, Answers, Ends, Ended, NoCall
  <2>2. Answered(1) /\ outbox[1].id = nextID /\ OfCall(d)
    BY <2>1, <1>b, TailElements DEF HelperInv, Questions, Answered, At
  <2>3. Holds(outbox, d)
    BY <2>2 DEF OfCall, Answered, Holds
  <2> QED BY <2>1, <2>3, <1>d, <1>e DEF HelperRemoteStep
<1>9. CASE Return(d)
  <2>1. call[d].pc \in {"done", "failed"} /\ call'[d].pc = "idle"
    BY <1>9, <1>a DEF Return, NoCall
  <2> QED BY <2>1, <1>d, <1>e DEF HelperRemoteStep
\* What the helper does, as seen by a call that may have a question in a pipe.
<1>10. ASSUME call[d].pc \in {"asked", "failed"}, Serve PROVE HelperRemoteStep(d)
  <2>1. PICK msg \in Message : /\ inbox # <<>> /\ inbox' = Tail(inbox) /\ outbox' = Append(outbox, msg)
                               /\ msg.serial = Head(inbox).serial /\ call' = call
    <3>1. inbox # <<>> /\ Head(inbox) \in [id : Nat, serial : Nat]
      BY <1>10, <1>b, TailElements DEF Serve
    <3> QED BY <1>10, <3>1 DEF Serve, Message
  <2>2. \A i \in DOMAIN inbox : i = 1 \/ (i - 1 \in DOMAIN inbox' /\ inbox'[i - 1] = inbox[i])
    BY <2>1, <1>b
  <2>3. Holds(inbox, d)' => Holds(inbox, d)
    BY <2>1, <1>b, TailElements DEF Holds
  <2>4. Holds(inbox, d) => Holds(inbox, d)' \/ Head(inbox).serial = call[d].serial
    <3>1. ASSUME NEW i \in DOMAIN inbox, inbox[i].serial = call[d].serial
          PROVE  Holds(inbox, d)' \/ Head(inbox).serial = call[d].serial
      <4>1. CASE i = 1
        BY <3>1, <4>1, <2>1, <1>b
      <4>2. CASE i # 1
        <5>1. i - 1 \in DOMAIN inbox' /\ inbox'[i - 1].serial = call'[d].serial
          BY <3>1, <4>2, <2>1, <2>2
        <5> QED BY <5>1 DEF Holds
      <4> QED BY <4>1, <4>2
    <3> QED BY <3>1 DEF Holds
  <2>5. Head(inbox).serial = call[d].serial => Holds(inbox, d)
    BY <2>1, <1>b, TailElements DEF Holds
  <2>6. Holds(outbox, d)' <=> Holds(outbox, d) \/ Head(inbox).serial = call[d].serial
    <3>1. /\ \A i \in DOMAIN outbox : i \in DOMAIN outbox' /\ outbox'[i] = outbox[i]
          /\ Len(outbox) + 1 \in DOMAIN outbox' /\ outbox'[Len(outbox) + 1] = msg
      BY <2>1, <1>b
    <3>2. \A i \in DOMAIN outbox' : \/ i \in DOMAIN outbox /\ outbox'[i] = outbox[i]
                                   \/ outbox'[i] = msg
      BY <2>1, <1>b, AppendElements
    <3> QED BY <2>1, <3>1, <3>2 DEF Holds
  <2> QED BY <1>10, <2>1, <2>3, <2>4, <2>5, <2>6, <1>d, <1>e DEF HelperRemoteStep
<1>11. ASSUME call[d].pc \in {"asked", "failed"}, Babble PROVE HelperRemoteStep(d)
  <2>1. PICK msg : /\ inbox' = inbox /\ outbox' = Append(outbox, msg)
                   /\ msg \in Message /\ msg.serial = 0 /\ call' = call
    <3>1. PICK e \in Unasked : outbox' = Append(outbox, e)
      BY <1>11 DEF Babble
    <3>2. e \in Message /\ e.serial = 0
      BY UnaskedMessage
    <3> QED BY <1>11, <3>1, <3>2 DEF Babble
  <2>2. call[d].serial # 0
    BY <1>11 DEF Numbers
  <2>3. Holds(inbox, d)' <=> Holds(inbox, d)
    BY <2>1 DEF Holds
  <2>4. Holds(outbox, d)' <=> Holds(outbox, d)
    <3>1. \A i \in DOMAIN outbox : i \in DOMAIN outbox' /\ outbox'[i] = outbox[i]
      BY <2>1, <1>b
    <3>2. \A i \in DOMAIN outbox' : \/ i \in DOMAIN outbox /\ outbox'[i] = outbox[i]
                                   \/ outbox'[i] = msg
      BY <2>1, <1>b, AppendElements
    <3> QED BY <2>1, <2>2, <3>1, <3>2 DEF Holds
  <2> QED BY <1>11, <2>1, <2>3, <2>4, <1>d, <1>e DEF HelperRemoteStep
<1>12. ASSUME call[d].pc \in {"asked", "failed"}, HelperDies PROVE HelperRemoteStep(d)
  <2>1. inbox' = <<>> /\ outbox' = outbox /\ call' = call
    BY <1>12 DEF HelperDies
  <2>2. ~ Holds(inbox, d)' /\ (Holds(outbox, d)' <=> Holds(outbox, d))
    BY <2>1 DEF Holds
  <2> QED BY <1>12, <2>1, <2>2, <1>d, <1>e DEF HelperRemoteStep
<1>13. ASSUME call[d].pc \in {"asked", "failed"}, WorldChanges \/ UNCHANGED helperVars
       PROVE  HelperRemoteStep(d)
  <2>1. UNCHANGED <<inbox, outbox, call>>
    BY <1>13 DEF WorldChanges, HelperStays, helperVars
  <2>2. (Holds(inbox, d)' <=> Holds(inbox, d)) /\ (Holds(outbox, d)' <=> Holds(outbox, d))
    BY <2>1 DEF Holds
  <2> QED BY <1>13, <2>1, <2>2, <1>d, <1>e DEF HelperRemoteStep
<1>14. ASSUME call[d].pc \notin {"asked", "failed"},
              Serve \/ Babble \/ HelperDies \/ WorldChanges \/ UNCHANGED helperVars
       PROVE  HelperRemoteStep(d)
  <2>1. call' = call
    BY <1>14 DEF Serve, Babble, HelperDies, WorldChanges, helperVars
  <2> QED BY <1>14, <2>1, OnlyAskedMatters DEF HelperRemoteStep
<1>15. CallStep(d) => HelperRemoteStep(d)
  BY <1>4, <1>5, <1>6, <1>7, <1>8, <1>9, <1>f DEF CallStep
<1> QED BY <1>1, <1>2, <1>3, <1>10, <1>11, <1>12, <1>13, <1>14, <1>15 DEF HelperNext

\* The client of the helper keeps what RemoteCall promises: what it has asked is done
\* at most once, whichever helpers die or are replaced and whatever they ask of their
\* own accord, and an answer is given only to what was done, for the call that gets it.
THEOREM HelperImplementsRemoteCall == HelperSpec => HelperContract
<1>1. HelperInit => HelperRemote!Init /\ Numbers
  BY DEF HelperInit, HelperRemote!Init, HelperFate, HelperReply, NoCall, At, Numbers
<1>2. HelperInv /\ HelperInv' /\ Numbers /\ [HelperNext]_helperVars =>
        [HelperRemote!Next]_(HelperRemote!remoteVars)
  <2> SUFFICES ASSUME HelperInv, HelperInv', Numbers, [HelperNext]_helperVars
               PROVE  HelperRemote!Next
    OBVIOUS
  <2>1. \A d \in Client : HelperRemoteStep(d)
    BY HelperRemoteStepHolds
  <2> QED
    BY <2>1
       DEF HelperRemoteStep, HelperRemote!Next, HelperRemote!Step, HelperRemote!Becomes,
           HelperRemote!Asked, HelperRemote!Done, HelperRemote!Dropped, HelperRemote!Answered,
           HelperRemote!Failed, HelperRemote!Begins
<1> QED
  BY <1>1, <1>2, NumbersStep, HelperInvariant, PTL DEF HelperSpec, HelperContract, HelperRemote!Spec

\* That is AnswersMatch and more: not only has an answer the number of its question,
\* the question has been dealt with, once.
THEOREM ContractAnswersMatch == HelperContract => []AnswersMatch
<1> USE DEF HelperRemote!Kept
<1>1. HelperRemote!Init => HelperRemote!Kept
  BY DEF HelperRemote!Init
<1>2. HelperRemote!Kept /\ [HelperRemote!Next]_(HelperRemote!remoteVars) => HelperRemote!Kept'
  BY DEF HelperRemote!Next, HelperRemote!remoteVars, HelperRemote!Step, HelperRemote!Becomes,
         HelperRemote!Asked, HelperRemote!Done, HelperRemote!Dropped, HelperRemote!Answered,
         HelperRemote!Failed, HelperRemote!Begins
<1>3. HelperRemote!Kept => AnswersMatch
  <2> SUFFICES ASSUME HelperRemote!Kept, NEW c \in Client, At(c, "done")
               PROVE  call[c].got = call[c].serial
    BY DEF AnswersMatch
  <2>1. HelperReply(c) = "answer" => HelperFate(c) = "done"
    OBVIOUS
  <2> QED BY <2>1 DEF HelperFate, HelperReply, At
<1> QED BY <1>1, <1>2, <1>3, PTL DEF HelperContract, HelperRemote!Spec

-----------------------------------------------------------------------------
(* The bridge to the browser                                               *)

\* While a new connection waits for the old one to be closed, none is open.
Connections ==
  /\ LatestServes
  /\ mu # 0 => \A c \in Conn : sock[c] # "open"

Out(r) == pc[r] \in {"sent", "over", "done"}

Said(c, r) == \E i \in DOMAIN said[c] : said[c][i] = r

\* Two requests meet in the table only with the same reading of the clock.
Stamps ==
  /\ \A r \in Request : pc[r] # "idle" => id[r] \in Id
  /\ \A i \in Id : pending[i] # None =>
       id[pending[i]] = i /\ pc[pending[i]] \in {"registered", "sent", "over"}
  /\ \A r \in Request : slot[r] # None =>
       pc[r] # "idle" /\ Out(slot[r]) /\ id[slot[r]] = id[r]
  /\ \A r \in Request : got[r] # None =>
       pc[r] # "idle" /\ Out(got[r]) /\ id[got[r]] = id[r]

\* A request that was written is in one place of the connection it was written to
\* at most: with the extension, among its answers, or in the reader's hands.
Places ==
  /\ \A r \in Request : pc[r] = "registered" => via[r] \in Conn
  /\ \A c \in Conn : \A r \in asked[c] : via[r] = c /\ Out(r) /\ ~ Said(c, r)
  /\ \A c \in Conn, r \in Request : Said(c, r) => via[r] = c /\ Out(r)
  /\ \A c \in Conn : \A i, j \in DOMAIN said[c] : said[c][i] = said[c][j] => i = j
  /\ \A c \in Conn : reader[c] # AtRest =>
       LET a == reader[c].answer IN
       /\ a \in Request /\ via[a] = c /\ Out(a) /\ a \notin asked[c] /\ ~ Said(c, a)
       /\ reader[c].stage = "sending" =>
            reader[c].to \in Request /\ pc[reader[c].to] # "idle" /\ id[reader[c].to] = id[a]

\* What has been delivered is nowhere else.
Delivered ==
  \A r \in Request, c \in Conn : slot[r] # None =>
    slot[r] \notin asked[c] /\ ~ Said(c, slot[r]) /\ reader[c].answer # slot[r]

BrowserInv ==
  BrowserTypeOK /\ Connections /\ Stamps /\ Places /\ Delivered

LEMMA BrowserInvInit == BrowserInit => BrowserInv
<1> SUFFICES ASSUME BrowserInit PROVE BrowserInv
  OBVIOUS
<1> USE BrowserAssumption
<1>1. BrowserTypeOK
  BY DEF BrowserInit, BrowserTypeOK, AtRest
<1>2. Connections /\ Stamps
  BY DEF BrowserInit, Connections, LatestServes, Stamps
<1>3. Places /\ Delivered
  BY DEF BrowserInit, Places, Delivered, Said, AtRest
<1> QED BY <1>1, <1>2, <1>3 DEF BrowserInv

\* The steps of ext that change a connection and nothing a request knows of.
LEMMA ConnectionStep ==
  ASSUME BrowserInv, NEW c \in Conn,
         Accept(c) \/ Install(c) \/ Replace(c) \/ CleanUp(c) \/ Drop(c) \/ ReadEnds(c)
  PROVE  BrowserInv'
<1> USE BrowserAssumption
<1>1. /\ c # 0 /\ conn \in 0 .. MaxConns /\ mu \in 0 .. MaxConns
      /\ \A d \in 0 .. MaxConns : d # 0 => d \in Conn
      /\ sock \in [Conn -> {"none", "accepted", "open", "closing", "shut", "ended", "gone"}]
      /\ c \in 0 .. MaxConns
  BY DEF BrowserInv, BrowserTypeOK, Conn
<1>2. UNCHANGED <<reader, apiVars, pending, slot>>
  BY DEF Accept, Install, Replace, CleanUp, Drop, ReadEnds, apiVars
<1>3. /\ sock' \in [Conn -> {"none", "accepted", "open", "closing", "shut", "ended", "gone"}]
      /\ conn' \in 0 .. MaxConns /\ mu' \in 0 .. MaxConns
  <2>1. CASE Accept(c) \/ CleanUp(c) \/ Drop(c) \/ ReadEnds(c)
    BY <2>1, <1>1 DEF Accept, CleanUp, Drop, ReadEnds, Becomes
  <2>2. CASE Install(c)
    BY <2>2, <1>1 DEF Install, Becomes
  <2>3. CASE Replace(c)
    <3>1. /\ \A d \in Conn : sock'[d] \in {sock[d], "shut", "open"}
          /\ sock' = [d \in Conn |-> sock'[d]]
      BY <2>3, <1>1 DEF Replace
    <3>2. \A d \in Conn : sock'[d] \in {"none", "accepted", "open", "closing", "shut", "ended", "gone"}
      BY <3>1, <1>1
    <3>3. conn' = c /\ mu' = 0
      BY <2>3 DEF Replace
    <3> QED BY <3>1, <3>2, <3>3, <1>1
  <2> QED BY <2>1, <2>2, <2>3
<1>4. Connections'
  <2>1. CASE Accept(c)
    BY <2>1, <1>1 DEF Accept, Becomes, BrowserInv, Connections, LatestServes
  <2>2. CASE Install(c)
    <3>1. CASE conn = 0
      <4>1. \A d \in Conn : sock[d] # "open"
        BY <3>1, <1>1 DEF BrowserInv, Connections, LatestServes, Conn
      <4>2. mu' = 0 /\ conn' = c /\ \A d \in Conn \ {c} : sock'[d] = sock[d]
        BY <3>1, <2>2, <1>1 DEF Install, Becomes, MutexFree
      <4> QED BY <4>1, <4>2 DEF Connections, LatestServes
    <3>2. CASE conn # 0
      <4>1. /\ conn \in Conn /\ conn' = conn
            /\ sock' = [sock EXCEPT ![conn] = IF sock[conn] = "open" THEN "closing" ELSE sock[conn]]
        BY <3>2, <2>2, <1>1 DEF Install, Becomes
      <4>2. \A d \in Conn : sock'[d] # "open"
        BY <4>1, <1>1 DEF BrowserInv, Connections, LatestServes
      <4> QED BY <4>2 DEF Connections, LatestServes
    <3> QED BY <3>1, <3>2
  <2>3. CASE Replace(c)
    <3>1. /\ \A d \in Conn : sock[d] # "open"
          /\ conn' = c /\ mu' = 0
          /\ \A d \in Conn \ {c} : sock'[d] \in {sock[d], "shut"}
      BY <2>3, <1>1 DEF Replace, BrowserInv, Connections
    <3> QED BY <3>1 DEF Connections, LatestServes
  <2>4. CASE CleanUp(c) \/ Drop(c) \/ ReadEnds(c)
    BY <2>4, <1>1 DEF CleanUp, Drop, ReadEnds, Becomes, BrowserInv, Connections, LatestServes
  <2> QED BY <2>1, <2>2, <2>3, <2>4
<1>5. Stamps'
  BY <1>2 DEF apiVars, BrowserInv, Stamps, Out
<1>6. /\ asked' \in [Conn -> SUBSET Request] /\ said' \in [Conn -> Seq(Request)]
      /\ \A d \in Conn : asked'[d] \subseteq asked[d] /\ said'[d] \in {said[d], <<>>}
  <2>1. asked \in [Conn -> SUBSET Request] /\ said \in [Conn -> Seq(Request)]
    BY DEF BrowserInv, BrowserTypeOK
  <2>2. CASE ReadEnds(c)
    BY <2>1, <2>2 DEF ReadEnds
  <2>3. CASE ~ ReadEnds(c)
    BY <2>1, <2>3 DEF Accept, Install, Replace, CleanUp, Drop
  <2> QED BY <2>2, <2>3
<1>7. \A d \in Conn, r \in Request : Said(d, r)' => Said(d, r)
  BY <1>6 DEF Said
<1>8. Places'
  <2>1. \A d \in Conn : \A i, j \in DOMAIN said'[d] : said'[d][i] = said'[d][j] => i = j
    BY <1>6 DEF BrowserInv, Places
  <2> QED BY <2>1, <1>2, <1>6, <1>7 DEF apiVars, BrowserInv, BrowserTypeOK, Places, Out
<1>9. Delivered'
  BY <1>2, <1>6, <1>7 DEF apiVars, BrowserInv, BrowserTypeOK, Delivered
<1> QED BY <1>2, <1>3, <1>4, <1>5, <1>6, <1>8, <1>9 DEF apiVars, BrowserInv, BrowserTypeOK

\* The reader takes an answer into its hands, looks up whom it is for, and delivers it.
LEMMA ReaderStep ==
  ASSUME BrowserInv, NEW c \in Conn, ReadAnswer(c) \/ LookUp(c) \/ Deliver(c)
  PROVE  BrowserInv'
<1> USE BrowserAssumption
<1> DEFINE Hands == [stage : {"reading", "read", "sending"},
                     answer : Request \cup {None}, to : Request \cup {None}]
<1>1. /\ reader \in [Conn -> Hands] /\ said \in [Conn -> Seq(Request)]
      /\ slot \in [Request -> Request \cup {None}] /\ pending \in [Id -> Request \cup {None}]
      /\ AtRest \in Hands /\ AtRest.answer = None /\ AtRest.stage = "reading"
  BY DEF BrowserInv, BrowserTypeOK, AtRest
<1>2. UNCHANGED <<sock, conn, mu, asked, apiVars, pending>>
  BY DEF ReadAnswer, LookUp, Deliver
<1>3. Connections'
  BY <1>2 DEF BrowserInv, Connections, LatestServes
<1>4. CASE ReadAnswer(c)
  <2>0. PICK a \in Request : a = Head(said[c])
    <3>1. said[c] \in Seq(Request) /\ said[c] # <<>>
      BY <1>1, <1>4 DEF ReadAnswer
    <3> QED BY <3>1, TailElements
  <2>1. /\ said[c] \in Seq(Request) /\ said[c] # <<>> /\ reader[c] = AtRest
        /\ said' = [said EXCEPT ![c] = Tail(said[c])]
        /\ reader' = [reader EXCEPT ![c] = [stage |-> "read", answer |-> a, to |-> None]]
        /\ slot' = slot
    BY <2>0, <1>1, <1>4 DEF ReadAnswer
  <2>2. /\ Tail(said[c]) \in Seq(Request) /\ a \in Request /\ a = said[c][1] /\ 1 \in DOMAIN said[c]
        /\ \A i \in DOMAIN Tail(said[c]) :
             i # 0 /\ i + 1 \in DOMAIN said[c] /\ Tail(said[c])[i] = said[c][i + 1]
        /\ \A i, j \in DOMAIN Tail(said[c]) : i + 1 = j + 1 => i = j
        /\ \A i \in DOMAIN Tail(said[c]) : i + 1 # 1
    <3>1. \A i \in DOMAIN Tail(said[c]) : i \in Nat \ {0}
      BY <2>1
    <3> QED BY <2>0, <2>1, <3>1, TailElements
  <2>3. /\ said'[c] = Tail(said[c]) /\ \A d \in Conn \ {c} : said'[d] = said[d]
        /\ reader'[c] = [stage |-> "read", answer |-> a, to |-> None]
        /\ \A d \in Conn \ {c} : reader'[d] = reader[d]
        /\ said' \in [Conn -> Seq(Request)] /\ reader' \in [Conn -> Hands]
    BY <1>1, <2>1, <2>2
  <2>4. \A d \in Conn, r \in Request : Said(d, r)' => Said(d, r)
    <3>1. \A r \in Request : Said(c, r)' => Said(c, r)
      BY <2>2, <2>3 DEF Said
    <3>2. \A d \in Conn \ {c}, r \in Request : Said(d, r)' => Said(d, r)
      BY <2>3 DEF Said
    <3> QED BY <3>1, <3>2
  <2>5. Said(c, a) /\ ~ Said(c, a)'
    <3>1. Said(c, a)
      BY <2>2 DEF Said
    <3>2. \A i \in DOMAIN said'[c] : said'[c][i] # a
      BY <2>2, <2>3 DEF BrowserInv, Places
    <3> QED BY <3>1, <3>2 DEF Said
  <2>6. BrowserTypeOK'
    BY <1>2, <2>1, <2>3 DEF apiVars, BrowserInv, BrowserTypeOK
  <2>7. Stamps'
    BY <1>2, <2>1 DEF apiVars, BrowserInv, Stamps, Out
  <2>8. Places'
    <3>1. \A d \in Conn : \A r \in asked[d] : via[r] = d /\ Out(r) /\ ~ Said(d, r)'
      BY <2>4 DEF BrowserInv, BrowserTypeOK, Places
    <3>2. \A d \in Conn : \A i, j \in DOMAIN said'[d] : said'[d][i] = said'[d][j] => i = j
      <4>1. \A d \in Conn : \A i, j \in DOMAIN said[d] : said[d][i] = said[d][j] => i = j
        BY DEF BrowserInv, Places
      <4>2. \A i, j \in DOMAIN Tail(said[c]) : Tail(said[c])[i] = Tail(said[c])[j] => i = j
        BY <4>1, <2>2
      <4> QED BY <4>1, <4>2, <2>3
    <3>3. \A d \in Conn \ {c} : reader'[d] # AtRest =>
            LET x == reader[d].answer IN
            /\ x \in Request /\ via[x] = d /\ Out(x) /\ x \notin asked[d] /\ ~ Said(d, x)'
            /\ reader[d].stage = "sending" =>
                 reader[d].to \in Request /\ pc[reader[d].to] # "idle" /\ id[reader[d].to] = id[x]
      BY <2>3, <2>4 DEF BrowserInv, Places
    <3>4. via[a] = c /\ Out(a) /\ a \notin asked[c] /\ ~ Said(c, a)'
      BY <2>2, <2>5 DEF BrowserInv, Places
    <3>5. \A d \in Conn, r \in Request : Said(d, r)' => via[r] = d /\ Out(r)
      BY <2>4 DEF BrowserInv, Places
    <3>6. reader'[c].answer = a /\ reader'[c].stage = "read"
      BY <2>3
    <3>7. \A r \in Request : pc[r] = "registered" => via[r] \in Conn
      BY DEF BrowserInv, Places
    <3>8. UNCHANGED <<asked, pc, via, id>> /\ \A r \in Request : Out(r)' = Out(r)
      BY <1>2 DEF apiVars, Out
    <3>9. (\A d \in Conn : reader[d] # AtRest =>
             LET x == reader[d].answer IN
             /\ x \in Request /\ via[x] = d /\ Out(x) /\ x \notin asked[d] /\ ~ Said(d, x)
             /\ reader[d].stage = "sending" =>
                  reader[d].to \in Request /\ pc[reader[d].to] # "idle"
                  /\ id[reader[d].to] = id[x])'
      <4> SUFFICES ASSUME NEW d \in Conn, (reader[d] # AtRest)'
                   PROVE  (LET x == reader[d].answer IN
                           /\ x \in Request /\ via[x] = d /\ Out(x) /\ x \notin asked[d]
                           /\ ~ Said(d, x)
                           /\ reader[d].stage = "sending" =>
                                reader[d].to \in Request /\ pc[reader[d].to] # "idle"
                                /\ id[reader[d].to] = id[x])'
        OBVIOUS
      <4>1. CASE d = c
        BY <4>1, <3>4, <3>6, <3>8 DEF Said
      <4>2. CASE d # c
        BY <4>2, <3>3, <3>8, <2>3 DEF Said
      <4> QED BY <4>1, <4>2
    <3>10. (\A d \in Conn : \A r \in asked[d] : via[r] = d /\ Out(r) /\ ~ Said(d, r))'
      BY <3>1, <3>8 DEF BrowserInv, BrowserTypeOK, Out
    <3>11. (\A d \in Conn, r \in Request : Said(d, r) => via[r] = d /\ Out(r))'
      BY <3>5, <3>8 DEF Out
    <3> QED BY <3>2, <3>7, <3>8, <3>9, <3>10, <3>11 DEF Places
  <2>9. Delivered'
    <3>1. \A r \in Request : slot[r] # a
      BY <2>5 DEF BrowserInv, Delivered, Stamps
    <3> QED BY <3>1, <2>1, <2>2, <2>3, <2>4, <1>1, <1>2 DEF BrowserInv, Delivered
  <2> QED BY <2>6, <2>7, <2>8, <2>9, <1>3 DEF BrowserInv
<1>5. CASE LookUp(c)
  <2>0. PICK a \in Request : a = reader[c].answer
    BY <1>1, <1>5 DEF LookUp, BrowserInv, Places
  <2> DEFINE q == IF pending[id[a]] = None THEN AtRest
                  ELSE [reader[c] EXCEPT !.stage = "sending", !.to = pending[id[a]]]
  <2>1. /\ reader[c].stage = "read" /\ reader[c] # AtRest
        /\ reader' = [reader EXCEPT ![c] = q] /\ said' = said /\ slot' = slot
    BY <2>0, <1>1, <1>5 DEF LookUp
  <2>2. /\ a \in Request /\ via[a] = c /\ Out(a) /\ a \notin asked[c] /\ ~ Said(c, a)
        /\ id[a] \in Id
    BY <2>0, <2>1 DEF BrowserInv, Places, Stamps, Out
  <2>3. /\ q # AtRest => /\ q \in Hands /\ q.answer = a /\ q.stage = "sending"
                         /\ q.to \in Request /\ pc[q.to] # "idle" /\ id[q.to] = id[a]
        /\ q \in Hands
    <3>1. CASE pending[id[a]] = None
      BY <3>1, <1>1
    <3>2. CASE pending[id[a]] # None
      <4>1. /\ pending[id[a]] \in Request /\ id[pending[id[a]]] = id[a]
            /\ pc[pending[id[a]]] # "idle"
        <5>1. pending[id[a]] \in Request /\ id[a] \in Id
          BY <3>2, <2>2, <1>1
        <5> QED BY <5>1, <3>2 DEF BrowserInv, Stamps
      <4>2. q = [stage |-> "sending", answer |-> a, to |-> pending[id[a]]]
        BY <3>2, <2>0, <2>1, <1>1
      <4> QED BY <4>1, <4>2, <2>2
    <3> QED BY <3>1, <3>2
  <2> HIDE DEF q
  <2>4. /\ reader'[c] = q /\ \A d \in Conn \ {c} : reader'[d] = reader[d]
        /\ reader' \in [Conn -> Hands]
    BY <1>1, <2>1, <2>3
  <2>5. BrowserTypeOK'
    BY <1>2, <2>1, <2>4 DEF apiVars, BrowserInv, BrowserTypeOK
  <2>6. Stamps'
    BY <1>2, <2>1 DEF apiVars, BrowserInv, Stamps, Out
  <2>7. Places'
    BY <1>2, <2>1, <2>2, <2>3, <2>4 DEF apiVars, BrowserInv, Places, Out, Said
  <2>8. Delivered'
    <3>1. q = AtRest \/ q.answer = a
      BY <2>3
    <3>2. \A r \in Request, d \in Conn : slot[r] # None => reader'[d].answer # slot[r]
      <4> SUFFICES ASSUME NEW r \in Request, NEW d \in Conn, slot[r] # None
                   PROVE  reader'[d].answer # slot[r]
        OBVIOUS
      <4>1. reader[d].answer # slot[r] /\ reader[c].answer # slot[r]
        BY DEF BrowserInv, Delivered
      <4>2. CASE d = c
        BY <4>1, <4>2, <3>1, <2>0, <2>4 DEF AtRest
      <4>3. CASE d # c
        BY <4>1, <4>3, <2>4
      <4> QED BY <4>2, <4>3
    <3> QED BY <3>2, <1>2, <2>1 DEF BrowserInv, Delivered, Said
  <2> QED BY <2>5, <2>6, <2>7, <2>8, <1>3 DEF BrowserInv
<1>6. CASE Deliver(c)
  <2> DEFINE a == reader[c].answer
             t == reader[c].to
  <2>1. /\ reader[c].stage = "sending" /\ reader[c] # AtRest
        /\ reader' = [reader EXCEPT ![c] = AtRest] /\ said' = said
        /\ slot' = [slot EXCEPT ![t] = a]
    BY <1>1, <1>6 DEF Deliver
  <2>2. /\ a \in Request /\ via[a] = c /\ Out(a) /\ a \notin asked[c] /\ ~ Said(c, a)
        /\ t \in Request /\ pc[t] # "idle" /\ id[t] = id[a]
    BY <2>1 DEF BrowserInv, Places
  <2>3. /\ reader'[c] = AtRest /\ \A d \in Conn \ {c} : reader'[d] = reader[d]
        /\ reader' \in [Conn -> Hands]
        /\ slot'[t] = a /\ \A r \in Request \ {t} : slot'[r] = slot[r]
        /\ slot' \in [Request -> Request \cup {None}]
    BY <1>1, <2>1, <2>2
  <2> HIDE DEF a, t
  <2>4. BrowserTypeOK'
    BY <1>2, <2>1, <2>3 DEF apiVars, BrowserInv, BrowserTypeOK
  <2>5. Stamps'
    BY <1>2, <2>2, <2>3 DEF apiVars, BrowserInv, Stamps, Out
  <2>6. Places'
    BY <1>2, <2>1, <2>3 DEF apiVars, BrowserInv, Places, Out, Said
  <2>7. Delivered'
    <3>1. \A d \in Conn : a \notin asked[d] /\ ~ Said(d, a)
      BY <2>2 DEF BrowserInv, BrowserTypeOK, Places
    <3>2. \A d \in Conn : reader'[d].answer # a
      <4> SUFFICES ASSUME NEW d \in Conn PROVE reader'[d].answer # a
        OBVIOUS
      <4>1. a # None
        BY <2>2
      <4>2. CASE d = c \/ reader[d] = AtRest
        BY <4>1, <4>2, <2>3, <1>1
      <4>3. CASE d # c /\ reader[d] # AtRest
        <5>1. reader[d].answer # a
          BY <4>3, <2>2 DEF BrowserInv, Places
        <5> QED BY <5>1, <4>3, <2>3
      <4> QED BY <4>2, <4>3
    <3>3. \A r \in Request, d \in Conn : slot[r] # None => reader'[d].answer # slot[r]
      BY <2>3, <1>1 DEF BrowserInv, Delivered
    <3> QED BY <3>1, <3>2, <3>3, <1>2, <2>1, <2>3 DEF BrowserInv, Delivered, Said
  <2> QED BY <2>4, <2>5, <2>6, <2>7, <1>3 DEF BrowserInv
<1> QED BY <1>4, <1>5, <1>6

\* The extension answers a request that it has.
LEMMA AnswerStep ==
  ASSUME BrowserInv, NEW c \in Conn, NEW q \in Request, Answer(c, q)
  PROVE  BrowserInv'
<1> USE BrowserAssumption
<1>1. /\ UNCHANGED <<sock, conn, mu, reader, apiVars, pending, slot>>
      /\ asked \in [Conn -> SUBSET Request] /\ said \in [Conn -> Seq(Request)] /\ q \in asked[c]
  BY DEF Answer, BrowserInv, BrowserTypeOK
<1>2. /\ asked'[c] = asked[c] \ {q} /\ \A d \in Conn \ {c} : asked'[d] = asked[d]
      /\ said'[c] = Append(said[c], q) /\ \A d \in Conn \ {c} : said'[d] = said[d]
      /\ asked' \in [Conn -> SUBSET Request] /\ said' = [d \in Conn |-> said'[d]]
  BY <1>1 DEF Answer
<1>3. /\ said'[c] \in Seq(Request)
      /\ \A i \in DOMAIN said'[c] :
           \/ i \in DOMAIN said[c] /\ said'[c][i] = said[c][i]
           \/ i = Len(said[c]) + 1 /\ said'[c][i] = q
  <2>1. said[c] \in Seq(Request)
    BY <1>1
  <2> QED BY <2>1, <1>2, AppendElements
<1>4. \A d \in Conn, r \in Request : Said(d, r)' => Said(d, r) \/ (d = c /\ r = q)
  BY <1>2, <1>3 DEF Said
<1>5. /\ via[q] = c /\ Out(q) /\ ~ Said(c, q)
      /\ \A r \in Request : slot[r] # q
      /\ \A d \in Conn : reader[d] # AtRest => reader[d].answer # q
  BY <1>1 DEF BrowserInv, Places, Delivered
<1>6. BrowserTypeOK'
  BY <1>1, <1>2, <1>3 DEF apiVars, BrowserInv, BrowserTypeOK
<1>7. Connections' /\ Stamps'
  BY <1>1 DEF apiVars, BrowserInv, Connections, LatestServes, Stamps, Out
<1>8. Places'
  <2>1. UNCHANGED <<reader, pc, via, id>> /\ \A r \in Request : Out(r)' = Out(r)
    BY <1>1 DEF apiVars, Out
  <2>2. (\A d \in Conn : \A r \in asked[d] : via[r] = d /\ Out(r) /\ ~ Said(d, r))'
    <3> SUFFICES ASSUME NEW d \in Conn, NEW r \in asked'[d]
                 PROVE  via[r] = d /\ Out(r) /\ ~ Said(d, r)'
      BY <2>1, <1>2
    <3>1. r \in asked[d] /\ r \in Request /\ ~ (d = c /\ r = q)
      BY <1>1, <1>2
    <3> QED BY <3>1, <1>4 DEF BrowserInv, Places
  <2>3. (\A d \in Conn, r \in Request : Said(d, r) => via[r] = d /\ Out(r))'
    BY <2>1, <1>4, <1>5 DEF BrowserInv, Places
  <2>4. \A d \in Conn : \A i, j \in DOMAIN said'[d] : said'[d][i] = said'[d][j] => i = j
    <3>1. \A d \in Conn : \A i, j \in DOMAIN said[d] : said[d][i] = said[d][j] => i = j
      BY DEF BrowserInv, Places
    <3>2. \A i \in DOMAIN said[c] : said[c][i] # q
      BY <1>5 DEF Said
    <3>3. \A i, j \in DOMAIN said'[c] : said'[c][i] = said'[c][j] => i = j
      BY <3>1, <3>2, <1>3
    <3> QED BY <3>1, <3>3, <1>2
  <2>5. (\A d \in Conn : reader[d] # AtRest =>
           LET x == reader[d].answer IN
           /\ x \in Request /\ via[x] = d /\ Out(x) /\ x \notin asked[d] /\ ~ Said(d, x)
           /\ reader[d].stage = "sending" =>
                reader[d].to \in Request /\ pc[reader[d].to] # "idle"
                /\ id[reader[d].to] = id[x])'
    <3> SUFFICES ASSUME NEW d \in Conn, reader[d] # AtRest, NEW x, x = reader[d].answer
                 PROVE  /\ x \in Request /\ via[x] = d /\ Out(x) /\ x \notin asked'[d]
                        /\ ~ (\E i \in DOMAIN said'[d] : said'[d][i] = x)
                        /\ reader[d].stage = "sending" =>
                             reader[d].to \in Request /\ pc[reader[d].to] # "idle"
                             /\ id[reader[d].to] = id[x]
      BY <2>1 DEF Said, Out, AtRest
    <3>1. /\ x \in Request /\ via[x] = d /\ Out(x) /\ x \notin asked[d] /\ ~ Said(d, x)
          /\ reader[d].stage = "sending" =>
               reader[d].to \in Request /\ pc[reader[d].to] # "idle"
               /\ id[reader[d].to] = id[x]
      BY DEF BrowserInv, Places
    <3>2. x # q /\ ~ Said(d, x)'
      BY <3>1, <1>4, <1>5
    <3> QED BY <3>1, <3>2, <1>2 DEF Said
  <2>6. \A r \in Request : pc[r] = "registered" => via[r] \in Conn
    BY DEF BrowserInv, Places
  <2> QED BY <2>1, <2>2, <2>3, <2>4, <2>5, <2>6 DEF Places
<1>9. Delivered'
  <2> SUFFICES ASSUME NEW r \in Request, NEW d \in Conn, slot[r] # None, NEW x, x = slot[r]
               PROVE  x \notin asked'[d] /\ ~ (\E i \in DOMAIN said'[d] : said'[d][i] = x)
                      /\ reader[d].answer # x
    BY <1>1 DEF Delivered, Said
  <2>1. x \in Request /\ x # q /\ x \notin asked[d] /\ ~ Said(d, x) /\ reader[d].answer # x
    BY <1>5 DEF BrowserInv, BrowserTypeOK, Delivered
  <2>2. ~ Said(d, x)'
    BY <2>1, <1>4
  <2> QED BY <2>1, <2>2, <1>2 DEF Said
<1> QED BY <1>6, <1>7, <1>8, <1>9 DEF BrowserInv

\* The steps of api.
LEMMA ApiSteps ==
  ASSUME BrowserInv, NEW q \in Request, ApiStep(q) \/ \E i \in Id : Stamp(q, i)
  PROVE  BrowserInv'
<1> USE BrowserAssumption
<1>1. /\ pc \in [Request -> {"idle", "stamped", "registered", "sent", "over", "done"}]
      /\ id \in [Request -> Id \cup {None}] /\ via \in [Request -> 0 .. MaxConns]
      /\ pending \in [Id -> Request \cup {None}] /\ conn \in 0 .. MaxConns
      /\ slot \in [Request -> Request \cup {None}] /\ got \in [Request -> Request \cup {None}]
      /\ asked \in [Conn -> SUBSET Request]
  BY DEF BrowserInv, BrowserTypeOK
<1>2. UNCHANGED <<sock, conn, mu, reader, said>>
  BY DEF ApiStep, Stamp, Register, Write, WriteFails, TakeAnswer, TimeOut, Unregister, extVars
<1>3. Connections'
  BY <1>2 DEF BrowserInv, Connections, LatestServes
<1>4. /\ \A r \in Request \ {q} : pc'[r] = pc[r]
      /\ pc' \in [Request -> {"idle", "stamped", "registered", "sent", "over", "done"}]
      /\ pc'[q] # "idle" /\ (Out(q) => pc'[q] \in {"sent", "over", "done"})
  BY <1>1 DEF ApiStep, Stamp, Register, Write, WriteFails, TakeAnswer, TimeOut, Unregister, Moves, Out
<1>5. \A r \in Request : Out(r) => Out(r)'
  BY <1>4 DEF Out
<1>6. \A d \in Conn, r \in Request : Said(d, r)' = Said(d, r)
  BY <1>2 DEF Said
<1>7. ASSUME UNCHANGED <<asked, via>>, \A r \in Request : pc[r] # "idle" => id'[r] = id[r],
             pc'[q] # "registered"
      PROVE  Places'
  <2>1. \A r \in Request : Out(r) => Out(r)' /\ id'[r] = id[r]
    BY <1>5, <1>7 DEF Out
  <2>2. \A r \in Request : pc'[r] = "registered" => via[r] \in Conn
    BY <1>4, <1>7 DEF BrowserInv, Places
  <2>3. \A r \in Request : pc[r] # "idle" => pc'[r] # "idle" /\ id'[r] = id[r]
    BY <1>4, <1>7
  <2> QED BY <2>1, <2>2, <2>3, <1>1, <1>2, <1>6, <1>7 DEF BrowserInv, Places
<1>8. ASSUME UNCHANGED asked, \A r \in Request : slot'[r] \in {slot[r], None}
      PROVE  Delivered'
  BY <1>1, <1>2, <1>6, <1>8 DEF BrowserInv, Delivered
<1>9. CASE \E i \in Id : Stamp(q, i)
  <2>1. PICK i \in Id : Stamp(q, i)
    BY <1>9
  <2>2. /\ pc[q] = "idle" /\ id'[q] = i /\ \A r \in Request \ {q} : id'[r] = id[r]
        /\ id' \in [Request -> Id \cup {None}] /\ pc'[q] = "stamped"
        /\ UNCHANGED <<asked, via, got, pending, slot>>
    BY <2>1, <1>1 DEF Stamp, Moves, extVars
  <2>3. ~ Out(q)
    BY <2>2 DEF Out
  <2>4. BrowserTypeOK'
    BY <2>2, <1>2, <1>4 DEF BrowserInv, BrowserTypeOK
  <2>5. Stamps'
    BY <2>2, <2>3, <1>1, <1>4, <1>5 DEF BrowserInv, Stamps
  <2>6. Places' /\ Delivered'
    BY <2>2, <1>7, <1>8
  <2> QED BY <2>4, <2>5, <2>6, <1>3 DEF BrowserInv
<1>10. CASE Register(q)
  <2>1. pc[q] = "stamped" /\ id[q] \in Id /\ UNCHANGED <<asked, id, got, slot>> /\ ~ Out(q)
    BY <1>10 DEF Register, extVars, BrowserInv, Stamps, Out
  <2>2. CASE conn = 0
    <3>1. pc'[q] = "done" /\ UNCHANGED <<pending, via>>
      BY <2>2, <1>1, <1>10 DEF Register, Moves
    <3>2. BrowserTypeOK'
      BY <2>1, <3>1, <1>2, <1>4 DEF BrowserInv, BrowserTypeOK
    <3>3. Stamps'
      BY <2>1, <3>1, <1>1, <1>4, <1>5 DEF BrowserInv, Stamps
    <3>4. Places' /\ Delivered'
      BY <2>1, <3>1, <1>7, <1>8
    <3> QED BY <3>2, <3>3, <3>4, <1>3 DEF BrowserInv
  <2>3. CASE conn # 0
    <3>1. /\ conn \in Conn /\ pc'[q] = "registered"
          /\ pending' = [pending EXCEPT ![id[q]] = q] /\ via' = [via EXCEPT ![q] = conn]
      BY <2>3, <1>1, <1>10 DEF Register, Moves, Conn
    <3>2. BrowserTypeOK'
      BY <2>1, <3>1, <1>1, <1>2, <1>4 DEF BrowserInv, BrowserTypeOK
    <3>3. Stamps'
      <4>1. \A i \in Id : pending'[i] = IF i = id[q] THEN q ELSE pending[i]
        BY <3>1, <1>1
      <4>2. \A i \in Id : pending[i] # None =>
              pending[i] \in Request /\ pending[i] # q /\ id[pending[i]] = i
              /\ pc'[pending[i]] \in {"registered", "sent", "over"}
        BY <2>1, <1>1, <1>4 DEF BrowserInv, Stamps
      <4>3. \A i \in Id : pending'[i] # None =>
              id[pending'[i]] = i /\ pc'[pending'[i]] \in {"registered", "sent", "over"}
        BY <4>1, <4>2, <3>1
      <4>4. /\ \A r \in Request : slot[r] # None =>
                 pc'[r] # "idle" /\ Out(slot[r])' /\ id[slot[r]] = id[r]
            /\ \A r \in Request : got[r] # None =>
                 pc'[r] # "idle" /\ Out(got[r])' /\ id[got[r]] = id[r]
            /\ \A r \in Request : pc'[r] # "idle" => id[r] \in Id
        BY <2>1, <1>1, <1>4, <1>5 DEF BrowserInv, Stamps
      <4> QED BY <4>3, <4>4, <2>1 DEF Stamps, Out
    <3>4. Places'
      <4>1. via'[q] = conn /\ \A r \in Request \ {q} : via'[r] = via[r]
        BY <3>1, <1>1
      <4>2. \A r \in Request : Out(r) => Out(r)' /\ via'[r] = via[r]
        BY <4>1, <2>1, <1>5
      <4>3. \A r \in Request : pc'[r] = "registered" => via'[r] \in Conn
        BY <4>1, <3>1, <1>4 DEF BrowserInv, Places
      <4>4. \A r \in Request : pc[r] # "idle" => pc'[r] # "idle"
        BY <1>4
      <4> QED BY <4>2, <4>3, <4>4, <2>1, <1>1, <1>2, <1>6 DEF BrowserInv, Places
    <3>5. Delivered'
      BY <2>1, <1>8
    <3> QED BY <3>2, <3>3, <3>4, <3>5, <1>3 DEF BrowserInv
  <2> QED BY <2>2, <2>3
<1>11. CASE Write(q)
  <2>1. /\ pc[q] = "registered" /\ pc'[q] = "sent" /\ ~ Out(q) /\ Out(q)' /\ via[q] \in Conn
        /\ UNCHANGED <<id, via, got, pending, slot>>
        /\ asked' \in {asked, [asked EXCEPT ![via[q]] = @ \cup {q}]}
    BY <1>1, <1>11 DEF Write, Moves, Out, BrowserInv, Places
  <2>2. /\ asked' \in [Conn -> SUBSET Request]
        /\ \A d \in Conn : \A r \in asked'[d] : r \in asked[d] \/ (r = q /\ d = via[q])
    BY <2>1, <1>1
  <2>3. /\ \A d \in Conn : ~ Said(d, q) /\ (reader[d] # AtRest => reader[d].answer # q)
        /\ \A r \in Request : slot[r] # q
    BY <2>1 DEF BrowserInv, Places, Stamps
  <2>4. BrowserTypeOK'
    BY <2>1, <2>2, <1>2, <1>4 DEF BrowserInv, BrowserTypeOK
  <2>5. Stamps'
    BY <2>1, <1>1, <1>4, <1>5 DEF BrowserInv, Stamps
  <2>6. Places'
    <3>1. (\A d \in Conn : \A r \in asked[d] : via[r] = d /\ Out(r) /\ ~ Said(d, r))'
      <4> SUFFICES ASSUME NEW d \in Conn, NEW r \in asked'[d]
                   PROVE  via[r] = d /\ Out(r)' /\ ~ Said(d, r)
        BY <2>1, <2>2, <1>6
      <4>1. CASE r \in asked[d]
        BY <4>1, <1>1, <1>5 DEF BrowserInv, Places
      <4>2. CASE r = q /\ d = via[q]
        BY <4>2, <2>1, <2>3
      <4> QED BY <4>1, <4>2, <2>2
    <3>2. (\A d \in Conn, r \in Request : Said(d, r) => via[r] = d /\ Out(r))'
      BY <2>1, <1>5, <1>6 DEF BrowserInv, Places
    <3>3. (\A d \in Conn : reader[d] # AtRest =>
             LET a == reader[d].answer IN
             /\ a \in Request /\ via[a] = d /\ Out(a) /\ a \notin asked[d] /\ ~ Said(d, a)
             /\ reader[d].stage = "sending" =>
                  reader[d].to \in Request /\ pc[reader[d].to] # "idle"
                  /\ id[reader[d].to] = id[a])'
      <4> SUFFICES ASSUME NEW d \in Conn, reader[d] # AtRest, NEW a, a = reader[d].answer
                   PROVE  /\ a \in Request /\ via[a] = d /\ Out(a)' /\ a \notin asked'[d]
                          /\ ~ Said(d, a)'
                          /\ reader[d].stage = "sending" =>
                               reader[d].to \in Request /\ pc'[reader[d].to] # "idle"
                               /\ id[reader[d].to] = id[a]
        BY <2>1, <1>2 DEF Said, Out, AtRest
      <4>1. /\ a \in Request /\ via[a] = d /\ Out(a) /\ a \notin asked[d] /\ ~ Said(d, a)
            /\ reader[d].stage = "sending" =>
                 reader[d].to \in Request /\ pc[reader[d].to] # "idle"
                 /\ id[reader[d].to] = id[a]
        BY DEF BrowserInv, Places
      <4>2. a # q
        BY <2>3
      <4>3. \A r \in Request : pc[r] # "idle" => pc'[r] # "idle"
        BY <1>4
      <4> QED BY <4>1, <4>2, <4>3, <2>2, <1>5, <1>6
    <3>4. \A r \in Request : pc'[r] = "registered" => via[r] \in Conn
      BY <2>1, <1>4 DEF BrowserInv, Places
    <3>5. \A d \in Conn : \A i, j \in DOMAIN said[d] : said[d][i] = said[d][j] => i = j
      BY DEF BrowserInv, Places
    <3> QED BY <3>1, <3>2, <3>3, <3>4, <3>5, <2>1, <1>2 DEF Places
  <2>7. Delivered'
    BY <2>1, <2>2, <2>3, <1>1, <1>2, <1>6 DEF BrowserInv, Delivered
  <2> QED BY <2>4, <2>5, <2>6, <2>7, <1>3 DEF BrowserInv
<1>12. CASE WriteFails(q) \/ TimeOut(q)
  <2>1. /\ pc[q] \in {"registered", "sent"} /\ pc'[q] = "over"
        /\ UNCHANGED <<asked, id, via, got, pending, slot>>
    BY <1>1, <1>12 DEF WriteFails, TimeOut, Moves, extVars
  <2>2. BrowserTypeOK'
    BY <2>1, <1>2, <1>4 DEF BrowserInv, BrowserTypeOK
  <2>3. Stamps'
    BY <2>1, <1>1, <1>4, <1>5 DEF BrowserInv, Stamps
  <2>4. Places' /\ Delivered'
    BY <2>1, <1>7, <1>8
  <2> QED BY <2>2, <2>3, <2>4, <1>3 DEF BrowserInv
<1>13. CASE TakeAnswer(q)
  <2>1. /\ pc[q] = "sent" /\ pc'[q] = "over" /\ slot[q] # None
        /\ UNCHANGED <<asked, id, via, pending>>
        /\ got'[q] = slot[q] /\ slot'[q] = None
        /\ \A r \in Request \ {q} : got'[r] = got[r] /\ slot'[r] = slot[r]
        /\ got' \in [Request -> Request \cup {None}] /\ slot' \in [Request -> Request \cup {None}]
    BY <1>1, <1>13 DEF TakeAnswer, Moves, extVars
  <2>2. BrowserTypeOK'
    BY <2>1, <1>2, <1>4 DEF BrowserInv, BrowserTypeOK
  <2>3. Stamps'
    BY <2>1, <1>1, <1>4, <1>5 DEF BrowserInv, Stamps
  <2>4. Places' /\ Delivered'
    BY <2>1, <1>7, <1>8
  <2> QED BY <2>2, <2>3, <2>4, <1>3 DEF BrowserInv
<1>14. CASE Unregister(q)
  <2>1. /\ pc[q] = "over" /\ pc'[q] = "done" /\ UNCHANGED <<asked, id, via, got, slot>>
        /\ pending' = [pending EXCEPT ![id[q]] = None] /\ id[q] \in Id
    BY <1>1, <1>14 DEF Unregister, Moves, extVars, BrowserInv, Stamps
  <2>2. \A i \in Id : pending'[i] = IF i = id[q] THEN None ELSE pending[i]
    BY <2>1, <1>1
  <2>3. BrowserTypeOK'
    BY <2>1, <1>1, <1>2, <1>4 DEF BrowserInv, BrowserTypeOK
  <2>4. Stamps'
    <3>1. \A i \in Id : pending'[i] # None =>
            pending'[i] = pending[i] /\ pending[i] \in Request /\ pending[i] # q
      BY <2>2, <1>1 DEF BrowserInv, Stamps
    <3> QED BY <3>1, <2>1, <1>1, <1>4, <1>5 DEF BrowserInv, Stamps
  <2>5. Places' /\ Delivered'
    BY <2>1, <1>7, <1>8
  <2> QED BY <2>3, <2>4, <2>5, <1>3 DEF BrowserInv
<1> QED BY <1>9, <1>10, <1>11, <1>12, <1>13, <1>14 DEF ApiStep

LEMMA BrowserInvStep == BrowserInv /\ [BrowserNext]_browserVars => BrowserInv'
<1> SUFFICES ASSUME BrowserInv, [BrowserNext]_browserVars PROVE BrowserInv'
  OBVIOUS
<1>1. CASE UNCHANGED browserVars
  <2>1. UNCHANGED <<sock, conn, mu, reader, asked, said, pc, id, via, got, pending, slot>>
    BY <1>1 DEF browserVars, extVars, apiVars
  <2> QED BY <2>1 DEF BrowserInv, BrowserTypeOK, Connections, LatestServes, Stamps, Places,
                      Delivered, Out, Said
<1>2. ASSUME NEW c \in Conn,
             \/ Accept(c) \/ Install(c) \/ Replace(c) \/ ReadAnswer(c) \/ LookUp(c)
             \/ Deliver(c) \/ ReadEnds(c) \/ CleanUp(c) \/ Drop(c)
             \/ \E r \in Request : Answer(c, r)
      PROVE  BrowserInv'
  BY <1>2, ConnectionStep, ReaderStep, AnswerStep
<1>3. ASSUME NEW r \in Request, (\E i \in Id : Stamp(r, i)) \/ ApiStep(r)
      PROVE  BrowserInv'
  BY <1>3, ApiSteps
<1> QED BY <1>1, <1>2, <1>3 DEF BrowserNext

\* The state of the bridge is always what BrowserInv says
\* (cmd/cycom-browser-bridge/main.go:32-106).
THEOREM BrowserInvariant == BrowserSpec => []BrowserInv
<1>1. BrowserInit => BrowserInv
  BY BrowserInvInit
<1>2. BrowserInv /\ [BrowserNext]_browserVars => BrowserInv'
  BY BrowserInvStep
<1> QED BY <1>1, <1>2, PTL DEF BrowserSpec

\* Every variable of the bridge has its type.
THEOREM BrowserTypeCorrect == BrowserSpec => []BrowserTypeOK
<1>1. BrowserInv => BrowserTypeOK
  BY DEF BrowserInv
<1> QED BY <1>1, BrowserInvariant, PTL

\* Requests are written to the connection that was installed last.
THEOREM BrowserLatestServes == BrowserSpec => []LatestServes
<1>1. BrowserInv => LatestServes
  BY DEF BrowserInv, Connections
<1> QED BY <1>1, BrowserInvariant, PTL

\* A request returns the answer to itself, or to one with the same reading of the
\* clock.
THEOREM BrowserAnswerIsOwn == BrowserSpec => []AnswerIsOwn
<1>1. BrowserInv => AnswerIsOwn
  BY DEF BrowserInv, BrowserTypeOK, Stamps, AnswerIsOwn, Unshared
<1> QED BY <1>1, BrowserInvariant, PTL

\* The reader of answers finds room in the channel of every request with a reading
\* of its own.
THEOREM BrowserReaderNeverStuck == BrowserSpec => []ReaderNeverStuck
<1>1. BrowserInv => ReaderNeverStuck
  <2> SUFFICES ASSUME BrowserInv, NEW c \in Conn, reader[c].stage = "sending",
                      Unshared(reader[c].to)
               PROVE  slot[reader[c].to] = None
    BY DEF ReaderNeverStuck, Room
  <2>1. PICK a, t : a = reader[c].answer /\ t = reader[c].to
    OBVIOUS
  <2>2. a \in Request /\ t \in Request /\ id[t] = id[a]
    BY <2>1 DEF BrowserInv, Places, AtRest
  <2>3. a = t
    BY <2>1, <2>2 DEF Unshared
  <2>4. SUFFICES ASSUME slot[t] # None PROVE FALSE
    BY <2>1
  <2>5. slot[t] \in Request /\ id[slot[t]] = id[t]
    BY <2>2, <2>4 DEF BrowserInv, BrowserTypeOK, Stamps
  <2>6. slot[t] = t
    BY <2>1, <2>2, <2>5 DEF Unshared
  <2> QED BY <2>1, <2>2, <2>3, <2>4, <2>6 DEF BrowserInv, Delivered
<1> QED BY <1>1, BrowserInvariant, PTL

\* The pending table has entries of requests that are under way only.
THEOREM BrowserOnlyRequestsPending == BrowserSpec => []OnlyRequestsPending
<1>1. BrowserInv => OnlyRequestsPending
  BY DEF BrowserInv, Stamps, OnlyRequestsPending
<1> QED BY <1>1, BrowserInvariant, PTL

-----------------------------------------------------------------------------
(* The requests to the browser implement RemoteCall.                       *)

\* What a request has got, it has got when it was over.
Taken == \A r \in Request : got[r] # None => pc[r] \in {"over", "done"}

LEMMA TakenStep == BrowserInv /\ Taken /\ [BrowserNext]_browserVars => Taken'
<1> SUFFICES ASSUME BrowserInv, Taken, [BrowserNext]_browserVars PROVE Taken'
  OBVIOUS
<1>a. /\ pc \in [Request -> {"idle", "stamped", "registered", "sent", "over", "done"}]
      /\ got \in [Request -> Request \cup {None}]
  BY DEF BrowserInv, BrowserTypeOK
<1>1. ASSUME NEW c \in Conn,
             \/ Accept(c) \/ Install(c) \/ Replace(c) \/ ReadAnswer(c) \/ LookUp(c)
             \/ Deliver(c) \/ ReadEnds(c) \/ CleanUp(c) \/ Drop(c)
             \/ \E r \in Request : Answer(c, r)
      PROVE  UNCHANGED <<pc, got>>
  BY <1>1 DEF Accept, Install, Replace, ReadAnswer, LookUp, Deliver, ReadEnds, CleanUp, Drop,
              Answer, apiVars
<1>2. ASSUME NEW r \in Request, (\E i \in Id : Stamp(r, i)) \/ ApiStep(r) PROVE Taken'
  <2>1. CASE TakeAnswer(r)
    BY <2>1, <1>a DEF TakeAnswer, Moves, Taken
  <2>2. CASE ~ TakeAnswer(r)
    <3>1. /\ pc' = [pc EXCEPT ![r] = pc'[r]] /\ got' = got
          /\ pc[r] \in {"over", "done"} => pc'[r] = "done"
      BY <1>2, <2>2, <1>a DEF ApiStep, Stamp, Register, Write, WriteFails, TimeOut, Unregister, Moves
    <3> QED BY <3>1, <1>a DEF Taken
  <2> QED BY <2>1, <2>2
<1>3. UNCHANGED <<pc, got>> => Taken'
  BY DEF Taken
<1> QED BY <1>1, <1>2, <1>3 DEF BrowserNext, browserVars, apiVars

\* What a step does to the fate of a request, and to what its caller is told.
BrowserRemoteStep(r) ==
  \/ BrowserFate(r)' = BrowserFate(r) /\ BrowserReply(r)' = BrowserReply(r)
  \/ /\ BrowserFate(r) = "unasked" /\ BrowserReply(r) = "none"
     /\ BrowserFate(r)' \in {"asked", "lost"} /\ BrowserReply(r)' = "none"
  \/ /\ BrowserReply(r)' = BrowserReply(r)
     /\ \/ BrowserFate(r) = "asked" /\ BrowserFate(r)' = "done"
        \/ /\ BrowserFate(r) \in {"asked", "done"} /\ BrowserFate(r)' = "lost"
           /\ BrowserReply(r) # "answer"
  \/ /\ BrowserReply(r) = "none"
     /\ \/ BrowserFate(r) = "done" /\ BrowserFate(r)' = "done" /\ BrowserReply(r)' = "answer"
        \/ BrowserFate(r)' \in {BrowserFate(r), "lost"} /\ BrowserReply(r)' = "error"

InHands(r) == \E c \in Conn : r \in asked[c]

\* A request that has not been written is nowhere.
LEMMA NowhereYet ==
  ASSUME BrowserInv, NEW r \in Request, ~ Out(r)
  PROVE  ~ InHands(r) /\ ~ Replied(r)
<1>1. ~ InHands(r)
  BY DEF BrowserInv, Places, InHands
<1>2. \A c \in Conn : reader[c].answer # r /\ ~ Said(c, r)
  BY BrowserAssumption DEF BrowserInv, Places, AtRest
<1>3. slot[r] # r /\ got[r] # r
  BY BrowserAssumption DEF BrowserInv, Stamps
<1> QED BY <1>1, <1>2, <1>3 DEF Replied, Said

\* A request stays as far as it was where it is not handed on, but may be dropped,
\* and be answered by whoever has it.
LEMMA HandedOn ==
  ASSUME BrowserInv, NEW r \in Request,
         pc'[r] = pc[r], got'[r] = got[r], got[r] \in {None, r},
         InHands(r)' => InHands(r),
         Replied(r)' => Replied(r) \/ InHands(r)
  PROVE  BrowserRemoteStep(r)
<1>1. BrowserReply(r)' = BrowserReply(r)
  BY DEF BrowserReply
<1>2. pc[r] \in {"idle", "stamped", "registered", "sent", "over", "done"}
  BY DEF BrowserInv, BrowserTypeOK
<1>3. CASE pc[r] \in {"idle", "stamped", "registered"}
  <2>1. BrowserFate(r) = "unasked" /\ BrowserFate(r)' = "unasked"
    BY <1>3 DEF BrowserFate
  <2> QED BY <1>1, <2>1 DEF BrowserRemoteStep
<1>4. CASE pc[r] \in {"sent", "over", "done"}
  <2>1. /\ BrowserFate(r) = IF InHands(r) THEN "asked" ELSE IF Replied(r) THEN "done" ELSE "lost"
        /\ BrowserFate(r)' = IF InHands(r)' THEN "asked" ELSE IF Replied(r)' THEN "done" ELSE "lost"
    BY <1>4 DEF BrowserFate, InHands
  <2>2. BrowserReply(r) = "answer" => Replied(r)'
    BY DEF BrowserReply, Replied
  <2> QED BY <1>1, <2>1, <2>2 DEF BrowserRemoteStep
<1> QED BY <1>2, <1>3, <1>4

\* What ext and the extension do.
LEMMA ExtRemoteStep ==
  ASSUME BrowserInv, BrowserInv', NEW r \in Request, Unshared(r)', NEW c \in Conn,
         \/ Accept(c) \/ Install(c) \/ Replace(c) \/ ReadAnswer(c) \/ LookUp(c)
         \/ Deliver(c) \/ ReadEnds(c) \/ CleanUp(c) \/ Drop(c)
         \/ \E s \in Request : Answer(c, s)
  PROVE  BrowserRemoteStep(r)
<1>a. /\ reader \in [Conn -> [stage : {"reading", "read", "sending"},
                              answer : Request \cup {None}, to : Request \cup {None}]]
      /\ asked \in [Conn -> SUBSET Request] /\ said \in [Conn -> Seq(Request)]
      /\ slot \in [Request -> Request \cup {None}] /\ got \in [Request -> Request \cup {None}]
      /\ r # None
  BY BrowserAssumption DEF BrowserInv, BrowserTypeOK
<1>b. UNCHANGED <<pc, id, got>>
  BY DEF Accept, Install, Replace, ReadAnswer, LookUp, Deliver, ReadEnds, CleanUp, Drop, Answer,
         apiVars
<1>c. Unshared(r)
  BY <1>b DEF Unshared
<1>d. got[r] \in {None, r}
  BY <1>a, <1>c DEF BrowserInv, Stamps, Unshared
<1>e. SUFFICES (InHands(r)' => InHands(r)) /\ (Replied(r)' => Replied(r) \/ InHands(r))
  BY <1>b, <1>d, HandedOn
<1>1. CASE Accept(c) \/ Install(c) \/ Replace(c) \/ CleanUp(c) \/ Drop(c)
  <2>1. UNCHANGED <<reader, asked, said, slot, got>>
    BY <1>1 DEF Accept, Install, Replace, CleanUp, Drop, apiVars
  <2> QED BY <2>1 DEF InHands, Replied
<1>2. CASE ReadEnds(c)
  <2>1. /\ UNCHANGED <<reader, slot, got>>
        /\ \A d \in Conn : asked'[d] \in {asked[d], {}} /\ said'[d] \in {said[d], <<>>}
    BY <1>2, <1>a DEF ReadEnds, apiVars
  <2>2. \A d \in Conn : DOMAIN said'[d] \subseteq DOMAIN said[d]
                       /\ \A i \in DOMAIN said'[d] : said'[d][i] = said[d][i]
    BY <2>1
  <2> QED BY <2>1, <2>2 DEF InHands, Replied
<1>3. CASE ReadAnswer(c)
  <2>1. /\ UNCHANGED <<asked, slot, got>> /\ said[c] # <<>>
        /\ reader'[c].answer = Head(said[c]) /\ said'[c] = Tail(said[c])
        /\ \A d \in Conn \ {c} : reader'[d] = reader[d] /\ said'[d] = said[d]
    BY <1>3, <1>a DEF ReadAnswer, apiVars
  <2>2. Head(said[c]) = r => Said(c, r)
    BY <2>1, <1>a, TailElements DEF Said
  <2>3. \A i \in DOMAIN said'[c] : said'[c][i] = r => Said(c, r)
    BY <2>1, <1>a, TailElements DEF Said
  <2> QED BY <2>1, <2>2, <2>3 DEF InHands, Replied, Said
<1>4. CASE LookUp(c)
  <2>1. /\ UNCHANGED <<asked, said, slot, got>>
        /\ reader'[c].answer \in {reader[c].answer, None}
        /\ \A d \in Conn \ {c} : reader'[d] = reader[d]
    BY <1>4, <1>a DEF LookUp, apiVars, AtRest
  <2> QED BY <2>1, <1>a DEF InHands, Replied
<1>5. CASE Deliver(c)
  <2>1. /\ UNCHANGED <<asked, said, got>>
        /\ slot' = [slot EXCEPT ![reader[c].to] = reader[c].answer]
        /\ reader'[c].answer = None
        /\ \A d \in Conn \ {c} : reader'[d] = reader[d]
    BY <1>5, <1>a DEF Deliver, apiVars, AtRest
  <2>2. slot'[r] = r => slot[r] = r \/ reader[c].answer = r
    BY <2>1, <1>a
  <2> QED BY <2>1, <2>2, <1>a DEF InHands, Replied
<1>6. ASSUME NEW s \in Request, Answer(c, s)
      PROVE  (InHands(r)' => InHands(r)) /\ (Replied(r)' => Replied(r) \/ InHands(r))
  <2>1. /\ UNCHANGED <<reader, slot, got>> /\ s \in asked[c]
        /\ \A d \in Conn : asked'[d] \subseteq asked[d]
        /\ said'[c] = Append(said[c], s)
        /\ \A d \in Conn \ {c} : said'[d] = said[d]
    BY <1>6, <1>a DEF Answer, apiVars
  <2>2. \A i \in DOMAIN said'[c] : said'[c][i] = r => Said(c, r) \/ s = r
    BY <2>1, <1>a, AppendElements DEF Said
  <2> QED BY <2>1, <2>2 DEF InHands, Replied, Said
<1> QED BY <1>1, <1>2, <1>3, <1>4, <1>5, <1>6

\* What api does, for the request itself and for others.
LEMMA ApiRemoteStep ==
  ASSUME BrowserInv, BrowserInv', Taken, NEW r \in Request, Unshared(r)', NEW s \in Request,
         (\E i \in Id : Stamp(s, i)) \/ ApiStep(s)
  PROVE  BrowserRemoteStep(r)
<1>a. /\ asked \in [Conn -> SUBSET Request]
      /\ pc \in [Request -> {"idle", "stamped", "registered", "sent", "over", "done"}]
      /\ slot \in [Request -> Request \cup {None}] /\ got \in [Request -> Request \cup {None}]
      /\ via \in [Request -> 0 .. MaxConns] /\ r # None
  BY BrowserAssumption DEF BrowserInv, BrowserTypeOK
<1>b. UNCHANGED <<reader, said>>
  BY DEF ApiStep, Stamp, Register, Write, WriteFails, TakeAnswer, TimeOut, Unregister, extVars
<1>c. got'[r] \in {None, r}
  BY DEF BrowserInv, BrowserTypeOK, Stamps, Unshared
<1>1. CASE s # r
  <2>1. pc'[r] = pc[r] /\ got'[r] = got[r] /\ slot'[r] = slot[r]
    BY <1>1, <1>a DEF ApiStep, Stamp, Register, Write, WriteFails, TakeAnswer, TimeOut, Unregister,
                      Moves
  <2>2. \A c \in Conn : r \in asked'[c] => r \in asked[c]
    BY <1>1, <1>a DEF ApiStep, Stamp, Register, Write, WriteFails, TakeAnswer, TimeOut, Unregister,
                      extVars
  <2> QED BY <2>1, <2>2, <1>b, <1>c, HandedOn DEF InHands, Replied
<1>2. CASE s = r
  <2>1. CASE (\E i \in Id : Stamp(r, i)) \/ (Register(r) /\ conn # 0)
    <3>1. pc[r] \in {"idle", "stamped"} /\ pc'[r] \in {"stamped", "registered"}
      BY <2>1, <1>a DEF Stamp, Register, Moves
    <3>2. /\ BrowserFate(r) = "unasked" /\ BrowserFate(r)' = "unasked"
          /\ BrowserReply(r) = "none" /\ BrowserReply(r)' = "none"
      BY <3>1 DEF BrowserFate, BrowserReply
    <3> QED BY <3>2 DEF BrowserRemoteStep
  <2>2. CASE (Register(r) /\ conn = 0) \/ WriteFails(r)
    <3>1. /\ pc[r] \in {"stamped", "registered"} /\ pc'[r] \in {"over", "done"}
          /\ UNCHANGED <<asked, slot, got>>
      BY <2>2, <1>a DEF Register, WriteFails, Moves, extVars, apiVars
    <3>2. ~ InHands(r) /\ ~ Replied(r) /\ got[r] = None
      BY <3>1, NowhereYet DEF Out, Taken
    <3>3. ~ InHands(r)' /\ ~ Replied(r)'
      BY <3>1, <3>2, <1>b DEF InHands, Replied
    <3>4. /\ BrowserReply(r) = "none" /\ BrowserReply(r)' = "error" /\ BrowserFate(r)' = "lost"
      BY <3>1, <3>2, <3>3 DEF BrowserReply, BrowserFate, InHands
    <3> QED BY <3>4 DEF BrowserRemoteStep
  <2>3. CASE Write(r)
    <3>1. /\ pc[r] = "registered" /\ pc'[r] = "sent" /\ UNCHANGED <<slot, got>>
      BY <2>3, <1>a DEF Write, Moves
    <3>2. ~ Replied(r)
      BY <3>1, NowhereYet DEF Out
    <3>3. ~ Replied(r)'
      BY <3>1, <3>2, <1>b DEF Replied
    <3>4. /\ BrowserFate(r) = "unasked" /\ BrowserReply(r) = "none"
          /\ BrowserFate(r)' \in {"asked", "lost"} /\ BrowserReply(r)' = "none"
      BY <3>1, <3>3 DEF BrowserFate, BrowserReply
    <3> QED BY <3>4 DEF BrowserRemoteStep
  <2>4. CASE TakeAnswer(r)
    <3>1. /\ pc[r] = "sent" /\ pc'[r] = "over" /\ got'[r] = slot[r] /\ slot[r] # None
          /\ UNCHANGED asked
      BY <2>4, <1>a DEF TakeAnswer, Moves, extVars
    <3>2. slot[r] = r /\ got'[r] = r
      BY <3>1, <1>c
    <3>3. ~ InHands(r)
      BY <3>2, <1>a DEF BrowserInv, Delivered, InHands
    <3>4. ~ InHands(r)' /\ Replied(r) /\ Replied(r)'
      BY <3>1, <3>2, <3>3 DEF InHands, Replied
    <3>5. /\ BrowserFate(r) = "done" /\ BrowserReply(r) = "none"
          /\ BrowserFate(r)' = "done" /\ BrowserReply(r)' = "answer"
      BY <3>1, <3>2, <3>3, <3>4, <1>a DEF BrowserFate, BrowserReply, InHands
    <3> QED BY <3>5 DEF BrowserRemoteStep
  <2>5. CASE TimeOut(r) \/ Unregister(r)
    <3>1. /\ \/ pc[r] = "sent" /\ pc'[r] = "over"
             \/ pc[r] = "over" /\ pc'[r] = "done"
          /\ UNCHANGED <<asked, slot, got>>
      BY <2>5, <1>a DEF TimeOut, Unregister, Moves, extVars
    <3>2. (InHands(r)' <=> InHands(r)) /\ (Replied(r)' <=> Replied(r))
      BY <3>1, <1>b DEF InHands, Replied
    <3>3. BrowserFate(r)' = BrowserFate(r)
      BY <3>1, <3>2 DEF BrowserFate, InHands
    <3>4. pc[r] = "sent" => BrowserReply(r) = "none" /\ BrowserReply(r)' = "error"
      BY <3>1 DEF BrowserReply, Taken
    <3>5. pc[r] = "over" => BrowserReply(r)' = BrowserReply(r)
      BY <3>1 DEF BrowserReply
    <3> QED BY <3>1, <3>3, <3>4, <3>5 DEF BrowserRemoteStep
  <2> QED BY <1>2, <2>1, <2>2, <2>3, <2>4, <2>5 DEF ApiStep
<1> QED BY <1>1, <1>2

\* The browser bridge keeps what RemoteCall promises to a request with a reading of
\* its own: it reaches the page once at most, however connections replace each
\* other, and what comes back as its answer is the extension's answer to it.
THEOREM BrowserImplementsRemoteCall == BrowserSpec => BrowserContract
<1>1. BrowserInit => BrowserRemote!Init /\ Taken
  BY DEF BrowserInit, BrowserRemote!Init, BrowserFate, BrowserReply, Taken
<1>2. BrowserInv /\ BrowserInv' /\ Taken /\ [BrowserNext]_browserVars =>
        [\A r \in Request : Unshared(r)' => BrowserRemote!Step(r)]_browserVars
  <2> SUFFICES ASSUME BrowserInv, BrowserInv', Taken, BrowserNext, NEW r \in Request, Unshared(r)'
               PROVE  BrowserRemote!Step(r)
    OBVIOUS
  <2>1. BrowserRemoteStep(r)
    BY ExtRemoteStep, ApiRemoteStep DEF BrowserNext
  <2> QED
    BY <2>1
       DEF BrowserRemoteStep, BrowserRemote!Step, BrowserRemote!Becomes, BrowserRemote!Asked,
           BrowserRemote!Done, BrowserRemote!Dropped, BrowserRemote!Answered,
           BrowserRemote!Failed
<1> QED BY <1>1, <1>2, TakenStep, BrowserInvariant, PTL DEF BrowserSpec, BrowserContract
=============================================================================
