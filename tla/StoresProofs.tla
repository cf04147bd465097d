---------------------------- MODULE StoresProofs ----------------------------
(***************************************************************************)
(* Proofs about the durable stores, KeyStore and TargetStore, for any sets *)
(* of calls, keys and targets, any sharing of files by keys and any way of *)
(* trimming names; and about the model of all three kinds of files, each of *)
(* which behaves in it as its module says.                                 *)
(***************************************************************************)
EXTENDS MCStores, EditsProofs, TLAPS

-----------------------------------------------------------------------------
(* The key-value state                                                     *)

Asked(u) == ask[u] # NoAsk

\* While a call is under way nobody counts on a key of its file; two calls about
\* one file are both not alone; and a call that is alone finds the file as its user
\* left it until it changes it.
KeysInv ==
  /\ KeysTypeOK
  /\ \A u \in User, k \in Key :
       Asked(u) /\ Safe[k] = Safe[ask[u].key] => kept[k] = Unknown
  /\ \A u, w \in User :
       u # w /\ Asked(u) /\ Asked(w) /\ Safe[ask[u].key] = Safe[ask[w].key] => ~ ask[u].alone
  /\ \A u \in User :
       Asked(u) /\ ask[u].alone =>
         IF ask[u].stage = "done" THEN content[Safe[ask[u].key]] = ask[u].datum
         ELSE ask[u].was # Unknown => content[Safe[ask[u].key]] = ask[u].was
  /\ AnswersSurvive

LEMMA KeysInvInit == KeysInit => KeysInv
  BY DEF KeysInit, KeysInv, KeysTypeOK, AnswersSurvive, Asked, File

\* A call in progress is a record with all its fields.
LEMMA AskedIsAsk ==
  ASSUME KeysTypeOK, NEW u \in User
  PROVE  /\ ask[u].stage # "none" => Asked(u)
         /\ Asked(u) => ask[u] \in Ask /\ Safe[ask[u].key] \in File
  BY DEF KeysTypeOK, Asked, NoAsk, Ask, File

LEMMA KeysInvStep == KeysInv /\ [KeysNext]_keyVars => KeysInv'
<1> SUFFICES ASSUME KeysInv, [KeysNext]_keyVars PROVE KeysInv'
  OBVIOUS
<1> USE KeysAssumption
<1>t. KeysTypeOK
  BY DEF KeysInv
<1>a. \A u \in User :
        /\ ask[u].stage # "none" => Asked(u)
        /\ Asked(u) => ask[u] \in Ask /\ Safe[ask[u].key] \in File
  BY <1>t, AskedIsAsk
<1>1. ASSUME NEW u \in User, NEW k \in Key, NEW d \in Datum \cup {Nothing}, AskKey(u, k, d)
      PROVE  KeysInv'
  <2> DEFINE f == Safe[k]
  <2>1. /\ ask[u] = NoAsk
        /\ content' = content
        /\ ask'[u] = [key |-> k, datum |-> d, was |-> kept[k], stage |-> "called",
                      alone |-> \A v \in User : ~ About(v, f)]
        /\ \A w \in User \ {u} :
             ask'[w] = IF About(w, f) THEN [ask[w] EXCEPT !.alone = FALSE] ELSE ask[w]
        /\ \A j \in Key : kept'[j] = IF Safe[j] = f THEN Unknown ELSE kept[j]
    BY <1>1, <1>t DEF AskKey, KeysTypeOK
  <2>2. ask'[u] \in Ask /\ ask'[u] # NoAsk
    BY <2>1, <1>t DEF KeysTypeOK, Ask, NoAsk
  <2>3. \A w \in User \ {u} :
          IF Asked(w)
          THEN /\ ask'[w] \in Ask /\ ask'[w] # NoAsk
               /\ ask'[w].key = ask[w].key /\ ask'[w].datum = ask[w].datum
               /\ ask'[w].was = ask[w].was /\ ask'[w].stage = ask[w].stage
               /\ Safe[ask[w].key] = f => ~ ask'[w].alone
               /\ Safe[ask[w].key] # f => ask'[w] = ask[w]
          ELSE ask'[w] = NoAsk
    <3> SUFFICES ASSUME NEW w \in User \ {u}
                 PROVE  IF Asked(w)
                        THEN /\ ask'[w] \in Ask /\ ask'[w] # NoAsk
                             /\ ask'[w].key = ask[w].key /\ ask'[w].datum = ask[w].datum
                             /\ ask'[w].was = ask[w].was /\ ask'[w].stage = ask[w].stage
                             /\ Safe[ask[w].key] = f => ~ ask'[w].alone
                             /\ Safe[ask[w].key] # f => ask'[w] = ask[w]
                        ELSE ask'[w] = NoAsk
      OBVIOUS
    <3>1. CASE ~ Asked(w)
      BY <3>1, <2>1 DEF Asked, About
    <3>2. CASE Asked(w) /\ Safe[ask[w].key] # f
      BY <3>2, <2>1, <1>a DEF Asked, About
    <3>3. CASE Asked(w) /\ Safe[ask[w].key] = f
      <4>1. ask[w] \in Ask /\ ask'[w] = [ask[w] EXCEPT !.alone = FALSE]
        BY <3>3, <2>1, <1>a DEF Asked, About
      <4> QED BY <3>3, <4>1 DEF Ask, NoAsk
    <3> QED BY <3>1, <3>2, <3>3
  <2>4. KeysTypeOK'
    BY <1>1, <2>2, <2>3, <1>t DEF AskKey, KeysTypeOK
  <2>5. ask'[u].alone => \A v \in User : ~ (Asked(v) /\ Safe[ask[v].key] = f)
    BY <2>1 DEF About, Asked
  <2>6. (\A v \in User, j \in Key : Asked(v) /\ Safe[j] = Safe[ask[v].key] => kept[j] = Unknown)'
    BY <2>1, <2>2, <2>3, <1>t DEF KeysInv, Asked, KeysTypeOK
  <2>7. (\A v, w \in User :
           v # w /\ Asked(v) /\ Asked(w) /\ Safe[ask[v].key] = Safe[ask[w].key] => ~ ask[v].alone)'
    <3> SUFFICES ASSUME NEW v \in User, NEW w \in User, v # w, Asked(v)', Asked(w)',
                        Safe[ask'[v].key] = Safe[ask'[w].key]
                 PROVE  ~ ask'[v].alone
      OBVIOUS
    <3>1. CASE v = u
      BY <3>1, <2>1, <2>3, <2>5 DEF Asked
    <3>2. CASE v # u /\ w = u
      BY <3>2, <2>1, <2>3 DEF Asked
    <3>3. CASE v # u /\ w # u
      BY <3>3, <2>3 DEF KeysInv, Asked
    <3> QED BY <3>1, <3>2, <3>3
  <2>8. (\A v \in User : Asked(v) /\ ask[v].alone =>
           IF ask[v].stage = "done" THEN content[Safe[ask[v].key]] = ask[v].datum
           ELSE ask[v].was # Unknown => content[Safe[ask[v].key]] = ask[v].was)'
    BY <2>1, <2>3 DEF KeysInv, AnswersSurvive, Asked
  <2>9. AnswersSurvive'
    BY <2>1 DEF KeysInv, AnswersSurvive
  <2> QED BY <2>4, <2>6, <2>7, <2>8, <2>9 DEF KeysInv
<1>2. ASSUME NEW u \in User, Prepare(u) \/ Replace(u) \/ PutFails(u) \/ DeleteKey(u)
      PROVE  KeysInv'
  <2> DEFINE f == Safe[ask[u].key]
  <2>1. Asked(u) /\ ask[u] \in Ask /\ f \in File
    BY <1>2, <1>a DEF Prepare, Replace, PutFails, DeleteKey
  <2>2. /\ kept' = kept /\ serving' = serving
        /\ \A w \in User \ {u} : ask'[w] = ask[w]
        /\ ask'[u] = [ask[u] EXCEPT !.stage = ask'[u].stage]
        /\ ask'[u].stage \in {"held", "done", "failed"}
        /\ content' \in [File -> Datum \cup {Nothing}]
        /\ \A g \in File \ {f} : content'[g] = content[g]
        /\ IF ask'[u].stage = "done" THEN content'[f] = ask[u].datum
           ELSE content'[f] = content[f]
    BY <1>2, <2>1, <1>t DEF Prepare, Replace, PutFails, DeleteKey, KeysTypeOK, Ask
  <2>3. ask[u].stage # "done"
    BY <1>2 DEF Prepare, Replace, PutFails, DeleteKey
  <2>4. /\ ask'[u] \in Ask /\ ask'[u] # NoAsk
        /\ ask'[u].key = ask[u].key /\ ask'[u].datum = ask[u].datum
        /\ ask'[u].was = ask[u].was /\ ask'[u].alone = ask[u].alone
    BY <2>1, <2>2 DEF Ask, NoAsk
  <2>5. KeysTypeOK'
    <3>1. ask' \in [User -> Ask \cup {NoAsk}]
      BY <1>2, <2>2, <2>4, <1>t DEF KeysTypeOK, Prepare, Replace, PutFails, DeleteKey
    <3> QED BY <3>1, <2>2, <1>t DEF KeysTypeOK
  <2>6. (\A v \in User, j \in Key : Asked(v) /\ Safe[j] = Safe[ask[v].key] => kept[j] = Unknown)'
    BY <2>1, <2>2, <2>4 DEF KeysInv, Asked
  <2>7. (\A v, w \in User :
           v # w /\ Asked(v) /\ Asked(w) /\ Safe[ask[v].key] = Safe[ask[w].key] => ~ ask[v].alone)'
    BY <2>1, <2>2, <2>4 DEF KeysInv, Asked
  <2>8. ASSUME NEW v \in User, Asked(v)', ask'[v].alone
        PROVE  IF ask'[v].stage = "done" THEN content'[Safe[ask'[v].key]] = ask'[v].datum
               ELSE ask'[v].was # Unknown => content'[Safe[ask'[v].key]] = ask'[v].was
    <3>1. CASE v = u
      BY <3>1, <2>8, <2>1, <2>2, <2>3, <2>4 DEF KeysInv, Asked
    <3>2. CASE v # u
      <4>1. Asked(v) /\ ask'[v] = ask[v] /\ Safe[ask[v].key] # f /\ Safe[ask[v].key] \in File
        BY <3>2, <2>8, <2>1, <2>2, <1>a DEF KeysInv, Asked
      <4> QED BY <4>1, <2>2, <2>8 DEF KeysInv
    <3> QED BY <3>1, <3>2
  <2>9. AnswersSurvive'
    <3> SUFFICES ASSUME NEW k \in Key, kept[k] # Unknown PROVE content'[Safe[k]] = kept[k]
      BY <2>2 DEF AnswersSurvive
    <3>1. Safe[k] # f /\ Safe[k] \in File
      BY <2>1 DEF KeysInv, File
    <3> QED BY <3>1, <2>2 DEF KeysInv, AnswersSurvive
  <2> QED BY <2>5, <2>6, <2>7, <2>8, <2>9 DEF KeysInv
<1>3. ASSUME NEW u \in User, AnswerKey(u) PROVE KeysInv'
  <2>1. Asked(u) /\ ask[u] \in Ask /\ ask[u].stage \in {"done", "failed"}
    BY <1>3, <1>a DEF AnswerKey
  <2>2. /\ content' = content /\ serving' = serving
        /\ ask'[u] = NoAsk /\ \A w \in User \ {u} : ask'[w] = ask[w]
        /\ \A k \in Key \ {ask[u].key} : kept'[k] = kept[k]
        /\ ~ ask[u].alone => kept' = kept
        /\ ask[u].alone =>
             kept'[ask[u].key] = IF ask[u].stage = "done" THEN ask[u].datum ELSE ask[u].was
    BY <1>3, <2>1, <1>t DEF AnswerKey, KeysTypeOK, Ask
  <2>3. KeysTypeOK'
    BY <1>3, <2>1, <1>t DEF AnswerKey, KeysTypeOK, Ask
  <2>4. (\A v \in User, j \in Key : Asked(v) /\ Safe[j] = Safe[ask[v].key] => kept[j] = Unknown)'
    <3> SUFFICES ASSUME NEW v \in User, NEW j \in Key, Asked(v)', Safe[j] = Safe[ask'[v].key]
                 PROVE  kept'[j] = Unknown
      OBVIOUS
    <3>1. v # u /\ Asked(v) /\ ask'[v] = ask[v]
      BY <2>2 DEF Asked
    <3>2. kept[j] = Unknown
      BY <3>1 DEF KeysInv
    <3>3. j = ask[u].key => ~ ask[u].alone
      BY <3>1, <2>1 DEF KeysInv
    <3> QED BY <3>2, <3>3, <2>2
  <2>5. (\A v, w \in User :
           v # w /\ Asked(v) /\ Asked(w) /\ Safe[ask[v].key] = Safe[ask[w].key] => ~ ask[v].alone)'
    BY <2>2 DEF KeysInv, Asked
  <2>6. (\A v \in User : Asked(v) /\ ask[v].alone =>
           IF ask[v].stage = "done" THEN content[Safe[ask[v].key]] = ask[v].datum
           ELSE ask[v].was # Unknown => content[Safe[ask[v].key]] = ask[v].was)'
    BY <2>2 DEF KeysInv, Asked
  <2>7. AnswersSurvive'
    BY <2>1, <2>2 DEF KeysInv, AnswersSurvive
  <2> QED BY <2>3, <2>4, <2>5, <2>6, <2>7 DEF KeysInv
<1>4. CASE CrashKeys
  <2>1. KeysTypeOK' /\ \A u \in User : ask'[u] = NoAsk
    BY <1>4, <1>t DEF CrashKeys, KeysTypeOK
  <2> QED BY <1>4, <2>1 DEF CrashKeys, KeysInv, AnswersSurvive, Asked
<1>5. CASE StartKeys \/ UNCHANGED keyVars
  <2>1. UNCHANGED <<content, ask, kept>> /\ serving' \in BOOLEAN
    BY <1>5, <1>t DEF StartKeys, keyVars, KeysTypeOK
  <2> QED BY <2>1 DEF KeysInv, KeysTypeOK, AnswersSurvive, Asked
<1> QED BY <1>1, <1>2, <1>3, <1>4, <1>5 DEF KeysNext

THEOREM KeysInvariant == KeysSpec => []KeysInv
<1> QED BY KeysInvInit, KeysInvStep, PTL DEF KeysSpec

\* Every variable of the key-value state has its type.
THEOREM KeysTypeCorrect == KeysSpec => []KeysTypeOK
<1>1. KeysInv => KeysTypeOK
  BY DEF KeysInv
<1> QED BY <1>1, KeysInvariant, PTL

\* store.go:30, 57, 93: what a call has answered about a key stays true through
\* failing writes and crashes, until another call about its file.
THEOREM KeysAnswersSurvive == KeysSpec => []AnswersSurvive
<1>1. KeysInv => AnswersSurvive
  BY DEF KeysInv
<1> QED BY <1>1, KeysInvariant, PTL

\* What a user waits for is about the same change until it is answered.
StateOf(s) == CASE s = "done" -> "stored" [] s = "failed" -> "failed" [] OTHER -> "asked"

LEMMA ExpectedMoves ==
  ASSUME NEW a \in Ask, NEW s \in {"called", "held", "done", "failed"},
         NEW b, b = [a EXCEPT !.stage = s]
  PROVE  /\ Expected(a) = KeysMap!Change(Safe[a.key], a.datum, StateOf(a.stage))
         /\ Expected(b) = [Expected(a) EXCEPT !.state = StateOf(s)]
<1>1. a # NoAsk /\ b # NoAsk /\ b.stage = s /\ b.key = a.key /\ b.datum = a.datum
  BY DEF Ask, NoAsk
<1> QED BY <1>1 DEF Expected, KeysMap!Change, StateOf

\* A step of the store is a step of the map, or nothing to it.
LEMMA KeysMapStep == KeysInv /\ [KeysNext]_keyVars => [KeysMap!Next]_(KeysMap!mapVars)
<1> SUFFICES ASSUME KeysInv, [KeysNext]_keyVars PROVE KeysMap!Next \/ UNCHANGED KeysMap!mapVars
  OBVIOUS
<1> USE KeysAssumption
<1>t. KeysTypeOK
  BY DEF KeysInv
<1>a. \A u \in User :
        /\ ask[u].stage # "none" => Asked(u)
        /\ Asked(u) => ask[u] \in Ask /\ Safe[ask[u].key] \in File
  BY <1>t, AskedIsAsk
<1>1. ASSUME NEW u \in User, NEW k \in Key, NEW d \in Datum \cup {Nothing}, AskKey(u, k, d)
      PROVE  KeysMap!Asks(u, Safe[k], d)
  <2>1. /\ ask[u] = NoAsk
        /\ content' = content
        /\ ask'[u] = [key |-> k, datum |-> d, was |-> kept[k], stage |-> "called",
                      alone |-> \A v \in User : ~ About(v, Safe[k])]
        /\ \A w \in User \ {u} :
             ask'[w] = IF About(w, Safe[k]) THEN [ask[w] EXCEPT !.alone = FALSE] ELSE ask[w]
    BY <1>1, <1>t DEF AskKey, KeysTypeOK
  <2>2. Expected(ask[u]) = KeysMap!Idle
    BY <2>1 DEF Expected, KeysMap!Idle
  <2>3. Expected(ask'[u]) = KeysMap!Change(Safe[k], d, "asked")
    BY <2>1 DEF Expected, KeysMap!Change, NoAsk
  <2>4. \A w \in User \ {u} : Expected(ask'[w]) = Expected(ask[w])
    <3> SUFFICES ASSUME NEW w \in User \ {u}, About(w, Safe[k])
                 PROVE  Expected(ask'[w]) = Expected(ask[w])
      BY <2>1
    <3>1. ask[w] \in Ask /\ ask'[w] = [ask[w] EXCEPT !.alone = FALSE]
      BY <2>1, <1>a DEF Asked, About
    <3>2. /\ ask'[w].stage = ask[w].stage /\ ask'[w].key = ask[w].key
          /\ ask'[w].datum = ask[w].datum /\ ask'[w] # NoAsk /\ ask[w] # NoAsk
      BY <3>1 DEF Ask, NoAsk
    <3> QED BY <3>2 DEF Expected
  <2> QED BY <2>1, <2>2, <2>3, <2>4 DEF KeysMap!Asks
<1>2. ASSUME NEW u \in User, Prepare(u) \/ Replace(u) \/ PutFails(u) \/ DeleteKey(u)
      PROVE  KeysMap!Stores(u) \/ KeysMap!Fails(u) \/ UNCHANGED KeysMap!mapVars
  <2> DEFINE a == ask[u]
             f == Safe[ask[u].key]
             s == ask'[u].stage
  <2>1. /\ a \in Ask /\ f \in File /\ a.stage \in {"called", "held"}
        /\ s \in {"held", "done", "failed"}
        /\ ask'[u] = [a EXCEPT !.stage = s]
        /\ \A w \in User \ {u} : ask'[w] = ask[w]
    BY <1>2, <1>a, <1>t DEF Prepare, Replace, PutFails, DeleteKey, KeysTypeOK, Ask
  <2>2. /\ Expected(a) = KeysMap!Change(f, a.datum, "asked")
        /\ Expected(ask'[u]) = [Expected(a) EXCEPT !.state = StateOf(s)]
        /\ \A w \in User \ {u} : Expected(ask'[w]) = Expected(ask[w])
    BY <2>1, ExpectedMoves DEF StateOf
  <2>3. content' = IF s = "done" THEN [content EXCEPT ![f] = a.datum] ELSE content
    BY <1>2, <2>1, <1>t DEF Prepare, Replace, PutFails, DeleteKey, KeysTypeOK, Ask
  <2>4. CASE s = "held"
    <3>1. Expected(ask'[u]) = Expected(a)
      BY <2>4, <2>2 DEF StateOf, KeysMap!Change
    <3> QED BY <2>4, <2>2, <2>3, <3>1 DEF KeysMap!mapVars
  <2>5. CASE s = "failed"
    <3>1. /\ Expected(a).state = "asked"
          /\ Expected(ask'[u]) = [Expected(a) EXCEPT !.state = "failed"]
      BY <2>5, <2>2 DEF StateOf, KeysMap!Change
    <3> QED BY <2>5, <2>2, <2>3, <3>1 DEF KeysMap!Fails
  <2>6. CASE s = "done"
    <3>1. content' = [p \in File |-> IF p = f THEN a.datum ELSE content[p]]
      BY <2>6, <2>1, <2>3, <1>t DEF KeysTypeOK
    <3>2. /\ Expected(a).state = "asked" /\ Expected(a).cell = f /\ Expected(a).value = a.datum
          /\ Expected(ask'[u]) = [Expected(a) EXCEPT !.state = "stored"]
      BY <2>6, <2>2 DEF StateOf, KeysMap!Change
    <3> QED BY <2>2, <3>1, <3>2 DEF KeysMap!Stores
  <2> QED BY <2>1, <2>4, <2>5, <2>6
<1>3. ASSUME NEW u \in User, AnswerKey(u) PROVE KeysMap!Answers(u)
  <2>1. /\ ask[u] \in Ask /\ ask[u].stage \in {"done", "failed"}
        /\ ask'[u] = NoAsk /\ content' = content
        /\ \A w \in User \ {u} : ask'[w] = ask[w]
    BY <1>3, <1>a, <1>t DEF AnswerKey, KeysTypeOK
  <2>2. /\ Expected(ask[u]).state \in {"stored", "failed"}
        /\ Expected(ask'[u]) = KeysMap!Idle
    BY <2>1, ExpectedMoves DEF Expected, KeysMap!Idle, NoAsk, Ask
  <2> QED BY <2>1, <2>2 DEF KeysMap!Answers
<1>4. ASSUME CrashKeys PROVE KeysMap!Crash
  BY <1>4 DEF CrashKeys, KeysMap!Crash, Expected, KeysMap!Idle
<1>5. CASE StartKeys \/ UNCHANGED keyVars
  BY <1>5 DEF StartKeys, keyVars, KeysMap!mapVars
<1> QED BY <1>1, <1>2, <1>3, <1>4, <1>5 DEF KeysNext, KeysMap!Next, File

\* store.go:90: each file of the key-value state is changed at one instant of a call
\* that succeeds, and by no other; no crash and no failure leaves anything else there.
THEOREM KeysImplementMap == KeysSpec => KeysContract
<1>1. KeysInit => KeysMap!Init
  BY DEF KeysInit, KeysMap!Init, Expected, KeysMap!Idle
<1> QED
  BY <1>1, KeysMapStep, KeysInvariant, PTL DEF KeysSpec, KeysContract, KeysMap!Spec

-----------------------------------------------------------------------------
(* The targets                                                             *)

\* What is settled is in memory and in the file; whoever changes a target has
\* unsettled it, and two who change the same one can count on nothing.
Settled ==
  /\ \A n \in Name : settled[n] # Open =>
       saved[n] = settled[n] /\ (running => table[n] = settled[n])
  /\ \A c \in Caller : Changes(req[c]) => settled[Place(req[c])] = Open
  /\ \A c, d \in Caller :
       c # d /\ Changes(req[c]) /\ Changes(req[d]) /\ Place(req[c]) = Place(req[d]) =>
         req[c].sure = Open

\* What a call that can count on something has made of the table and the file, or
\* is going to find there.
Counted ==
  \A c \in Caller :
    LET r == req[c] IN
    r.sure # Open =>
      /\ Changes(r) => r.sure = r.def
      /\ r.op # "use" /\ r.stage \in {"held", "done"} => table[Place(r)] = r.def
      /\ r.op # "use" /\ r.stage = "done" => saved[Place(r)] = r.def
      /\ r.op = "use" /\ r.stage = "called" => settled[r.name] = r.sure

\* Where memory and file differ, somebody was told, or is writing the file now.
Drift ==
  running => \A n \in Name : table[n] # saved[n] =>
    n \in told \/ \E c \in Caller : req[c].stage = "held" /\ Place(req[c]) = n

\* One call at a time has the lock, and a call that changes the table has a
\* definition to put there.
Locking ==
  /\ ~ running => \A c \in Caller : req[c] = NoReq
  /\ \A c \in Caller : req[c].op # "use" => req[c].def \in Entry
  /\ \A c \in Caller : req[c].stage = "held" => req[c].op # "use"
  /\ \A c, d \in Caller : req[c].stage = "held" /\ req[d].stage = "held" => c = d

TargetsInv ==
  /\ TargetsTypeOK /\ Locking /\ Settled /\ Counted /\ Drift /\ AnsweredChangeSeen

\* A caller that has no call changes nothing and counts on nothing.
LEMMA NoReqIdle ==
  /\ NoReq \in Req
  /\ NoReq.op = "use" /\ NoReq.stage = "none" /\ NoReq.sure = Open
  /\ ~ Changes(NoReq)
<1>1. NoReq \in Req
  <2> Local \in Name /\ Absent \in Entry
    BY TargetsAssumption DEF Entry
  <2> QED BY DEF NoReq, Req, Stage
<1> QED BY <1>1 DEF NoReq, Changes

LEMMA TargetsInvInit == TargetsInit => TargetsInv
<1> SUFFICES ASSUME TargetsInit PROVE TargetsInv
  OBVIOUS
<1>1. \A c \in Caller : req[c] = NoReq
  BY DEF TargetsInit
<1>2. TargetsTypeOK
  BY NoReqIdle DEF TargetsInit, TargetsTypeOK, Entry
<1> QED BY <1>1, <1>2, NoReqIdle
        DEF TargetsInit, TargetsInv, Locking, Settled, Counted, Drift, AnsweredChangeSeen

\* The name a call is about is a name.
LEMMA PlaceIsName == ASSUME NEW r \in Req PROVE Place(r) \in Name
  BY TargetsAssumption DEF Place, Req

\* A call that moves on is about the same.
LEMMA StageMoves ==
  ASSUME NEW r \in Req, NEW s \in Stage, NEW q, q = [r EXCEPT !.stage = s]
  PROVE  /\ q \in Req /\ q.stage = s
         /\ q.op = r.op /\ q.name = r.name /\ q.def = r.def /\ q.sure = r.sure /\ q.got = r.got
         /\ Place(q) = Place(r)
         /\ Changes(q) <=> r.op # "use" /\ s \in {"called", "held", "done", "failed"}
<1>1. /\ q \in Req /\ q.stage = s
      /\ q.op = r.op /\ q.name = r.name /\ q.def = r.def /\ q.sure = r.sure /\ q.got = r.got
  BY DEF Req
<1> QED BY <1>1 DEF Place, Changes

LEMMA TargetsInvStep == TargetsInv /\ [TargetsNext]_targetVars => TargetsInv'
<1> SUFFICES ASSUME TargetsInv, [TargetsNext]_targetVars PROVE TargetsInv'
  OBVIOUS
<1> USE TargetsAssumption
<1>t. TargetsTypeOK
  BY DEF TargetsInv
<1>p. \A c \in Caller : req[c] \in Req /\ Place(req[c]) \in Name
  BY <1>t, PlaceIsName DEF TargetsTypeOK
<1>1. ASSUME NEW c \in Caller, NEW op \in {"upsert", "remove"}, NEW n \in Name,
             NEW d \in Entry \cup {Invalid}, AskChange(c, op, n, d)
      PROVE  TargetsInv'
  <2> DEFINE r == Request(op, n, d)
             p == Place(r)
  <2>a. /\ running /\ req[c] = NoReq /\ d \in Entry
        /\ UNCHANGED <<running, table, saved, told>>
    BY <1>1 DEF AskChange, RefusedEarly, Entry
  <2>b. r \in Req /\ p \in Name /\ r.op # "use" /\ r.stage = "called" /\ r.def = d
        /\ r.op = op /\ r.name = n
    <3>1. r \in Req
      BY <2>a, NoReqIdle DEF Request, Req, Entry, Stage
    <3> QED BY <3>1, PlaceIsName DEF Request
  <2>c. /\ req'[c] = [r EXCEPT !.sure = Sure(op, p, d)]
        /\ \A e \in Caller \ {c} :
             req'[e] = IF Place(req[e]) = p /\ req[e].stage # "using"
                       THEN [req[e] EXCEPT !.sure = Open] ELSE req[e]
        /\ settled'[p] = Open
        /\ \A m \in Name \ {p} : settled'[m] = settled[m]
        /\ settled' \in [Name -> Entry \cup {Open}]
        /\ DOMAIN req' = Caller /\ req' = [e \in Caller |-> req'[e]]
    BY <1>1, <2>b, <1>t DEF AskChange, Unsettled, TargetsTypeOK
  <2>d. Sure(op, p, d) \in {Open, d}
        /\ (Sure(op, p, d) # Open =>
              \A e \in Caller : ~ (Changes(req[e]) /\ Place(req[e]) = p))
    BY DEF Sure
  <2>e. /\ req'[c] \in Req
        /\ req'[c].op = op /\ req'[c].name = n /\ req'[c].def = d
        /\ req'[c].stage = "called" /\ req'[c].sure = Sure(op, p, d)
        /\ Changes(req'[c]) /\ Place(req'[c]) = p
    BY <2>b, <2>c, <2>d, <2>a DEF Req, Changes, Place
  <2>f. \A e \in Caller \ {c} :
          /\ req'[e] \in Req
          /\ req'[e].op = req[e].op /\ req'[e].name = req[e].name /\ req'[e].def = req[e].def
          /\ req'[e].stage = req[e].stage /\ req'[e].got = req[e].got
          /\ req'[e].sure \in {req[e].sure, Open}
          /\ Place(req[e]) = p /\ req[e].stage # "using" => req'[e].sure = Open
          /\ Changes(req'[e]) <=> Changes(req[e])
          /\ Place(req'[e]) = Place(req[e])
    BY <2>c, <1>p DEF Req, Changes, Place
  <2> HIDE DEF r, p
  <2>1. TargetsTypeOK'
    <3>1. req' \in [Caller -> Req]
      BY <2>c, <2>e, <2>f
    <3> QED BY <3>1, <2>a, <2>c, <1>t DEF TargetsTypeOK
  <2>2. Locking'
    BY <2>a, <2>e, <2>f DEF TargetsInv, Locking
  <2>3. Settled'
    <3>1. ASSUME NEW m \in Name, settled'[m] # Open
          PROVE  saved'[m] = settled'[m] /\ (running' => table'[m] = settled'[m])
      BY <3>1, <2>a, <2>c DEF TargetsInv, Settled
    <3>2. ASSUME NEW e \in Caller, Changes(req'[e]) PROVE settled'[Place(req'[e])] = Open
      BY <3>2, <2>c, <2>e, <2>f, <1>p DEF TargetsInv, Settled
    <3>3. ASSUME NEW e \in Caller, NEW g \in Caller, e # g, Changes(req'[e]), Changes(req'[g]),
                 Place(req'[e]) = Place(req'[g])
          PROVE  req'[e].sure = Open
      <4>1. CASE e = c
        BY <4>1, <3>3, <2>d, <2>e, <2>f
      <4>2. CASE e # c /\ g = c
        BY <4>2, <3>3, <2>e, <2>f DEF Changes
      <4>3. CASE e # c /\ g # c
        BY <4>3, <3>3, <2>f DEF TargetsInv, Settled
      <4> QED BY <4>1, <4>2, <4>3
    <3> QED BY <3>1, <3>2, <3>3 DEF Settled
  <2>4. Counted'
    <3> SUFFICES ASSUME NEW e \in Caller, req'[e].sure # Open
                 PROVE  /\ Changes(req'[e]) => req'[e].sure = req'[e].def
                        /\ req'[e].op # "use" /\ req'[e].stage \in {"held", "done"} =>
                             table'[Place(req'[e])] = req'[e].def
                        /\ req'[e].op # "use" /\ req'[e].stage = "done" =>
                             saved'[Place(req'[e])] = req'[e].def
                        /\ req'[e].op = "use" /\ req'[e].stage = "called" =>
                             settled'[req'[e].name] = req'[e].sure
      BY DEF Counted
    <3>1. CASE e = c
      BY <3>1, <2>d, <2>e
    <3>2. CASE e # c
      <4>1. req'[e].sure = req[e].sure /\ (req[e].stage # "using" => Place(req[e]) # p)
        BY <3>2, <2>f
      <4>2. req[e].op = "use" => Place(req[e]) = req[e].name
        BY DEF Place
      <4> QED BY <3>2, <4>1, <4>2, <2>a, <2>c, <2>f, <1>p DEF TargetsInv, Counted
    <3> QED BY <3>1, <3>2
  <2>5. Drift'
    BY <2>a, <2>e, <2>f DEF TargetsInv, Drift, NoReq
  <2>6. AnsweredChangeSeen'
    BY <2>e, <2>f DEF TargetsInv, AnsweredChangeSeen
  <2> QED BY <2>1, <2>2, <2>3, <2>4, <2>5, <2>6 DEF TargetsInv
<1>2. ASSUME NEW c \in Caller, NEW n \in Name, AskUse(c, n) PROVE TargetsInv'
  <2>1. /\ running /\ req[c] = NoReq
        /\ UNCHANGED <<running, table, saved, settled, told>>
        /\ req' = [req EXCEPT ![c] = req'[c]]
        /\ req'[c].op = "use" /\ req'[c].name = n /\ req'[c].stage = "called"
        /\ req'[c].sure = settled[n]
        /\ req'[c] \in Req /\ ~ Changes(req'[c])
    BY <1>2, <1>t DEF AskUse, Request, Sure, TargetsTypeOK, Req, Entry, Changes, Stage
  <2>2. \A e \in Caller \ {c} : req'[e] = req[e]
    BY <2>1, <1>t DEF TargetsTypeOK
  <2>3. TargetsTypeOK'
    BY <2>1, <1>t DEF TargetsTypeOK
  <2>4. Locking' /\ Drift' /\ AnsweredChangeSeen'
    BY <2>1, <2>2 DEF TargetsInv, Locking, Drift, AnsweredChangeSeen, NoReq
  <2>5. Settled'
    BY <2>1, <2>2 DEF TargetsInv, Settled
  <2>6. Counted'
    BY <2>1, <2>2 DEF TargetsInv, Counted
  <2> QED BY <2>3, <2>4, <2>5, <2>6 DEF TargetsInv
<1>3. ASSUME NEW c \in Caller, ChangeTable(c) PROVE TargetsInv'
  <2> DEFINE p == Place(req[c])
  <2>1. /\ req[c].stage = "called" /\ req[c].op # "use" /\ Changes(req[c])
        /\ UNCHANGED <<running, saved, settled, told>>
        /\ \A e \in Caller : req[e].stage # "held"
        /\ running
    BY <1>3 DEF ChangeTable, LockFree, Changes, TargetsInv, Locking, NoReq
  <2>2. /\ req' = [req EXCEPT ![c].stage = req'[c].stage]
        /\ \/ req'[c].stage = "failed" /\ table' = table
           \/ req'[c].stage = "held" /\ table' = [table EXCEPT ![p] = req[c].def]
    BY <1>3, <1>p, <1>t DEF ChangeTable, TargetsTypeOK, Req
  <2>3. /\ \A e \in Caller \ {c} : req'[e] = req[e]
        /\ req'[c] \in Req /\ Changes(req'[c]) /\ Place(req'[c]) = p /\ p \in Name
        /\ req'[c].op = req[c].op /\ req'[c].def = req[c].def /\ req'[c].sure = req[c].sure
        /\ req[c].def \in Entry
    <3>1. req'[c].stage \in Stage /\ req'[c] = [req[c] EXCEPT !.stage = req'[c].stage]
      BY <2>2, <1>t DEF TargetsTypeOK, Stage
    <3>2. \A e \in Caller \ {c} : req'[e] = req[e]
      BY <2>2, <1>t DEF TargetsTypeOK
    <3>3. /\ req'[c] \in Req /\ Place(req'[c]) = p
          /\ req'[c].op = req[c].op /\ req'[c].def = req[c].def /\ req'[c].sure = req[c].sure
          /\ Changes(req'[c])
      <4>1. req[c] \in Req
        BY <1>p
      <4> QED BY ONLY <4>1, <3>1, <2>1, <2>2, StageMoves
    <3> QED BY <3>2, <3>3, <2>1, <1>p DEF TargetsInv, Locking
  <2>4. /\ table'[p] \in {table[p], req[c].def}
        /\ req'[c].stage = "held" => table'[p] = req[c].def
        /\ \A m \in Name \ {p} : table'[m] = table[m]
    BY <2>2, <2>3, <1>t DEF TargetsTypeOK
  <2> HIDE DEF p
  <2>5. TargetsTypeOK'
    BY <2>1, <2>2, <2>3, <1>t DEF TargetsTypeOK
  <2>6. Locking'
    BY <2>1, <2>2, <2>3 DEF TargetsInv, Locking
  <2>7. settled[p] = Open
    BY <2>1 DEF TargetsInv, Settled, p
  <2>8. Settled'
    <3>1. ASSUME NEW n \in Name, settled'[n] # Open
          PROVE  saved'[n] = settled'[n] /\ table'[n] = settled'[n]
      BY <3>1, <2>1, <2>4, <2>7 DEF TargetsInv, Settled
    <3> QED BY <3>1, <2>1, <2>3 DEF TargetsInv, Settled, p
  <2>9. Counted'
    <3> SUFFICES ASSUME NEW e \in Caller, req'[e].sure # Open
                 PROVE  /\ Changes(req'[e]) => req'[e].sure = req'[e].def
                        /\ req'[e].op # "use" /\ req'[e].stage \in {"held", "done"} =>
                             table'[Place(req'[e])] = req'[e].def
                        /\ req'[e].op # "use" /\ req'[e].stage = "done" =>
                             saved'[Place(req'[e])] = req'[e].def
                        /\ req'[e].op = "use" /\ req'[e].stage = "called" =>
                             settled'[req'[e].name] = req'[e].sure
      BY DEF Counted
    <3>1. CASE e = c
      BY <3>1, <2>1, <2>2, <2>3, <2>4 DEF TargetsInv, Counted
    <3>2. CASE e # c
      <4>1. Changes(req[e]) => Place(req[e]) # p
        BY <3>2, <2>1, <2>3 DEF TargetsInv, Settled, p
      <4>2. req[e].op # "use" /\ req[e].stage \in {"held", "done"} => Changes(req[e])
        BY DEF Changes
      <4> QED BY <3>2, <4>1, <4>2, <2>1, <2>3, <2>4, <1>p DEF TargetsInv, Counted
    <3> QED BY <3>1, <3>2
  <2>10. Drift'
    <3> SUFFICES ASSUME NEW n \in Name, table'[n] # saved'[n]
                 PROVE  n \in told' \/ \E e \in Caller : req'[e].stage = "held" /\ Place(req'[e]) = n
      BY DEF Drift
    <3>1. CASE n = p /\ req'[c].stage = "held"
      BY <3>1, <2>3
    <3>2. CASE ~ (n = p /\ req'[c].stage = "held")
      <4>1. table[n] # saved[n]
        BY <3>2, <2>1, <2>2, <2>4
      <4> QED BY <4>1, <2>1 DEF TargetsInv, Drift
    <3> QED BY <3>1, <3>2
  <2>11. AnsweredChangeSeen'
    BY <2>1, <2>3 DEF TargetsInv, AnsweredChangeSeen
  <2> QED BY <2>5, <2>6, <2>8, <2>9, <2>10, <2>11 DEF TargetsInv
<1>4. ASSUME NEW c \in Caller, Persist(c) \/ PersistFails(c) PROVE TargetsInv'
  <2> DEFINE p == Place(req[c])
  <2>1. /\ req[c].stage = "held" /\ req[c].op # "use" /\ Changes(req[c]) /\ running
        /\ UNCHANGED <<running, table, settled>>
        /\ req' = [req EXCEPT ![c].stage = req'[c].stage]
        /\ \/ req'[c].stage = "done" /\ saved' = table /\ told' = {}
           \/ req'[c].stage = "failed" /\ saved' = saved /\ told' = told \cup {p}
    BY <1>4, <1>p, <1>t DEF Persist, PersistFails, Changes, TargetsTypeOK, Req, TargetsInv, Locking, NoReq
  <2>2. /\ \A e \in Caller \ {c} : req'[e] = req[e]
        /\ req'[c] \in Req /\ Changes(req'[c]) /\ Place(req'[c]) = p /\ p \in Name
        /\ req'[c].op = req[c].op /\ req'[c].def = req[c].def /\ req'[c].sure = req[c].sure
        /\ req'[c].stage # "held"
    <3>1. req'[c].stage \in Stage /\ req'[c] = [req[c] EXCEPT !.stage = req'[c].stage]
      BY <2>1, <1>t DEF TargetsTypeOK, Stage
    <3>2. \A e \in Caller \ {c} : req'[e] = req[e]
      BY <2>1, <1>t DEF TargetsTypeOK
    <3>3. /\ req'[c] \in Req /\ Place(req'[c]) = p
          /\ req'[c].op = req[c].op /\ req'[c].def = req[c].def /\ req'[c].sure = req[c].sure
          /\ Changes(req'[c])
      <4>1. req[c] \in Req
        BY <1>p
      <4> QED BY ONLY <4>1, <3>1, <2>1, StageMoves
    <3> QED BY <3>2, <3>3, <2>1, <1>p
  <2> HIDE DEF p
  <2>3. TargetsTypeOK'
    BY <2>1, <2>2, <1>t DEF TargetsTypeOK
  <2>4. Locking'
    BY <2>1, <2>2 DEF TargetsInv, Locking
  <2>5. Settled'
    <3>1. ASSUME NEW n \in Name, settled'[n] # Open
          PROVE  saved'[n] = settled'[n] /\ table'[n] = settled'[n]
      BY <3>1, <2>1 DEF TargetsInv, Settled
    <3> QED BY <3>1, <2>1, <2>2 DEF TargetsInv, Settled, p
  <2>6. Counted'
    <3> SUFFICES ASSUME NEW e \in Caller, req'[e].sure # Open
                 PROVE  /\ Changes(req'[e]) => req'[e].sure = req'[e].def
                        /\ req'[e].op # "use" /\ req'[e].stage \in {"held", "done"} =>
                             table'[Place(req'[e])] = req'[e].def
                        /\ req'[e].op # "use" /\ req'[e].stage = "done" =>
                             saved'[Place(req'[e])] = req'[e].def
                        /\ req'[e].op = "use" /\ req'[e].stage = "called" =>
                             settled'[req'[e].name] = req'[e].sure
      BY DEF Counted
    <3>1. CASE e = c
      BY <3>1, <2>1, <2>2 DEF TargetsInv, Counted, p
    <3>2. CASE e # c
      BY <3>2, <2>1, <2>2, <1>p DEF TargetsInv, Counted
    <3> QED BY <3>1, <3>2
  <2>7. Drift'
    <3> SUFFICES ASSUME NEW n \in Name, table'[n] # saved'[n]
                 PROVE  n \in told'
      BY DEF Drift
    <3>1. saved' = saved /\ told' = told \cup {p} /\ table[n] # saved[n]
      BY <2>1
    <3>2. \A e \in Caller : req[e].stage = "held" => e = c
      BY <2>1 DEF TargetsInv, Locking
    <3> QED BY <3>1, <3>2, <2>1 DEF TargetsInv, Drift, p
  <2>8. AnsweredChangeSeen'
    BY <2>1, <2>2 DEF TargetsInv, AnsweredChangeSeen
  <2> QED BY <2>3, <2>4, <2>5, <2>6, <2>7, <2>8 DEF TargetsInv
<1>5. ASSUME NEW c \in Caller, AnswerChange(c) PROVE TargetsInv'
  <2> DEFINE p == Place(req[c])
  <2>1. /\ req[c].op # "use" /\ req[c].stage \in {"done", "failed"} /\ Changes(req[c])
        /\ UNCHANGED <<running, table, saved, told>>
        /\ req' = [req EXCEPT ![c] = NoReq]
        /\ running
    BY <1>5 DEF AnswerChange, Changes, TargetsInv, Locking, NoReq
  <2>2. /\ \A e \in Caller \ {c} : req'[e] = req[e]
        /\ req'[c] = NoReq /\ NoReq \in Req /\ p \in Name /\ ~ Changes(NoReq)
        /\ NoReq.stage = "none" /\ NoReq.sure = Open /\ NoReq.op = "use"
    BY <2>1, <1>p, <1>t, NoReqIdle DEF TargetsTypeOK
  <2>3. /\ \A m \in Name \ {p} : settled'[m] = settled[m]
        /\ settled'[p] # Open =>
             \/ settled'[p] = settled[p]
             \/ req[c].stage = "done" /\ req[c].sure # Open /\ settled'[p] = req[c].sure
        /\ settled' \in [Name -> Entry \cup {Open}]
    BY <1>5, <2>2, <1>p, <1>t DEF AnswerChange, TargetsTypeOK, Req
  <2>4. settled[p] = Open
    BY <2>1 DEF TargetsInv, Settled
  <2> HIDE DEF p
  <2>5. TargetsTypeOK'
    BY <2>1, <2>2, <2>3, <1>t DEF TargetsTypeOK
  <2>6. Locking'
    BY <2>1, <2>2 DEF TargetsInv, Locking
  <2>7. settled'[p] # Open => settled'[p] = req[c].def /\ table[p] = req[c].def /\ saved[p] = req[c].def
    BY <2>1, <2>3, <2>4 DEF TargetsInv, Counted, p
  <2>8. Settled'
    <3>1. ASSUME NEW n \in Name, settled'[n] # Open
          PROVE  saved'[n] = settled'[n] /\ table'[n] = settled'[n]
      BY <3>1, <2>1, <2>3, <2>7 DEF TargetsInv, Settled
    <3>2. ASSUME NEW e \in Caller, Changes(req'[e]) PROVE settled'[Place(req'[e])] = Open
      <4>1. e # c /\ req'[e] = req[e] /\ Place(req[e]) \in Name /\ settled[Place(req[e])] = Open
        BY <3>2, <2>2, <1>p DEF TargetsInv, Settled
      <4>2. Place(req[e]) = p => req[c].sure = Open
        BY <4>1, <3>2, <2>1 DEF TargetsInv, Settled, p
      <4> QED BY <4>1, <4>2, <2>3, <2>4
    <3> QED BY <3>1, <3>2, <2>1, <2>2 DEF TargetsInv, Settled
  <2>9. Counted'
    <3> SUFFICES ASSUME NEW e \in Caller, req'[e].sure # Open
                 PROVE  /\ Changes(req'[e]) => req'[e].sure = req'[e].def
                        /\ req'[e].op # "use" /\ req'[e].stage \in {"held", "done"} =>
                             table'[Place(req'[e])] = req'[e].def
                        /\ req'[e].op # "use" /\ req'[e].stage = "done" =>
                             saved'[Place(req'[e])] = req'[e].def
                        /\ req'[e].op = "use" /\ req'[e].stage = "called" =>
                             settled'[req'[e].name] = req'[e].sure
      BY DEF Counted
    <3>1. e # c /\ req'[e] = req[e]
      BY <2>2
    <3>2. req[e].op = "use" /\ req[e].stage = "called" => req[e].name \in Name \ {p}
      BY <3>1, <2>4, <1>p DEF TargetsInv, Counted, Req
    <3> QED BY <3>1, <3>2, <2>1, <2>3 DEF TargetsInv, Counted
  <2>10. Drift' /\ AnsweredChangeSeen'
    BY <2>1, <2>2 DEF TargetsInv, Drift, AnsweredChangeSeen
  <2> QED BY <2>5, <2>6, <2>8, <2>9, <2>10 DEF TargetsInv
<1>6. ASSUME NEW c \in Caller, LookUp(c) \/ AnswerUse(c) PROVE TargetsInv'
  <2>1. /\ req[c].op = "use" /\ req[c].stage \in {"called", "using", "failed"}
        /\ UNCHANGED <<running, table, saved, settled, told>>
        /\ running
    BY <1>6 DEF LookUp, AnswerUse, TargetsInv, Locking, NoReq
  <2>2. /\ \A e \in Caller \ {c} : req'[e] = req[e]
        /\ DOMAIN req' = Caller /\ req' = [e \in Caller |-> req'[e]]
        /\ req'[c] \in Req /\ ~ Changes(req'[c]) /\ req'[c].op = "use"
        /\ req'[c].stage \in {"none", "using", "failed"}
    <3>1. CASE LookUp(c)
      BY <3>1, <1>p, <1>t DEF LookUp, TargetsTypeOK, Req, Stage, Changes, Entry
    <3>2. CASE AnswerUse(c)
      BY <3>2, <1>t, NoReqIdle DEF AnswerUse, TargetsTypeOK
    <3> QED BY <3>1, <3>2, <1>6
  <2>3. req'[c].stage \in {"using", "failed"} /\ req'[c].sure # Open => req'[c].got = req'[c].sure
    <3>1. CASE LookUp(c)
      <4>1. /\ req[c].stage = "called" /\ req'[c].got = table[req[c].name]
            /\ req'[c].sure = req[c].sure
        BY <3>1, <1>p, <1>t DEF LookUp, TargetsTypeOK, Req
      <4>2. req[c].sure # Open => settled[req[c].name] = req[c].sure
        BY <4>1, <2>1 DEF TargetsInv, Counted
      <4>3. req[c].name \in Name
        BY <1>p DEF Req
      <4> QED BY <4>1, <4>2, <4>3, <2>1 DEF TargetsInv, Settled
    <3>2. CASE AnswerUse(c)
      BY <3>2, <1>t DEF AnswerUse, TargetsTypeOK, NoReq
    <3> QED BY <3>1, <3>2, <1>6
  <2>4. TargetsTypeOK'
    <3>1. req' \in [Caller -> Req]
      BY <2>2, <1>p
    <3> QED BY <3>1, <2>1, <1>t DEF TargetsTypeOK
  <2>5. Locking' /\ Drift'
    BY <2>1, <2>2 DEF TargetsInv, Locking, Drift
  <2>6. Settled' /\ Counted'
    BY <2>1, <2>2 DEF TargetsInv, Settled, Counted
  <2>7. AnsweredChangeSeen'
    BY <2>2, <2>3 DEF TargetsInv, AnsweredChangeSeen
  <2> QED BY <2>4, <2>5, <2>6, <2>7 DEF TargetsInv
<1>7. CASE CrashTargets
  <2>1. /\ \A c \in Caller : req'[c] = NoReq
        /\ NoReq.stage = "none" /\ NoReq.sure = Open /\ NoReq.op = "use" /\ ~ Changes(NoReq)
        /\ NoReq \in Req
        /\ ~ running' /\ UNCHANGED <<saved, settled>>
    BY <1>7, NoReqIdle DEF CrashTargets
  <2>2. TargetsTypeOK'
    BY <1>7, <2>1, <1>t DEF CrashTargets, TargetsTypeOK, Entry
  <2> QED BY <2>1, <2>2
          DEF TargetsInv, Locking, Settled, Counted, Drift, AnsweredChangeSeen
<1>8. CASE LoadTargets
  <2>1. /\ \A c \in Caller : req[c] = NoReq
        /\ NoReq.stage = "none" /\ NoReq.sure = Open /\ NoReq.op = "use" /\ ~ Changes(NoReq)
        /\ running' /\ table' = saved /\ UNCHANGED <<saved, req, settled, told>>
    BY <1>8, NoReqIdle DEF LoadTargets, TargetsInv, Locking
  <2>2. TargetsTypeOK'
    BY <1>8, <1>t DEF LoadTargets, TargetsTypeOK
  <2> QED BY <2>1, <2>2
          DEF TargetsInv, Locking, Settled, Counted, Drift, AnsweredChangeSeen
<1>9. CASE UNCHANGED targetVars
  BY <1>9 DEF targetVars, TargetsInv, TargetsTypeOK, Locking, Settled, Counted, Drift,
              AnsweredChangeSeen
<1> QED BY <1>1, <1>2, <1>3, <1>4, <1>5, <1>6, <1>7, <1>8, <1>9 DEF TargetsNext, CallerStep

THEOREM TargetsInvariant == TargetsSpec => []TargetsInv
<1> QED BY TargetsInvInit, TargetsInvStep, PTL DEF TargetsSpec

\* Every variable of the target table has its type.
THEOREM TargetsTypeCorrect == TargetsSpec => []TargetsTypeOK
<1>1. TargetsInv => TargetsTypeOK
  BY DEF TargetsInv
<1> QED BY <1>1, TargetsInvariant, PTL

\* manager.go:107, 139, 437: an answered change of a target is in the file.
THEOREM TargetsChangesSurvive == TargetsSpec => []ChangesSurvive
<1>1. TargetsInv => ChangesSurvive
  BY DEF TargetsInv, Settled, ChangesSurvive
<1> QED BY <1>1, TargetsInvariant, PTL

\* manager.go:131: what is only in memory was answered with an error.
THEOREM TargetsDriftWasReported == TargetsSpec => []DriftWasReported
<1>1. TargetsInv => DriftWasReported
  BY DEF TargetsInv, Drift, DriftWasReported, LockFree
<1> QED BY <1>1, TargetsInvariant, PTL

\* manager.go:152: a call that uses a target sees the change answered before it.
THEOREM TargetsAnsweredChangeSeen == TargetsSpec => []AnsweredChangeSeen
<1>1. TargetsInv => AnsweredChangeSeen
  BY DEF TargetsInv
<1> QED BY <1>1, TargetsInvariant, PTL


\* What makes the table a map on disk: a call that has the lock has its change in the
\* table, and nothing that was answered with an error outlives the runtime.
Holding(n) == \E c \in Caller : req[c].stage = "held" /\ Place(req[c]) = n

Pending ==
  /\ ~ running => told = {}
  /\ \A c \in Caller : req[c].stage = "held" => table[Place(req[c])] = req[c].def

LEMMA PendingStep == TargetsInv /\ Pending /\ [TargetsNext]_targetVars => Pending'
<1> SUFFICES ASSUME TargetsInv, Pending, [TargetsNext]_targetVars PROVE Pending'
  OBVIOUS
<1>t. TargetsTypeOK /\ Locking
  BY DEF TargetsInv
<1>1. ASSUME NEW c \in Caller, NEW op \in {"upsert", "remove"}, NEW n \in Name,
             NEW d \in Entry \cup {Invalid}, AskChange(c, op, n, d)
      PROVE  Pending'
  <2>1. \A w \in Caller : req'[w].stage = "held" =>
          req[w].stage = "held" /\ req'[w].def = req[w].def /\ Place(req'[w]) = Place(req[w])
    BY <1>1, <1>t DEF AskChange, Unsettled, Request, TargetsTypeOK, Req, Place
  <2> QED BY <2>1, <1>1 DEF AskChange, Pending
<1>2. ASSUME NEW c \in Caller, NEW n \in Name, AskUse(c, n) PROVE Pending'
  BY <1>2, <1>t DEF AskUse, Request, Pending, TargetsTypeOK
<1>3. ASSUME NEW c \in Caller, ChangeTable(c) PROVE Pending'
  <2>1. req[c] \in Req /\ Place(req[c]) \in Name
    BY <1>t, PlaceIsName DEF TargetsTypeOK
  <2>2. CASE req'[c].stage = "failed" /\ table' = table
    BY <1>3, <2>2, <1>t DEF ChangeTable, Pending, TargetsTypeOK
  <2>3. CASE req' = [req EXCEPT ![c].stage = "held"]
             /\ table' = [table EXCEPT ![Place(req[c])] = req[c].def]
    <3>1. req'[c] = [req[c] EXCEPT !.stage = "held"]
      BY <2>3, <1>t DEF TargetsTypeOK
    <3>2. Place(req'[c]) = Place(req[c]) /\ req'[c].def = req[c].def
      BY <2>1, <3>1, StageMoves DEF Stage
    <3>3. \A w \in Caller \ {c} : req'[w].stage # "held"
      BY <1>3, <2>3, <1>t DEF ChangeTable, LockFree, TargetsTypeOK
    <3> QED BY <1>3, <2>1, <2>3, <3>2, <3>3, <1>t DEF ChangeTable, Pending, TargetsTypeOK
  <2> QED BY <1>3, <2>2, <2>3, <1>t DEF ChangeTable, TargetsTypeOK, Req
<1>4. ASSUME NEW c \in Caller,
             Persist(c) \/ PersistFails(c) \/ AnswerChange(c) \/ LookUp(c) \/ AnswerUse(c)
      PROVE  Pending'
  <2>1. /\ req'[c].stage # "held"
        /\ \A w \in Caller \ {c} : req'[w] = req[w]
        /\ table' = table /\ running' = running
    BY <1>4, <1>t DEF Persist, PersistFails, AnswerChange, LookUp, AnswerUse, NoReq, TargetsTypeOK, Req
  <2>2. ~ running => told' = {}
    <3>1. ~ running => req[c] = NoReq
      BY <1>t DEF Locking
    <3> QED BY <1>4, <3>1
            DEF Persist, PersistFails, AnswerChange, LookUp, AnswerUse, NoReq, Pending
  <2> QED BY <2>1, <2>2 DEF Pending
<1>5. CASE CrashTargets
  BY <1>5 DEF CrashTargets, Pending, NoReq
<1>6. CASE LoadTargets
  <2>1. \A c \in Caller : req[c].stage # "held"
    BY <1>6, <1>t DEF LoadTargets, Locking, NoReq
  <2> QED BY <1>6, <2>1 DEF LoadTargets, Pending
<1>7. CASE UNCHANGED targetVars
  BY <1>7 DEF targetVars, Pending, Place
<1> QED BY <1>1, <1>2, <1>3, <1>4, <1>5, <1>6, <1>7 DEF TargetsNext, CallerStep

\* What a caller waits for is about the same change until it is answered.
LEMMA AwaitedMoves ==
  ASSUME NEW r \in Req, r.op # "use", r.stage \in {"called", "held", "done", "failed"},
         NEW s \in {"called", "held", "done", "failed"}, NEW q, q = [r EXCEPT !.stage = s]
  PROVE  /\ Awaited(r) = TargetsMap!Change(Place(r), r.def, StateOf(r.stage))
         /\ Awaited(q) = [Awaited(r) EXCEPT !.state = StateOf(s)]
         /\ Place(q) = Place(r) /\ q.stage = s
<1>1. q.stage = s /\ q.def = r.def /\ Place(q) = Place(r) /\ Changes(q)
  BY StageMoves DEF Stage
<1>2. Changes(r)
  BY DEF Changes
<1> QED BY <1>1, <1>2 DEF Awaited, TargetsMap!Change, StateOf

\* A step of the manager is a step of the map, or nothing to it.
LEMMA TargetsMapStep ==
  TargetsInv /\ Pending /\ [TargetsNext]_targetVars => [TargetsMap!Next]_(TargetsMap!mapVars)
<1> SUFFICES ASSUME TargetsInv, Pending, [TargetsNext]_targetVars
             PROVE  TargetsMap!Next \/ UNCHANGED TargetsMap!mapVars
  OBVIOUS
<1> USE TargetsAssumption
<1>t. TargetsTypeOK /\ Locking /\ Drift
  BY DEF TargetsInv
<1>a. \A c \in Caller : req[c] \in Req /\ Place(req[c]) \in Name
  BY <1>t, PlaceIsName DEF TargetsTypeOK
<1>u. \A n \in Name : Unsaved(n) = IF n \in told /\ ~ Holding(n) THEN table[n] ELSE Open
  BY DEF Unsaved, Holding
<1>v. \A n \in Name : Unsaved(n)' = IF n \in told' /\ ~ Holding(n)' THEN table'[n] ELSE Open
  BY DEF Unsaved, Holding
<1>w. \A n \in Name : table[n] # Open
  BY <1>t DEF TargetsTypeOK, Entry
<1>1. ASSUME NEW c \in Caller, NEW op \in {"upsert", "remove"}, NEW n \in Name,
             NEW d \in Entry \cup {Invalid}, AskChange(c, op, n, d)
      PROVE  TargetsMap!Next
  <2> DEFINE r == Request(op, n, d)
             q == [r EXCEPT !.sure = Sure(op, Place(r), d)]
  <2>1. /\ req[c] = NoReq /\ req'[c] = q
        /\ \A w \in Caller \ {c} :
             IF Place(req[w]) = Place(r) /\ req[w].stage # "using"
             THEN req'[w] = [req[w] EXCEPT !.sure = Open] ELSE req'[w] = req[w]
    BY <1>1, <1>t DEF AskChange, Unsettled, TargetsTypeOK
  <2>2. d \in Entry /\ Place(r) \in Name
    BY <1>1 DEF AskChange, RefusedEarly, Place, Request, Entry
  <2>3. /\ q.op = op /\ q.stage = "called" /\ q.def = d /\ Place(q) = Place(r)
    BY DEF Request, Place
  <2>4. Awaited(req[c]) = TargetsMap!Idle
    BY <2>1, NoReqIdle DEF Awaited, TargetsMap!Idle
  <2>5. Awaited(req'[c]) = TargetsMap!Change(Place(r), d, "asked")
    BY <2>1, <2>3 DEF Awaited, TargetsMap!Change, Changes
  <2>6. \A w \in Caller \ {c} :
          /\ Awaited(req'[w]) = Awaited(req[w])
          /\ req'[w].stage = req[w].stage /\ Place(req'[w]) = Place(req[w])
    <3> SUFFICES ASSUME NEW w \in Caller \ {c}, req'[w] = [req[w] EXCEPT !.sure = Open]
                 PROVE  /\ Awaited(req'[w]) = Awaited(req[w])
                        /\ req'[w].stage = req[w].stage /\ Place(req'[w]) = Place(req[w])
      BY <2>1
    <3>1. /\ req'[w].op = req[w].op /\ req'[w].name = req[w].name
          /\ req'[w].def = req[w].def /\ req'[w].stage = req[w].stage
      BY <1>a DEF Req
    <3> QED BY <3>1 DEF Awaited, Changes, Place
  <2>7. \A m \in Name : Unsaved(m)' = Unsaved(m)
    <3>1. \A m \in Name : Holding(m)' <=> Holding(m)
      BY <2>1, <2>3, <2>6, NoReqIdle DEF Holding
    <3> QED BY <3>1, <1>1, <1>u, <1>v DEF AskChange
  <2>8. TargetsMap!Asks(c, Place(r), d)
    BY <1>1, <2>2, <2>4, <2>5, <2>6, <2>7 DEF AskChange, TargetsMap!Asks
  <2> QED BY <2>2, <2>8 DEF TargetsMap!Next
<1>2. ASSUME NEW c \in Caller, ChangeTable(c) PROVE TargetsMap!Next
  <2> DEFINE r == req[c]
             s == req'[c].stage
  <2>1. /\ r \in Req /\ r.op # "use" /\ r.stage = "called"
        /\ \A w \in Caller : req[w].stage # "held"
        /\ \A w \in Caller \ {c} : req'[w] = req[w]
        /\ s \in {"held", "failed"} /\ req'[c] = [r EXCEPT !.stage = s]
        /\ saved' = saved /\ told' = told
        /\ table' = IF s = "held" THEN [table EXCEPT ![Place(r)] = r.def] ELSE table
    BY <1>2, <1>a, <1>t DEF ChangeTable, LockFree, TargetsTypeOK, Req
  <2>2. /\ Awaited(r) = TargetsMap!Change(Place(r), r.def, "asked")
        /\ Awaited(req'[c]) = [Awaited(r) EXCEPT !.state = StateOf(s)]
        /\ Place(req'[c]) = Place(r)
    BY <2>1, AwaitedMoves DEF StateOf
  <2>3. \A n \in Name : ~ Holding(n) /\ (Holding(n)' <=> s = "held" /\ n = Place(r))
    BY <2>1, <2>2 DEF Holding
  <2>4. CASE s = "failed"
    <3>1. \A n \in Name : Unsaved(n)' = Unsaved(n)
      BY <2>1, <2>3, <2>4, <1>u, <1>v
    <3>a. /\ Awaited(r).state = "asked" /\ Awaited(r).cell = Place(r) /\ Awaited(r).value = r.def
          /\ Awaited(req'[c]) = [Awaited(r) EXCEPT !.state = "failed"]
      BY <2>4, <2>2 DEF StateOf, TargetsMap!Change
    <3>2. TargetsMap!Fails(c)
      BY <2>1, <2>4, <3>1, <3>a DEF TargetsMap!Fails
    <3> QED BY <3>2 DEF TargetsMap!Next
  <2>5. CASE s = "held"
    <3>1. \A n \in Name : Unsaved(n)' = IF n = Place(r) THEN Open ELSE Unsaved(n)
      BY <2>1, <2>3, <2>5, <1>u, <1>v, <1>t DEF TargetsTypeOK
    <3>2. \A w \in Caller : Awaited(req'[w]) = Awaited(req[w])
      BY <2>1, <2>2, <2>5 DEF StateOf, TargetsMap!Change
    <3>3. Awaited(r).state = "asked" /\ Awaited(r).cell = Place(r)
      BY <2>2 DEF TargetsMap!Change
    <3>4. TargetsMap!Overtakes(c)
      BY <2>1, <3>1, <3>2, <3>3 DEF TargetsMap!Overtakes
    <3> QED BY <3>4 DEF TargetsMap!Next
  <2> QED BY <2>1, <2>4, <2>5
<1>3. ASSUME NEW c \in Caller, Persist(c) \/ PersistFails(c) PROVE TargetsMap!Next
  <2> DEFINE r == req[c]
             s == req'[c].stage
  <2>1. /\ r \in Req /\ r.op # "use" /\ r.stage = "held"
        /\ \A w \in Caller \ {c} : req[w].stage # "held" /\ req'[w] = req[w]
        /\ s \in {"done", "failed"} /\ req'[c] = [r EXCEPT !.stage = s]
        /\ table' = table /\ table[Place(r)] = r.def
    BY <1>3, <1>a, <1>t DEF Persist, PersistFails, Locking, Pending, TargetsTypeOK, Req
  <2>2. /\ Awaited(r) = TargetsMap!Change(Place(r), r.def, "asked")
        /\ Awaited(req'[c]) = [Awaited(r) EXCEPT !.state = StateOf(s)]
        /\ Place(req'[c]) = Place(r)
    BY <2>1, AwaitedMoves DEF StateOf
  <2>3. \A n \in Name : (Holding(n) <=> n = Place(r)) /\ ~ Holding(n)'
    BY <2>1 DEF Holding
  <2>4. CASE Persist(c)
    <3>1. s = "done" /\ saved' = table /\ told' = {}
      BY <2>4, <1>t DEF Persist, TargetsTypeOK, Req
    <3>2. \A n \in Name : Unsaved(n)' = Open
      BY <3>1, <1>v
    <3>3. running
      BY <2>1, <1>t, NoReqIdle DEF Locking
    <3>4. \A n \in Name :
            table[n] = IF n = Place(r) THEN r.def
                       ELSE IF Unsaved(n) # Open THEN Unsaved(n) ELSE saved[n]
      BY <2>1, <2>3, <3>3, <1>t, <1>u, <1>w DEF Drift, Holding
    <3>5. saved' = [n \in Name |-> IF n = Place(r) THEN r.def
                                   ELSE IF Unsaved(n) # Open THEN Unsaved(n) ELSE saved[n]]
      BY <3>1, <3>4, <1>t DEF TargetsTypeOK
    <3>a. /\ Awaited(r).state = "asked" /\ Awaited(r).cell = Place(r) /\ Awaited(r).value = r.def
          /\ Awaited(req'[c]) = [Awaited(r) EXCEPT !.state = "stored"]
      BY <3>1, <2>2 DEF StateOf, TargetsMap!Change
    <3>6. TargetsMap!Stores(c)
      BY <2>1, <3>2, <3>5, <3>a DEF TargetsMap!Stores
    <3> QED BY <3>6 DEF TargetsMap!Next
  <2>5. CASE PersistFails(c)
    <3>1. s = "failed" /\ saved' = saved /\ told' = told \cup {Place(r)}
      BY <2>5, <1>t DEF PersistFails, TargetsTypeOK, Req
    <3>2. \A n \in Name : Unsaved(n)' = IF n = Place(r) THEN r.def ELSE Unsaved(n)
      BY <2>1, <2>3, <3>1, <1>u, <1>v
    <3>a. /\ Awaited(r).state = "asked" /\ Awaited(r).cell = Place(r) /\ Awaited(r).value = r.def
          /\ Awaited(req'[c]) = [Awaited(r) EXCEPT !.state = "failed"]
      BY <3>1, <2>2 DEF StateOf, TargetsMap!Change
    <3>3. TargetsMap!Fails(c)
      BY <2>1, <3>1, <3>2, <3>a DEF TargetsMap!Fails
    <3> QED BY <3>3 DEF TargetsMap!Next
  <2> QED BY <1>3, <2>4, <2>5
<1>4. ASSUME NEW c \in Caller, AnswerChange(c) PROVE TargetsMap!Next
  <2>1. /\ req[c] \in Req /\ req[c].op # "use" /\ req[c].stage \in {"done", "failed"}
        /\ req'[c] = NoReq /\ \A w \in Caller \ {c} : req'[w] = req[w]
        /\ saved' = saved /\ table' = table /\ told' = told
    BY <1>4, <1>a, <1>t DEF AnswerChange, TargetsTypeOK
  <2>2. /\ Awaited(req[c]).state \in {"stored", "failed"}
        /\ Awaited(req'[c]) = TargetsMap!Idle
    BY <2>1, NoReqIdle DEF Awaited, Changes, TargetsMap!Idle
  <2>3. \A n \in Name : Unsaved(n)' = Unsaved(n)
    <3>1. \A n \in Name : Holding(n)' <=> Holding(n)
      BY <2>1, NoReqIdle DEF Holding
    <3> QED BY <2>1, <3>1, <1>u, <1>v
  <2> QED BY <2>1, <2>2, <2>3 DEF TargetsMap!Next, TargetsMap!Answers
<1>5. ASSUME NEW c \in Caller, (\E n \in Name : AskUse(c, n)) \/ LookUp(c) \/ AnswerUse(c)
      PROVE  UNCHANGED TargetsMap!mapVars
  <2>1. /\ saved' = saved /\ table' = table /\ told' = told
        /\ ~ Changes(req[c]) /\ ~ Changes(req'[c])
        /\ req[c].stage # "held" /\ req'[c].stage # "held"
        /\ \A w \in Caller \ {c} : req'[w] = req[w]
    <3>1. /\ saved' = saved /\ table' = table /\ told' = told
          /\ \A w \in Caller \ {c} : req'[w] = req[w]
      BY <1>5, <1>t DEF AskUse, LookUp, AnswerUse, TargetsTypeOK
    <3>2. /\ req[c].op = "use" /\ req[c].stage # "held"
          /\ req'[c].op = "use" /\ req'[c].stage # "held"
      <4>1. CASE \E n \in Name : AskUse(c, n)
        BY <4>1, <1>t, NoReqIdle DEF AskUse, Request, TargetsTypeOK
      <4>2. CASE LookUp(c)
        BY <4>2, <1>a, <1>t DEF LookUp, TargetsTypeOK, Req
      <4>3. CASE AnswerUse(c)
        BY <4>3, <1>t, NoReqIdle DEF AnswerUse, TargetsTypeOK
      <4> QED BY <1>5, <4>1, <4>2, <4>3
    <3> QED BY <3>1, <3>2 DEF Changes
  <2>2. \A w \in Caller : Awaited(req'[w]) = Awaited(req[w])
    BY <2>1 DEF Awaited
  <2>3. \A n \in Name : Unsaved(n)' = Unsaved(n)
    <3>1. \A n \in Name : Holding(n)' <=> Holding(n)
      BY <2>1 DEF Holding
    <3> QED BY <2>1, <3>1, <1>u, <1>v
  <2> QED BY <2>1, <2>2, <2>3 DEF TargetsMap!mapVars
<1>6. CASE CrashTargets
  <2>1. \A c \in Caller : Awaited(req'[c]) = TargetsMap!Idle
    BY <1>6, NoReqIdle DEF CrashTargets, Awaited, TargetsMap!Idle
  <2>2. \A n \in Name : Unsaved(n)' = Open
    BY <1>6, <1>v DEF CrashTargets
  <2> QED BY <1>6, <2>1, <2>2 DEF CrashTargets, TargetsMap!Next, TargetsMap!Crash
<1>7. CASE LoadTargets
  <2>1. \A n \in Name : Unsaved(n)' = Unsaved(n)
    BY <1>7, <1>u, <1>v DEF LoadTargets, Pending
  <2> QED BY <1>7, <2>1 DEF LoadTargets, TargetsMap!mapVars
<1>8. CASE UNCHANGED targetVars
  <2>1. \A n \in Name : Unsaved(n)' = Unsaved(n)
    BY <1>8, <1>u, <1>v DEF targetVars, Holding
  <2> QED BY <1>8, <2>1 DEF targetVars, TargetsMap!mapVars
<1> QED BY <1>1, <1>2, <1>3, <1>4, <1>5, <1>6, <1>7, <1>8 DEF TargetsNext, CallerStep

\* manager.go:437: targets.json is changed as a whole, at one instant of a call that
\* succeeds; what comes with it was asked for and answered with an error.
THEOREM TargetsImplementMap == TargetsSpec => TargetsContract
<1>1. TargetsInit => TargetsMap!Init /\ Pending
  <2> SUFFICES ASSUME TargetsInit PROVE TargetsMap!Init /\ Pending
    OBVIOUS
  <2>1. \A c \in Caller : Awaited(req[c]) = TargetsMap!Idle /\ req[c].stage # "held"
    BY NoReqIdle DEF TargetsInit, Awaited, TargetsMap!Idle
  <2> QED BY <2>1 DEF TargetsInit, TargetsMap!Init, Unsaved, Entry, Pending
<1> QED
  BY <1>1, TargetsMapStep, PendingStep, TargetsInvariant, PTL
     DEF TargetsSpec, TargetsContract, TargetsMap!Spec

-----------------------------------------------------------------------------
(* The three together                                                      *)

\* A step of a scene is a step of the component it shows, and nothing to the others.
LEMMA SceneSteps ==
  [Next]_<<scene, targetVars, keyVars, editVars>> =>
    [TargetsNext]_targetVars /\ [KeysNext]_keyVars /\ [EditsNext]_editVars
  BY DEF Next

\* What is checked of the three kinds of files in one model is what is proved of each:
\* every scene is a behaviour of TargetStore, of KeyStore and of FileEdits.
THEOREM ScenesImplementStores == Spec => TargetsSpec /\ KeysSpec /\ EditsSpec
<1>1. Init => TargetsInit /\ KeysInit /\ EditsInit
  BY DEF Init
<1> QED BY <1>1, SceneSteps, PTL DEF Spec, TargetsSpec, KeysSpec, EditsSpec

\* targets.json, the files of the key-value state and files of the user, in one
\* runtime, are what their types say.
THEOREM StoresTypeCorrect == Spec => []StoresTypeOK
<1>1. TargetsTypeOK /\ KeysTypeOK /\ EditsTypeOK => StoresTypeOK
  BY DEF StoresTypeOK
<1> QED
  BY <1>1, ScenesImplementStores, TargetsTypeCorrect, KeysTypeCorrect, EditsTypeCorrect, PTL

\* The two stores keep the promise of DurableMap in the model that is checked.
THEOREM StoresKeepContract == Spec => StoresContract
<1> QED
  BY ScenesImplementStores, TargetsImplementMap, KeysImplementMap, PTL DEF StoresContract
=============================================================================
