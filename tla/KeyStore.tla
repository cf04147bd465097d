------------------------------ MODULE KeyStore ------------------------------
(***************************************************************************)
(* The key-value state of internal/state/store.go: one file for each       *)
(* namespace and key, named by `safe`, which maps different keys to one    *)
(* file name where they differ in a character it replaces.                 *)
(*                                                                         *)
(* A put holds the lock while it writes a temporary file and renames it; a *)
(* delete removes the file.  Either may fail, and the runtime may crash    *)
(* at any time.  Get and List hold the read lock while they read.  Names   *)
(* of temporary files do not end in .json, so that nobody takes them for   *)
(* keys; they are not part of the state.                                   *)
(*                                                                         *)
(* The files are taken to be nobody else's.  That leaves out the           *)
(* namespace `..`, which `safe` lets pass and which is the directory above *)
(* that of the keys.                                                       *)
(***************************************************************************)
CONSTANTS
  User,      \* the concurrent tool calls
  Key,       \* pairs of a namespace and a key
  Safe,      \* the file of each
  Datum,     \* values
  Nothing,   \* there is no such file
  Unknown    \* nobody has been promised anything

ASSUME KeysAssumption ==
  /\ {Nothing, Unknown} \cap Datum = {}
  /\ Nothing # Unknown

VARIABLES
  serving,   \* the runtime is up
  content,   \* what each file holds
  ask,       \* the call under way of each user
  kept       \* what the user of each key may count on finding

keyVars == <<serving, content, ask, kept>>

File == {Safe[k] : k \in Key}

\* A call is a put, or a delete of Nothing; `was` is what its caller could count on
\* before, as long as no other call about the same file is under way.
Ask == [key : Key, datum : Datum \cup {Nothing}, was : Datum \cup {Nothing, Unknown},
        stage : {"called", "held", "done", "failed"}, alone : BOOLEAN]

NoAsk == [stage |-> "none"]

KeysInit ==
  /\ serving = TRUE
  /\ content = [f \in File |-> Nothing]
  /\ ask = [u \in User |-> NoAsk]
  /\ kept = [k \in Key |-> Nothing]

-----------------------------------------------------------------------------
About(u, f) == ask[u] # NoAsk /\ Safe[ask[u].key] = f

\* Until it is answered nobody may count on what the file holds.
AskKey(u, k, d) ==
  LET f == Safe[k] IN
  /\ serving
  /\ ask[u] = NoAsk
  /\ ask' = [w \in User |->
       IF w = u THEN [key |-> k, datum |-> d, was |-> kept[k], stage |-> "called",
                      alone |-> \A v \in User : ~ About(v, f)]
       ELSE IF About(w, f) THEN [ask[w] EXCEPT !.alone = FALSE] ELSE ask[w]]
  /\ kept' = [j \in Key |-> IF Safe[j] = f THEN Unknown ELSE kept[j]]
  /\ UNCHANGED <<serving, content>>

StoreFree == \A u \in User : ask[u].stage # "held"

\* Put, from the lock to the temporary file, which is synced and closed.
Prepare(u) ==
  /\ ask[u].stage = "called" /\ ask[u].datum # Nothing
  /\ StoreFree
  /\ ask' = [ask EXCEPT ![u].stage = "held"]
  /\ UNCHANGED <<serving, content, kept>>

\* Mutant: the file itself is opened and truncated, then written.
ReplaceInPlace(u) ==
  LET f == Safe[ask[u].key] IN
  /\ ask[u].stage = "held"
  /\ content' = [content EXCEPT ![f] = IF @ = Unknown THEN ask[u].datum ELSE Unknown]
  /\ ask' = [ask EXCEPT ![u].stage = IF content[f] = Unknown THEN "done" ELSE "held"]
  /\ UNCHANGED <<serving, kept>>

\* The rename.
Replace(u) ==
  /\ ask[u].stage = "held"
  /\ content' = [content EXCEPT ![Safe[ask[u].key]] = ask[u].datum]
  /\ ask' = [ask EXCEPT ![u].stage = "done"]
  /\ UNCHANGED <<serving, kept>>

\* Any step of atomicWrite fails, the rename included.
PutFails(u) ==
  /\ ask[u].stage = "held"
  /\ ask' = [ask EXCEPT ![u].stage = "failed"]
  /\ UNCHANGED <<serving, content, kept>>

\* Delete, which fails if there is no file.
DeleteKey(u) ==
  LET f == Safe[ask[u].key] IN
  /\ ask[u].stage = "called" /\ ask[u].datum = Nothing
  /\ StoreFree
  /\ content' = [content EXCEPT ![f] = Nothing]
  /\ ask' = [ask EXCEPT ![u].stage = IF content[f] = Nothing THEN "failed" ELSE "done"]
  /\ UNCHANGED <<serving, kept>>

\* A call that no other about the file has overlapped tells its user what the key
\* holds now: what was asked for, or what it held before.
AnswerKey(u) ==
  LET a == ask[u] IN
  /\ a.stage \in {"done", "failed"}
  /\ ask' = [ask EXCEPT ![u] = NoAsk]
  /\ kept' = IF a.alone
             THEN [kept EXCEPT ![a.key] = IF a.stage = "done" THEN a.datum ELSE a.was]
             ELSE kept
  /\ UNCHANGED <<serving, content>>

\* The files stay as they are.
CrashKeys ==
  /\ serving
  /\ serving' = FALSE
  /\ ask' = [u \in User |-> NoAsk]
  /\ UNCHANGED <<content, kept>>

StartKeys ==
  /\ ~ serving
  /\ serving' = TRUE
  /\ UNCHANGED <<content, ask, kept>>

KeysNext ==
  \/ \E u \in User :
       \/ \E k \in Key, d \in Datum \cup {Nothing} : AskKey(u, k, d)
       \/ Prepare(u) \/ Replace(u) \/ PutFails(u) \/ DeleteKey(u) \/ AnswerKey(u)
  \/ CrashKeys
  \/ StartKeys

KeysSpec == KeysInit /\ [][KeysNext]_keyVars

-----------------------------------------------------------------------------
(* Properties                                                              *)

KeysTypeOK ==
  /\ serving \in BOOLEAN
  /\ content \in [File -> Datum \cup {Nothing}]
  /\ ask \in [User -> Ask \cup {NoAsk}]
  /\ kept \in [Key -> Datum \cup {Nothing, Unknown}]

\* tools/state.go:13: state "survives MCP/tunnel/runtime restarts".  A key holds
\* what the last call about it that was answered, and that no other call about
\* its file overlapped or followed, has said: the new value, or after an error
\* the old one.  Only keys that share its file can take that away.
AnswersSurvive ==
  \A k \in Key : kept[k] # Unknown => content[Safe[k]] = kept[k]

\* What a user waits for.
Expected(a) ==
  IF a = NoAsk THEN [state |-> "idle"]
  ELSE [state |-> CASE a.stage = "done" -> "stored" [] a.stage = "failed" -> "failed" [] OTHER -> "asked",
        cell |-> Safe[a.key], value |-> a.datum]

KeysMap == INSTANCE DurableMap WITH
  Client <- User, Cell <- File, Value <- Datum \cup {Nothing}, Never <- Unknown,
  stored <- content,
  late   <- [f \in File |-> Unknown],
  asked  <- [u \in User |-> Expected(ask[u])]

\* A file changes at one instant of a call that answers with success (atomicWrite,
\* store.go:90), and a call that answers with an error has changed none.
KeysContract == KeysMap!Spec
=============================================================================
