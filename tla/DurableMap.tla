----------------------------- MODULE DurableMap ------------------------------
(***************************************************************************)
(* What a tool that keeps things in files promises: a map that survives    *)
(* the runtime, changed by concurrent calls.                               *)
(*                                                                         *)
(* A change that is answered with success has been made on disk, at one    *)
(* instant of its call.  One that is answered with an error has not; it    *)
(* may still be on its way there, as long as the runtime lives and nobody  *)
(* changes the same cell, and then comes with the next change that is      *)
(* made.  Nothing else ever gets there, and a crash takes away what has    *)
(* not.                                                                    *)
(***************************************************************************)
CONSTANTS
  Client,   \* the concurrent calls
  Cell,     \* what can be changed
  Value,    \* to what
  Never     \* nothing is on its way

VARIABLES
  stored,   \* what each cell holds on disk
  late,     \* what may still get there though it was answered with an error
  asked     \* the change each client is waiting for

mapVars == <<stored, late, asked>>

Idle == [state |-> "idle"]

Change(p, v, state) == [state |-> state, cell |-> p, value |-> v]

Init ==
  /\ \E v \in Value : stored = [p \in Cell |-> v]
  /\ late = [p \in Cell |-> Never]
  /\ asked = [c \in Client |-> Idle]

Asks(c, p, v) ==
  /\ asked[c] = Idle
  /\ asked' = [asked EXCEPT ![c] = Change(p, v, "asked")]
  /\ UNCHANGED <<stored, late>>

\* Whatever was on its way to the cell gets there no more.
Overtakes(c) ==
  /\ asked[c].state = "asked"
  /\ late' = [late EXCEPT ![asked[c].cell] = Never]
  /\ UNCHANGED <<stored, asked>>

Stores(c) ==
  /\ asked[c].state = "asked"
  /\ asked' = [asked EXCEPT ![c].state = "stored"]
  /\ stored' = [p \in Cell |->
       IF p = asked[c].cell THEN asked[c].value
       ELSE IF late[p] # Never THEN late[p] ELSE stored[p]]
  /\ late' = [p \in Cell |-> Never]

Fails(c) ==
  /\ asked[c].state = "asked"
  /\ asked' = [asked EXCEPT ![c].state = "failed"]
  /\ late' \in {late, [late EXCEPT ![asked[c].cell] = asked[c].value]}
  /\ UNCHANGED stored

Answers(c) ==
  /\ asked[c].state \in {"stored", "failed"}
  /\ asked' = [asked EXCEPT ![c] = Idle]
  /\ UNCHANGED <<stored, late>>

Crash ==
  /\ asked' = [c \in Client |-> Idle]
  /\ late' = [p \in Cell |-> Never]
  /\ UNCHANGED stored

Next ==
  \/ \E c \in Client :
       \/ \E p \in Cell, v \in Value : Asks(c, p, v)
       \/ Overtakes(c) \/ Stores(c) \/ Fails(c) \/ Answers(c)
  \/ Crash

Spec == Init /\ [][Next]_mapVars
=============================================================================
