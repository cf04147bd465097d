----------------------------- MODULE RemoteCall ------------------------------
(***************************************************************************)
(* What a tool may count on when another process does its work: the        *)
(* session bridge, the root broker, a helper process, or the extension of  *)
(* the browser.                                                            *)
(*                                                                         *)
(* A question is put once and dealt with at most once, whatever becomes of *)
(* the process and of those that follow it: nobody tries again what may    *)
(* have been done.  An answer is given only to what was dealt with.  An    *)
(* error may come at any time and says nothing of that; what was asked may *)
(* still be done after it.                                                 *)
(***************************************************************************)
CONSTANT Caller

VARIABLES
  fate,    \* of what each caller asks: unasked, asked, done or lost
  reply    \* what the caller was told: none, answer or error

remoteVars == <<fate, reply>>

Init ==
  /\ fate = [c \in Caller |-> "unasked"]
  /\ reply = [c \in Caller |-> "none"]

Becomes(c, f, r) == fate'[c] = f /\ reply'[c] = r

\* The question is written; the connection may lead nowhere by then.
Asked(c) ==
  /\ fate[c] = "unasked" /\ reply[c] = "none"
  /\ Becomes(c, "asked", "none") \/ Becomes(c, "lost", "none")

\* Whether or not somebody still waits.
Done(c) == fate[c] = "asked" /\ Becomes(c, "done", reply[c])

\* The question, or the answer to it, goes down with a connection.
Dropped(c) ==
  fate[c] \in {"asked", "done"} /\ reply[c] # "answer" /\ Becomes(c, "lost", reply[c])

\* What is done on the spot is done and answered at once.
Answered(c) ==
  fate[c] \in {"asked", "done"} /\ reply[c] = "none" /\ Becomes(c, "done", "answer")

Failed(c) ==
  reply[c] = "none" /\ (Becomes(c, fate[c], "error") \/ Becomes(c, "lost", "error"))

\* With another question, which may be put or refused at once.
Begins(c) ==
  /\ reply[c] # "none"
  /\ \/ Becomes(c, "unasked", "none") \/ Becomes(c, "asked", "none")
     \/ Becomes(c, "lost", "error")

Step(c) ==
  \/ Becomes(c, fate[c], reply[c])
  \/ Asked(c) \/ Done(c) \/ Dropped(c) \/ Answered(c) \/ Failed(c) \/ Begins(c)

\* The end of a process concerns all that have asked it.
Next == \A c \in Caller : Step(c)

Spec == Init /\ [][Next]_remoteVars

-----------------------------------------------------------------------------
\* What follows from it: there is nothing but these fates, and an answer was earned.
Kept ==
  \A c \in Caller :
    /\ fate[c] \in {"unasked", "asked", "done", "lost"}
    /\ reply[c] \in {"none", "answer", "error"}
    /\ reply[c] = "answer" => fate[c] = "done"
=============================================================================
