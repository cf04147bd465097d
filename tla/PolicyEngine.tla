---------------------------- MODULE PolicyEngine ----------------------------
(***************************************************************************)
(* The policy engine on its own: it loads any of a set of documents and    *)
(* decides on any of a set of calls.  The properties compare its decision  *)
(* tables with each other, with those of neighbouring configurations, and  *)
(* with the annotations of the tools.                                      *)
(***************************************************************************)
EXTENDS Policy

CONSTANTS
  Document,   \* what policy.json may hold
  Request     \* the calls that may be asked about

\* Names need not be those of the catalogue, and a limit need not be positive.
ASSUME EngineAssumption ==
  /\ Document \subseteq
       [parses : BOOLEAN, mode : STRING, deny : SUBSET STRING, limited : BOOLEAN,
        allow : SUBSET STRING, privileged : BOOLEAN, remote : BOOLEAN, plugins : BOOLEAN,
        sensitive : BOOLEAN, maxExec : Int]
  /\ Request \subseteq [tool : STRING, privileged : BOOLEAN, seconds : Int, method : STRING]

VARIABLES
  cfg,      \* Engine.cfg
  asked     \* the call the engine has decided on, as a set of at most one

engineVars == <<cfg, asked>>

EngineInit ==
  /\ cfg \in {Loaded(d) : d \in {d \in Document : Loadable(d)}}
  /\ asked = {}

\* Reload keeps the configuration when the document cannot be loaded.
Reload(doc) ==
  /\ asked = {}
  /\ cfg' = IF Loadable(doc) THEN Loaded(doc) ELSE cfg
  /\ UNCHANGED asked

BeforeCall(call) ==
  /\ asked = {}
  /\ asked' = {call}
  /\ UNCHANGED cfg

Answer ==
  /\ asked # {}
  /\ asked' = {}
  /\ UNCHANGED cfg

EngineNext ==
  \/ \E doc \in Document : Reload(doc)
  \/ \E call \in Request : BeforeCall(call)
  \/ Answer

EngineSpec == EngineInit /\ [][EngineNext]_engineVars

-----------------------------------------------------------------------------
\* A loaded configuration has a known mode and a limit that can be kept.
EngineTypeOK ==
  /\ cfg.mode \in Modes
  /\ cfg.maxExec > 0
  /\ asked \subseteq Request

\* What readonly mode lets through is what the tools themselves declare as
\* reading (readOnlyHint), a directory listing, or an HTTP request that is sent with a
\* method that reads:
\* the list in policy.go agrees with the annotations in internal/tools.
ReadonlyOnlyReads ==
  \A call \in asked :
    cfg.mode = "readonly" /\ ~ Refused(cfg, call) =>
      \/ call.tool \in ReadOnlyHint \cup {"fs_list"}
      \/ call.tool = "network_request" /\ Performed(call.method) \in ReadMethods

\* Each mode is stricter than the one before it, whatever else is configured:
\* full, safe, readonly.  The classes behind the modes are separate lists.
ModesNested ==
  \A call \in asked :
    LET refusedIn(m) == Refused([cfg EXCEPT !.mode = m], call) IN
      /\ refusedIn("full") => refusedIn("safe")
      /\ refusedIn("safe") => refusedIn("readonly")

\* c takes something away from d, and gives nothing.
Tighter(c, d) ==
  /\ c.mode = d.mode
  /\ d.deny \subseteq c.deny
  /\ d.limited => c.limited /\ c.allow \subseteq d.allow
  /\ c.maxExec <= d.maxExec
  /\ c.privileged => d.privileged
  /\ c.remote => d.remote
  /\ c.sensitive => d.sensitive

\* A document that only takes permissions away lets no further call through.
TighterRefusesMore ==
  \A call \in asked, doc \in Document :
    Loadable(doc) /\ Tighter(Loaded(doc), cfg) /\ Refused(cfg, call) =>
      Refused(Loaded(doc), call)
=============================================================================
