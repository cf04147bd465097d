---------------------------- MODULE MCDecisions -----------------------------
(***************************************************************************)
(* The two tables by which a call is admitted: what the server makes of a  *)
(* message, and what the policy engine makes of a call.  A scene, chosen   *)
(* in the beginning, is one of them.                                       *)
(*                                                                         *)
(* Documents: every mode, every combination of the permissions, a limit    *)
(* below, at and beside the requested one, and lists with the tools that   *)
(* sit on the border of two classes; calls of every tool of the catalogue  *)
(* and of one plugin.  Messages: every combination of what a version check *)
(* looks at, and every combination of what the check of a reason looks at. *)
(***************************************************************************)
EXTENDS PolicyEngine, Admission

VARIABLE scene

MCDocument ==
  [parses     : {TRUE},
   mode       : Modes \cup {"", "paranoid"},
   deny       : {{}, {"job_list", "fs_read"}},
   limited    : BOOLEAN,
   allow      : {{"job_list", "fs_read", "fs_remove", "target_exec"}},
   privileged : BOOLEAN,
   remote     : BOOLEAN,
   plugins    : {TRUE},
   sensitive  : BOOLEAN,
   maxExec    : {0, 2}]

Ask(tools, privileged, seconds, methods) ==
  [tool : tools, privileged : privileged, seconds : seconds, method : methods]

MCRequest == UNION {
  Ask(CoreTool \cup {"plugin"}, {FALSE}, {0}, {"GET"}),
  Ask({"process_exec", "target_exec"}, BOOLEAN, {2, 3, 3601}, {"GET"}),
  Ask({"network_request"}, {FALSE}, {0}, {"", "GET", "HEAD", "OPTIONS", "POST"})}

Msg(methods, headers, bodies, ids, mirrored) ==
  [form : {"ok"}, id : ids, method : methods, header : headers, body : bodies,
   mirrored : mirrored, known : {TRUE}, shape : {"object"}, reasons : {<<"own">>},
   beside : {""}, meta : {""}]

Stated == SupportedLegacy \cup {Latest, Unstated, "unknown"}

Plain == [form |-> "ok", id |-> TRUE, method |-> "tools/call", header |-> "", body |-> "",
          mirrored |-> FALSE, known |-> TRUE, shape |-> "object", reasons |-> <<>>,
          beside |-> "", meta |-> ""]

MCMessage ==
  Msg(Methods, Stated, Stated, BOOLEAN, BOOLEAN)
  \cup {[Plain EXCEPT !.form = f, !.id = i] : f \in {"unparsed", "invalid"}, i \in BOOLEAN}
  \cup {[Plain EXCEPT !.known = k, !.shape = "object", !.reasons = r, !.beside = b, !.meta = a] :
         k \in BOOLEAN, r \in {<<>>, <<"own">>, <<"bad">>, <<"own", "own">>, <<"own", "bad">>},
         b \in {"", "beside", "bad"}, a \in {"", "meta", "bad"}}
  \cup {[Plain EXCEPT !.shape = s, !.beside = b, !.meta = a] :
         s \in {"absent", "null", "list"}, b \in {"", "beside", "bad"}, a \in {"", "meta", "bad"}}

Init ==
  /\ scene \in {"server", "engine"}
  /\ EngineInit /\ AdmissionInit
  /\ scene = "server" => cfg = Loaded(CHOOSE d \in Document : Loadable(d))
  /\ scene = "engine" => strict = FALSE /\ compat = FALSE

Next ==
  /\ UNCHANGED scene
  /\ \/ scene = "engine" /\ EngineNext /\ UNCHANGED admissionVars
     \/ scene = "server" /\ AdmissionNext /\ UNCHANGED engineVars

Spec == Init /\ [][Next]_<<scene, engineVars, admissionVars>>

\* The type invariants of the two modules.
DecisionsTypeOK == EngineTypeOK /\ AdmissionTypeOK
=============================================================================
