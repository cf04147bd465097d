---------------------------- MODULE MCToolCalls -----------------------------
(***************************************************************************)
(* Two clients, of which one reloads plugins; policies for full and for    *)
(* readonly mode and one that cannot be loaded; two manifests for one      *)
(* plugin and one that claims the name of a core tool.                     *)
(***************************************************************************)
EXTENDS ToolCalls, TLC

CONSTANTS a, b, f1, f2, f3

Open == [parses |-> TRUE, mode |-> "", deny |-> {}, limited |-> FALSE, allow |-> {},
         privileged |-> FALSE, remote |-> FALSE, plugins |-> TRUE,
         sensitive |-> FALSE, maxExec |-> 0]

MCDocument == {Open, [Open EXCEPT !.mode = "readonly", !.plugins = FALSE],
               [Open EXCEPT !.parses = FALSE]}

MCRequest ==
  [tool : {"job_list", "fs_write", "policy_reload", "plugins_reload", "echo"},
   privileged : {FALSE}, seconds : {0}, method : {""}, reasoned : {TRUE}]
  \cup
  [tool : {"job_list"},
   privileged : {FALSE}, seconds : {0}, method : {""}, reasoned : {FALSE}]

MCFiles == <<f1, f2, f3>>

MCNameOf == f1 :> "echo" @@ f2 :> "echo" @@ f3 :> "job_list"
=============================================================================
