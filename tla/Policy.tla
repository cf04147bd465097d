------------------------------- MODULE Policy -------------------------------
(***************************************************************************)
(* The decision of internal/policy/policy.go as operators: what a policy   *)
(* document becomes when it is loaded, and which tool calls a loaded       *)
(* configuration refuses.  The tool catalogue of internal/tools is here    *)
(* too, with the tools each file annotates as read-only (readOnlyHint).    *)
(*                                                                         *)
(* Name patterns are represented by the set of tools they match, and a     *)
(* call by the arguments the policy looks at.  Only tools of the catalogue *)
(* are taken to have one of the prefixes fs_, state_ and target_.  The     *)
(* anyapp_ tools, which are registered under the names that a helper gives *)
(* them, are not in it: to the policy they are like those of a plugin.     *)
(***************************************************************************)
EXTENDS Integers

-----------------------------------------------------------------------------
(* The catalogue                                                           *)

FsTool == {"fs_list", "fs_read", "fs_search", "fs_stat",
           "fs_write", "fs_move", "fs_remove", "fs_patch"}

StateTool == {"state_get", "state_list", "state_put", "state_delete"}

TargetTool == {"target_list", "target_get", "target_probe", "target_upsert",
               "target_remove", "target_exec", "target_copy"}

JobTool == {"job_list", "job_get", "job_tail", "job_signal", "job_prune"}

ProcessTool == {"process_exec", "process_spawn", "process_inspect", "process_signal"}

SystemTool == {"system_info", "system_env", "service_control", "network_request",
               "network_tcp", "network_resolve", "capabilities_list", "plugins_reload"}

GovernanceTool == {"audit_tail", "audit_prune", "policy_get", "policy_reload"}

SessionTool == {"machine_restart", "machine_poweroff", "session_logout",
                "tty_control", "display_outputs", "display_output_control"}

DesktopTool == {"desktop_capture", "desktop_input"}

BrowserTool == {"browser_use"}

AndroidTool == {"android_api_list", "android_api_call"}

AssistantTool == {"assistant_device_status", "assistant_listen", "assistant_speak",
  "assistant_notify", "assistant_location", "assistant_clipboard_get",
  "assistant_clipboard_set", "assistant_vibrate", "assistant_torch",
  "assistant_sms_send", "assistant_phone_call", "assistant_camera_photo",
  "assistant_microphone_record", "assistant_contacts", "assistant_sms_list",
  "assistant_call_log"}

CoreTool == UNION {FsTool, StateTool, TargetTool, JobTool, ProcessTool, SystemTool,
  GovernanceTool, SessionTool, DesktopTool, BrowserTool, AndroidTool, AssistantTool}

\* What each file annotates: map[string]any{"readOnlyHint": true}.
FsHint == {"fs_read", "fs_search", "fs_stat"}
StateHint == {"state_get", "state_list"}
TargetHint == {"target_list", "target_get", "target_probe"}
JobHint == {"job_list", "job_get", "job_tail"}
ProcessHint == {"process_inspect"}
SystemHint == {"system_info", "system_env", "network_tcp", "network_resolve", "capabilities_list"}
GovernanceHint == {"audit_tail", "policy_get"}
SessionHint == {"display_outputs"}
DesktopHint == {"desktop_capture"}   \* although it writes the file that it captures to
AndroidHint == {"android_api_list"}
AssistantHint == {"assistant_device_status", "assistant_location", "assistant_clipboard_get",
  "assistant_contacts", "assistant_sms_list", "assistant_call_log"}

ReadOnlyHint == UNION {FsHint, StateHint, TargetHint, JobHint, ProcessHint, SystemHint,
  GovernanceHint, SessionHint, DesktopHint, AndroidHint, AssistantHint}

-----------------------------------------------------------------------------
(* The classes of tools; a tool nobody lists, such as a plugin, mutates    *)

\* The tools that isMutation lists by name.
ReadingTool == {"system_info", "system_env", "network_request", "network_tcp",
  "network_resolve", "capabilities_list", "process_inspect", "job_list", "job_get",
  "job_tail", "desktop_capture", "audit_tail", "policy_get", "target_list",
  "target_get", "target_probe", "assistant_device_status", "assistant_location",
  "assistant_clipboard_get", "assistant_contacts", "assistant_sms_list",
  "assistant_call_log"}

\* Mutants: reloading the policy, and everything on the desktop, is no mutation.
IsMutationButReload(tool) ==
  IF tool \in FsTool THEN tool \notin {"fs_list", "fs_read", "fs_search", "fs_stat"}
  ELSE IF tool \in StateTool THEN tool \notin {"state_get", "state_list"}
  ELSE tool \notin ReadingTool \cup {"policy_reload"}

IsMutationButDesktop(tool) ==
  IF tool \in FsTool THEN tool \notin {"fs_list", "fs_read", "fs_search", "fs_stat"}
  ELSE IF tool \in StateTool THEN tool \notin {"state_get", "state_list"}
  ELSE tool \notin ReadingTool \cup DesktopTool

IsMutation(tool) ==
  IF tool \in FsTool THEN tool \notin {"fs_list", "fs_read", "fs_search", "fs_stat"}
  ELSE IF tool \in StateTool THEN tool \notin {"state_get", "state_list"}
  ELSE tool \notin ReadingTool

IsHighImpact(tool) ==
  tool \in {"fs_remove", "process_signal", "job_signal", "service_control",
    "target_remove", "target_exec", "target_copy", "desktop_input",
    "plugins_reload", "android_api_call"}

IsSensitiveAndroid(tool) ==
  tool \in {"assistant_sms_send", "assistant_phone_call", "assistant_camera_photo",
    "assistant_microphone_record", "assistant_contacts", "assistant_sms_list",
    "assistant_call_log"}

ReadMethods == {"GET", "HEAD", "OPTIONS"}

\* The method that network_request sends: GET if the call gives none.
Performed(method) == IF method = "" THEN "GET" ELSE method

-----------------------------------------------------------------------------
(* Loading a document, and deciding on a call                              *)

Modes == {"full", "safe", "readonly"}

DefaultMaxExec == 3600

\* Reload refuses a document it cannot parse, or whose mode it does not know.
Loadable(doc) == doc.parses /\ doc.mode \in Modes \cup {""}

\* A mode or a limit that the document does not give gets its default; a
\* permission that it does not give is FALSE, whatever Default says.
Loaded(doc) ==
  [doc EXCEPT !.mode    = IF @ = "" THEN "full" ELSE @,
              !.maxExec = IF @ <= 0 THEN DefaultMaxExec ELSE @]

\* Mutant: the deny list is looked at only when there is no allow list.
AllowListFirst(cfg, call) ==
  IF cfg.limited THEN call.tool \notin cfg.allow ELSE call.tool \in cfg.deny

\* limited: there is an allow list, and only its tools pass.
ListsRefuse(cfg, call) ==
  \/ call.tool \in cfg.deny
  \/ cfg.limited /\ call.tool \notin cfg.allow

\* Engine.BeforeCall.
Refused(cfg, call) ==
  \/ ListsRefuse(cfg, call)
  \/ cfg.mode = "readonly" /\ IsMutation(call.tool)
  \/ cfg.mode = "safe" /\ IsHighImpact(call.tool)
  \/ IsSensitiveAndroid(call.tool) /\ ~ cfg.sensitive
  \/ call.privileged /\ ~ cfg.privileged
  \/ call.seconds > cfg.maxExec
  \/ cfg.mode = "readonly" /\ call.tool = "network_request"
     /\ call.method \notin ReadMethods \cup {""}
  \/ call.tool \in TargetTool \ {"target_list", "target_get", "target_probe"} /\ ~ cfg.remote
=============================================================================
