----------------------------- MODULE MCBackends -----------------------------
(***************************************************************************)
(* The two backends that tools share: the helper process of the desktop    *)
(* tools and the bridge to the browser.  They have nothing to do with each *)
(* other, so that a behaviour of both is seen by looking at each: a scene, *)
(* chosen in the beginning, is one of them, with two callers at once.      *)
(***************************************************************************)
EXTENDS StdioHelper, BrowserBridge

CONSTANTS x0, v1   \* one display and one version, to begin with: all are alike

VARIABLE scene

Init ==
  /\ scene \in {"helper", "browser"}
  /\ HelperInit /\ BrowserInit
  /\ desktop.display = x0 /\ version = v1

Next ==
  /\ UNCHANGED scene
  /\ \/ scene = "helper" /\ HelperNext /\ UNCHANGED browserVars
     \/ scene = "browser" /\ BrowserNext /\ UNCHANGED helperVars

Spec ==
  /\ Init /\ [][Next]_<<scene, helperVars, browserVars>>
  /\ HelperFairness /\ BrowserFairness
=============================================================================
