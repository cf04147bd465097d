-------------------------- MODULE MCSessionBridge ---------------------------
(***************************************************************************)
(* SessionBridge with three logins, so that a bridge can meet a socket that *)
(* was left behind and one that is served, a root broker that is started   *)
(* again, and calls one after the other.  Calls change nothing that other  *)
(* calls look at, so that one caller shows what several would.             *)
(***************************************************************************)
EXTENDS SessionBridge
=============================================================================
