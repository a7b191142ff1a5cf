---------------------------- MODULE LibraryCalls ----------------------------
(***************************************************************************)
(* How the native library is to be used (app.c): it is started once, tells *)
(* how that ended, and is then paused, resumed and, once, ended.  A pause  *)
(* and a resume act on threads that only a connection starts, and nothing  *)
(* of them is left after the end.  ToolLifecycle takes its calls in this   *)
(* order; DroneService is shown to make them so.                           *)
(***************************************************************************)

VARIABLES library,      \* what the library is doing
          broadcast     \* the outcome of the start that the application has not received yet

callVars == <<library, broadcast>>

Init == library = "off" /\ broadcast = "none"

Connect == library = "off" /\ library' = "connecting" /\ UNCHANGED broadcast

\* The start ends; the application is told, and takes notice later.
Outcome == \/ library = "connecting" /\ library' = "running" /\ broadcast' = "connected"
           \/ library = "connecting" /\ library' = "exited" /\ broadcast' = "failed"
Notice == broadcast # "none" /\ broadcast' = "none" /\ UNCHANGED library

\* The application knows of the connection, and has not ended it.
InUse == library \in {"running", "paused"} /\ broadcast = "none"

Pause == InUse /\ library' = "paused" /\ UNCHANGED broadcast
Resume == InUse /\ library' = "running" /\ UNCHANGED broadcast
Exit == InUse /\ library' = "exited" /\ UNCHANGED broadcast

Next == Connect \/ Outcome \/ Notice \/ Pause \/ Resume \/ Exit

Spec == Init /\ [][Next]_callVars
=============================================================================
