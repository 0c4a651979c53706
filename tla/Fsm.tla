-------------------------------- MODULE Fsm --------------------------------
(***************************************************************************)
(* The statuses of a virtual server and the transition table that guards   *)
(* the start, stop and terminate requests (internal/util/util.go), with    *)
(* the status each request of the API asks for (internal/api/              *)
(* api_handler.go, internal/services/server.go).  There is no state here.  *)
(*                                                                         *)
(* In this module and in the ones built on it an operator X_Something is a *)
(* plausible mistake in X, written next to it: nothing uses it, it is      *)
(* there to put in the place of X and to see which property notices.       *)
(***************************************************************************)

\* The values the status column takes.
Status == {"provisioning", "running", "stopped", "terminated"}

\* A server that has not been terminated.
Live == {"provisioning", "running", "stopped"}

\* The transitions IsValidTransition allows, as pairs <<current, desired>>.
Transitions ==
  { <<"provisioning", "running">>, <<"provisioning", "terminated">>,
    <<"running", "stopped">>, <<"running", "terminated">>,
    <<"stopped", "running">>, <<"stopped", "terminated">> }

IsValidTransition_AnyStop(current, desired) ==
  <<current, desired>> \in Transitions \cup {<<"provisioning", "stopped">>}

IsValidTransition(current, desired) == <<current, desired>> \in Transitions

\* The actions of POST /servers/{serverID}/action.
Ops == {"start", "stop", "reboot", "terminate"}

Target_Reprovisions(op) ==
  CASE op = "stop"      -> "stopped"
    [] op = "terminate" -> "terminated"
    [] op = "reboot"    -> "provisioning"
    [] OTHER            -> "running"

\* The status an action writes.
Target(op) ==
  CASE op = "stop"      -> "stopped"
    [] op = "terminate" -> "terminated"
    [] OTHER            -> "running"

Accepts_AnyReboot(op, status) ==
  IF op = "reboot" THEN status \in Status
                   ELSE IsValidTransition(status, Target(op))

(***************************************************************************)
(* The check each handler makes on the row it has read.  A reboot is not   *)
(* checked against the table: it is refused only in the terminated state,  *)
(* so it also starts a stopped or a provisioning server.                   *)
(***************************************************************************)
Accepts(op, status) ==
  IF op = "reboot" THEN status \in Live
                   ELSE IsValidTransition(status, Target(op))
=============================================================================
