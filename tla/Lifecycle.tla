----------------------------- MODULE Lifecycle -----------------------------
(***************************************************************************)
(* What the API promises of a server's status: it is provisioned once, and *)
(* then moves as its state machine says (POST /servers/:id/action          *)
(* "enforces valid state machine (FSM) transitions", README.md).  A reboot *)
(* of a running server is a stutter here, a reboot of another one a start. *)
(* Abstract specification; SystemRefinement says when the program meets it.*)
(***************************************************************************)
EXTENDS Fsm

CONSTANT Ids      \* servers a behaviour may have

VARIABLE status   \* status of every server, "absent" before it exists

Init == status = [i \in Ids |-> "absent"]

Provision(i) ==
  /\ status[i] = "absent"
  /\ status' = [status EXCEPT ![i] = "provisioning"]

Start(i) ==
  /\ status[i] \in {"provisioning", "stopped"}
  /\ status' = [status EXCEPT ![i] = "running"]

Stop(i) ==
  /\ status[i] = "running"
  /\ status' = [status EXCEPT ![i] = "stopped"]

Terminate(i) ==
  /\ status[i] \in Live
  /\ status' = [status EXCEPT ![i] = "terminated"]

\* A restart of the program terminates every server.
Reset ==
  status' = [i \in Ids |-> IF status[i] \in Live THEN "terminated" ELSE status[i]]

Next ==
  \/ \E i \in Ids : Provision(i) \/ Start(i) \/ Stop(i) \/ Terminate(i)
  \/ Reset

Spec == Init /\ [][Next]_status
=============================================================================
