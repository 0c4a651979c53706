---------------------------- MODULE BillingAudit ----------------------------
(***************************************************************************)
(* The system with a meter: a history variable counts how long each server *)
(* has really been running.  The program does not see it.                  *)
(***************************************************************************)
EXTENDS System

VARIABLE ran   \* how long each server has been in the running state

auditVars == <<vars, ran>>

AuditInit == Init /\ ran = [s \in Servers |-> 0]

\* The meter of a running server moves with the clock.
Metered ==
  ran' = [s \in Servers |->
            IF servers[s].status = "running" THEN ran[s] + (now' - now) ELSE ran[s]]

AuditNext == Next /\ Metered

AuditSpec == AuditInit /\ [][AuditNext]_auditVars

\* "server_uptime_seconds: the cumulative uptime in seconds for each server":
\* no server is charged for more time than it has been running.  (Every pass
\* of the daemon adds the whole time since last_status_update again, and the
\* UPDATE of the uptime does not move that column.)
NotOvercharged == \A s \in Servers : servers[s].uptime <= ran[s]
=============================================================================
