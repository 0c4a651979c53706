---------------------------- MODULE LifecycleLog ----------------------------
(***************************************************************************)
(* What GET /servers/{serverID}/logs returns: the entries of lifecycle_logs*)
(* in the order of the array, where System keeps only their number.  An    *)
(* entry is represented by its age, the number of entries written for the  *)
(* same server after it.  The two variables follow the statements of       *)
(* System: a log that becomes longer has been written to by the statement  *)
(* of the request or of the startup that makes this step, one that becomes *)
(* shorter has been cut.                                                   *)
(***************************************************************************)
EXTENDS SystemRefinement, Sequences

VARIABLES
  log,      \* the array of each server, as the ages of its entries
  newest    \* what the entry written last tells: an operation, or "reset"

logVars == <<vars, log, newest>>

LogInit ==
  /\ Init
  /\ log = [s \in Servers |-> <<>>]
  /\ newest = [s \in Servers |-> "none"]

\* The entries that are there when another one is written.
Older(l) == [k \in DOMAIN l |-> l[k] + 1]

\* AppendServerLifecycleLog: jsonb_build_array($1) || lifecycle_logs.
Prepended(l) == <<0>> \o Older(l)

\* TerminateAllServers: lifecycle_logs || jsonb_build_object(...).
Appended(l) == Older(l) \o <<0>>

Kept_Oldest(l) == SubSeq(l, Len(l) - LogKeep + 1, Len(l))

\* EnforceLifecycleLogsLimit: the path $[0 to 14] of the array.
Kept(l) == SubSeq(l, 1, LogKeep)

\* The requests whose entry this step has written.
Writers(s) ==
  {r \in Slots : req[r].pc \in {"append", "provLog"} /\ req[r].id = s /\ req'[r] # req[r]}

\* What the entry written by this step tells.
Recorded(s) ==
  IF Writers(s) = {} THEN "reset" ELSE req[CHOOSE r \in Writers(s) : TRUE].op

LogFollows ==
  /\ log' = [s \in Servers |->
       CASE servers'[s].logs > servers[s].logs ->
              IF Writers(s) = {} THEN Appended(log[s]) ELSE Prepended(log[s])
         [] servers'[s].logs < servers[s].logs -> Kept(log[s])
         [] OTHER -> log[s]]
  /\ newest' = [s \in Servers |->
       IF servers'[s].logs > servers[s].logs THEN Recorded(s) ELSE newest[s]]

LogNext == Next /\ LogFollows

LogSpec == LogInit /\ [][LogNext]_logVars

----------------------------------------------------------------------------
\* A log with n entries, newest first and without a gap.
NewestFirst(n) == [k \in 1 .. n |-> k - 1]

\* The log is a window on the most recent events: whatever is cut and wherever
\* the program dies, no entry is missing between two that are kept, the newest
\* is kept, and they are in order, except that the entry of a restart stands at
\* the end, where the next cut would lose it: it never comes, because nobody
\* writes to the log of a server the restart has terminated.
LogIsRecent ==
  \A s \in Servers :
    \/ log[s] = NewestFirst(Len(log[s]))
    \/ /\ newest[s] = "reset"
       /\ servers[s].status = "terminated"
       /\ log[s] = Appended(NewestFirst(Len(log[s]) - 1))

\* With a single handler at a time, as long as nothing is reaped and no
\* statement has failed, whenever nothing is in flight the entry written last
\* tells the status of every server that is not terminated, although status and
\* log are written by separate statements, for a reboot in the opposite order.
LogTellsStatus ==
  faults = 0 /\ Quiet =>
    \A s \in Servers :
      servers[s].status \in Live =>
        servers[s].status = IF newest[s] = "provision" THEN "provisioning"
                                                       ELSE Target(newest[s])
=============================================================================
