--------------------------- MODULE SystemInvariant ---------------------------
(***************************************************************************)
(* The inductive invariant of the system, on which SystemProofs rests.     *)
(* Most of it says what a handler or the daemon may still rely on of the   *)
(* row it read some statements ago.                                        *)
(***************************************************************************)
EXTENDS SystemRefinement

\* A row that does not exist, or whose server has not been started.
NeverStarted(s) == servers[s].status \in {"absent", "provisioning"}

\* No time stamp lies in the future, neither in a row nor in the daemon's list.
TimesPast ==
  \A s \in Servers : servers[s].lastStatusUpdate <= now /\ daemon.list[s].since <= now

\* A request that acts on a row acts on one that exists.
ActsOnRow ==
  \A r \in Slots : req[r].pc \in ActionPc \cup {"lockSave", "save", "provLog"} =>
    req[r].id \in Servers /\ servers[req[r].id].status # "absent"

\* A request that has inserted its row and not yet saved its address.
Saving(r) == req[r].pc \in {"lockSave", "save"}

\* Its row shows the address it selected, and no address belongs to
\* the row yet; what other requests do with the pool cannot change that.
SavingOwnsNothing ==
  \A r \in Slots : Saving(r) =>
    /\ servers[req[r].id].address = req[r].ip
    /\ \A a \in Addrs : ips[a].server # req[r].id

\* Two such requests never work on the same row.
SavingApart ==
  \A r, q \in Slots : Saving(r) /\ Saving(q) /\ r # q => req[r].id # req[q].id

\* A stop that was accepted is about a server that has been started, and it
\* stays one.
StopsStarted ==
  \A r \in Slots : At(r, "update") /\ req[r].op = "stop" => ~NeverStarted(req[r].id)

\* So are the servers on the daemon's list.
BillsStarted == \A s \in daemon.left : ~NeverStarted(s)

\* The sum the daemon is going to write for a server is never below the uptime
\* the row holds, however long ago the row was listed.
BillsForward ==
  \A s \in daemon.left :
    servers[s].uptime <= daemon.list[s].uptime + (now - daemon.list[s].since)

IInv ==
  /\ TypeOK
  /\ TimesPast
  /\ PoolConsistent
  /\ ActsOnRow
  /\ SavingOwnsNothing
  /\ SavingApart
  /\ StopsStarted
  /\ BillsStarted
  /\ UnstartedNotBilled
  /\ BillsForward

----------------------------------------------------------------------------
(* Beside it, for the startup and for the logs. *)

\* How far a startup has come none of whose statements has failed: the servers
\* are terminated before the pool is emptied, and the addresses before the cursor
\* have been added to the pool.
StartupDone ==
  /\ flawed => faults > 0
  /\ ~flawed =>
       /\ phase \in {"truncate", "populate"} =>
            \A s \in Servers : servers[s].status \notin Live
       /\ phase = "populate" =>
            \A a \in Addrs : ips[a] = IF a \in Usable /\ a < cursor THEN FreeIp ELSE NoIp

\* No request outlives the process.
RequestsEnd == ~Running => \A r \in Slots : req[r] = Idle

\* A request that has inserted its row is the only one on that row until it has
\* written the first log entry.
Provisioning(r) == req[r].pc \in {"lockSave", "save", "provLog"}

ProvisioningApart ==
  \A r, q \in Slots : Provisioning(r) /\ Provisioning(q) /\ r # q => req[r].id # req[q].id

\* The two entries that nobody enforces the limit after, while they are still to
\* come: the first one, and the one of a restart, which comes at most once,
\* since after it no request works on the server.
FirstEntry(s) == IF \E r \in Slots : Provisioning(r) /\ req[r].id = s THEN 1 ELSE 0

ResetEntry(s) == IF servers[s].status = "terminated" /\ Working(s) = {} THEN 0 ELSE 1

\* How many enforcements the ends of the process may have prevented; a shutdown
\* was counted when its signal came.
Ends == IF phase = "draining" THEN crashes - 1 ELSE crashes

EntriesCounted ==
  /\ phase = "draining" => crashes > 0
  /\ \A s \in Servers :
       servers[s].logs + FirstEntry(s) + ResetEntry(s)
         <= LogLimit + Cardinality(LimitPending(s)) + faults + Ends * Cardinality(Slots) + 2

LogInv == RequestsEnd /\ ProvisioningApart /\ EntriesCounted

----------------------------------------------------------------------------
(* What holds beside it when one client waits for each of its answers and  *)
(* no server runs for half an hour.                                        *)

OneClient == \E r \in Slots : Slots = {r}

\* The reaper has nothing to do.  The clock ticks and the daemon bills.
ReaperRests == daemon.pc # "reap"

\* The status that the next UPDATE overwrites is the one that was checked.
CheckHolds ==
  \A r \in Slots :
    /\ At(r, "update") \/ (req[r].pc \in {"append", "enforce"} /\ req[r].op = "reboot")
         => Accepts(req[r].op, servers[req[r].id].status)
    /\ req[r].pc \in {"getIP", "dealloc"} => req[r].op = "terminate"

\* Every live server but one that is being provisioned owns its address, every
\* owner but one that is being terminated is live, and the address a request
\* has selected is free until it is saved.
Leases(r) ==
  /\ \A s \in Servers : servers[s].status \in Live /\ ~(Saving(r) /\ req[r].id = s)
                          => ips[servers[s].address].server = s
  /\ \A a \in Addrs : ips[a].server # NoServer =>
       \/ servers[ips[a].server].status \in Live
       \/ req[r].pc \in {"getIP", "dealloc"} /\ req[r].id = ips[a].server
  /\ req[r].pc = "create" \/ Saving(r) => req[r].ip \in FreeIPs
  /\ Saving(r) => servers[req[r].id].status \in Live
  /\ req[r].pc \in {"getIP", "dealloc"} => servers[req[r].id].status \notin Live
  /\ req[r].pc = "dealloc" => ips[req[r].ip].server = req[r].id

LeaseInv == faults = 0 /\ Running => \A r \in Slots : Leases(r)

OneClientInv == CheckHolds /\ LeaseInv
=============================================================================
