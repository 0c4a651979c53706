---------------------------- MODULE SystemProofs ----------------------------
(***************************************************************************)
(* Proofs about the whole system, for every number of handlers, servers    *)
(* and addresses and without the bounds TLC needs.  The argument:          *)
(*                                                                         *)
(*   - each SQL statement evolves the rows in a way RowsEvolve sums up     *)
(*     (an existing row stays and keeps its address, a started server is   *)
(*     not "provisioning" again, ...), and a request that moves on keeps   *)
(*     what RequestsOK says if a few conditions on its next statement hold *)
(*     (RequestMoves);                                                     *)
(*   - so every action preserves IInv (one lemma per action, then NextInv),*)
(*     and the theorems follow from the invariant and from RowsEvolve.     *)
(***************************************************************************)
EXTENDS SystemInvariant, TLAPS

\* What the assumptions say of the sets of ids and addresses.
LEMMA StoreConstants ==
  /\ NoServer \in Servers \cup {NoServer}
  /\ NoServer \notin Servers
  /\ 0 \in Addrs
  /\ Servers \subseteq Int
  /\ Addrs \subseteq Nat
BY StoreAssumption DEF Servers, NoServer, Addrs

\* Each statement on the table servers leaves a table behind.
LEMMA ServerStatements ==
  ASSUME servers \in [Servers -> ServerRow], now \in Nat, NEW s \in Servers
  PROVE  /\ \A a \in Addrs : CreateNewServer(s, a) \in [Servers -> ServerRow]
         /\ \A st \in Status : UpdateServerStatus(s, st) \in [Servers -> ServerRow]
         /\ \A u \in Nat : UpdateServerUptime(s, u) \in [Servers -> ServerRow]
         /\ AppendServerLifecycleLog(s) \in [Servers -> ServerRow]
         /\ EnforceLifecycleLogsLimit(s) \in [Servers -> ServerRow]
<1>1. \A a \in Addrs : CreateNewServer(s, a) \in [Servers -> ServerRow]
  BY DEF CreateNewServer, Inserted, ServerRow, Status
<1>2. \A st \in Status : UpdateServerStatus(s, st) \in [Servers -> ServerRow]
  BY DEF UpdateServerStatus, ServerRow
<1>3. \A u \in Nat : UpdateServerUptime(s, u) \in [Servers -> ServerRow]
  BY DEF UpdateServerUptime, ServerRow
<1>4. AppendServerLifecycleLog(s) \in [Servers -> ServerRow]
  BY DEF AppendServerLifecycleLog, ServerRow
<1>5. EnforceLifecycleLogsLimit(s) \in [Servers -> ServerRow]
  BY StoreAssumption DEF EnforceLifecycleLogsLimit, ServerRow
<1> QED
  BY <1>1, <1>2, <1>3, <1>4, <1>5

\* So does the UPDATE of all rows at startup.
LEMMA ResetStatement ==
  ASSUME servers \in [Servers -> ServerRow], now \in Nat
  PROVE  TerminateAllServers \in [Servers -> ServerRow]
<1>1. SUFFICES ASSUME NEW t \in Servers
               PROVE  TerminateAllServers[t] \in ServerRow
  BY DEF TerminateAllServers
<1>2. /\ servers[t] \in ServerRow
      /\ servers[t].logs + 1 \in Nat
  BY DEF ServerRow
<1>3. CASE servers[t].status \in Live
  BY <1>2, <1>3 DEF TerminateAllServers, ServerRow, Status
<1>4. CASE servers[t].status \notin Live
  BY <1>2, <1>4 DEF TerminateAllServers
<1> QED
  BY <1>3, <1>4

\* Each statement on the table ip_addresses leaves a table behind.
LEMMA IpStatements ==
  ASSUME ips \in [Addrs -> IpRow], NEW a
  PROVE  /\ \A s \in Servers \cup {NoServer} : AllocateIPAddress(a, s) \in [Addrs -> IpRow]
         /\ DeallocateIPAddress(a) \in [Addrs -> IpRow]
         /\ CreateIPAddress(a) \in [Addrs -> IpRow]
         /\ TruncateIPAddresses \in [Addrs -> IpRow]
BY DEF AllocateIPAddress, DeallocateIPAddress, CreateIPAddress, TruncateIPAddresses,
       IpRow, FreeIp, NoIp

----------------------------------------------------------------------------
(* What a step may do to the rows, whoever makes it. *)

RowsEvolve ==
  /\ servers' \in [Servers -> ServerRow]
  /\ \A s \in Servers :
       /\ servers[s].status # "absent" =>
            servers'[s].status # "absent" /\ servers'[s].address = servers[s].address
       /\ ~NeverStarted(s) => ~NeverStarted(s)'
       /\ NeverStarted(s) => servers'[s].status # "stopped"
       /\ servers'[s].lastStatusUpdate <= now

UptimeKept == \A s \in Servers : servers'[s].uptime = servers[s].uptime

\* Statements of requests and of the startup.
LEMMA RowsUnchanged ==
  ASSUME IInv, servers' = servers
  PROVE  RowsEvolve /\ UptimeKept
BY DEF IInv, TypeOK, TimesPast, RowsEvolve, UptimeKept, NeverStarted

LEMMA CreateEvolves ==
  ASSUME IInv, NEW s \in Servers, NEW a \in Addrs, NextId(s), servers' = CreateNewServer(s, a)
  PROVE  RowsEvolve /\ UptimeKept
<1>1. servers' \in [Servers -> ServerRow]
  BY ServerStatements DEF IInv, TypeOK
<1>2. UptimeKept
  BY DEF IInv, TypeOK, UnstartedNotBilled, NextId, CreateNewServer, Inserted, UptimeKept
<1> QED
  BY <1>1, <1>2 DEF IInv, TypeOK, TimesPast, NextId, CreateNewServer, Inserted,
                    RowsEvolve, NeverStarted

LEMMA StatusEvolves ==
  ASSUME IInv, NEW s \in Servers, NEW st \in {"running", "stopped", "terminated"},
         st = "stopped" => ~NeverStarted(s),
         servers' = UpdateServerStatus(s, st)
  PROVE  RowsEvolve /\ UptimeKept
<1>1. servers' \in [Servers -> ServerRow]
  BY ServerStatements DEF IInv, TypeOK, Status
<1>2. \A t \in Servers :
        /\ servers'[t].address = servers[t].address
        /\ servers'[t].uptime = servers[t].uptime
        /\ servers'[t].status = IF t = s THEN st ELSE servers[t].status
        /\ servers'[t].lastStatusUpdate = IF t = s THEN now ELSE servers[t].lastStatusUpdate
  BY DEF IInv, TypeOK, UpdateServerStatus, ServerRow
<1>3. UptimeKept
  BY <1>2 DEF UptimeKept
<1> QED
  BY <1>1, <1>2, <1>3 DEF IInv, TypeOK, TimesPast, RowsEvolve, NeverStarted

LEMMA LogsEvolve ==
  ASSUME IInv, NEW s \in Servers,
         servers' \in {servers, AppendServerLifecycleLog(s), EnforceLifecycleLogsLimit(s)}
  PROVE  RowsEvolve /\ UptimeKept
<1>1. servers' \in [Servers -> ServerRow]
  BY ServerStatements DEF IInv, TypeOK
<1>2. \A t \in Servers :
        /\ servers'[t].address = servers[t].address
        /\ servers'[t].uptime = servers[t].uptime
        /\ servers'[t].status = servers[t].status
        /\ servers'[t].lastStatusUpdate = servers[t].lastStatusUpdate
  BY DEF IInv, TypeOK, AppendServerLifecycleLog, EnforceLifecycleLogsLimit, ServerRow
<1>3. UptimeKept
  BY <1>2 DEF UptimeKept
<1> QED
  BY <1>1, <1>2, <1>3 DEF IInv, TypeOK, TimesPast, RowsEvolve, NeverStarted

LEMMA ResetEvolves ==
  ASSUME IInv, servers' = TerminateAllServers
  PROVE  RowsEvolve /\ UptimeKept
<1>1. servers' \in [Servers -> ServerRow]
  BY ResetStatement DEF IInv, TypeOK
<1>2. \A t \in Servers :
        /\ servers'[t].address = servers[t].address
        /\ servers'[t].uptime = servers[t].uptime
        /\ servers'[t].status = IF servers[t].status \in Live THEN "terminated"
                                                              ELSE servers[t].status
        /\ servers'[t].lastStatusUpdate \in {now, servers[t].lastStatusUpdate}
  BY DEF IInv, TypeOK, TerminateAllServers, ServerRow
<1>3. UptimeKept
  BY <1>2 DEF UptimeKept
<1> QED
  BY <1>1, <1>2, <1>3 DEF IInv, TypeOK, TimesPast, RowsEvolve, NeverStarted, Live

\* The daemon's statement on the uptime.
LEMMA UptimeEvolves ==
  ASSUME IInv, NEW s \in Servers, NEW u \in Nat, servers' = UpdateServerUptime(s, u)
  PROVE  RowsEvolve
<1>1. servers' \in [Servers -> ServerRow]
  BY ServerStatements DEF IInv, TypeOK
<1>2. \A t \in Servers :
        /\ servers'[t].address = servers[t].address
        /\ servers'[t].status = servers[t].status
        /\ servers'[t].lastStatusUpdate = servers[t].lastStatusUpdate
  BY DEF IInv, TypeOK, UpdateServerUptime, ServerRow
<1> QED
  BY <1>1, <1>2 DEF IInv, TypeOK, TimesPast, RowsEvolve, NeverStarted

\* What such a step leaves of the invariant: all that neither the requests nor
\* the pool enter into.
LEMMA RowsInvariant ==
  ASSUME IInv, RowsEvolve, UptimeKept, now' = now,
         \/ daemon' = NoPass
         \/ /\ daemon' \in Daemon
            /\ daemon'.left \subseteq daemon.left
            /\ daemon'.list = daemon.list
  PROVE  /\ TimesPast'
         /\ BillsStarted'
         /\ UnstartedNotBilled'
         /\ BillsForward'
<1>1. /\ daemon' \in Daemon
      /\ daemon'.left \subseteq daemon.left
      /\ \A s \in Servers : daemon'.list[s].since \in {0, daemon.list[s].since}
      /\ \A s \in daemon'.left : daemon'.list[s] = daemon.list[s]
  BY DEF IInv, TypeOK, NoPass, NotListed, Daemon, Listed
<1>2. TimesPast'
  BY <1>1 DEF IInv, TypeOK, TimesPast, RowsEvolve
<1>3. BillsStarted'
  BY <1>1 DEF IInv, TypeOK, Daemon, BillsStarted, RowsEvolve
<1>4. UnstartedNotBilled'
  BY DEF IInv, UnstartedNotBilled, NeverStarted, RowsEvolve, UptimeKept
<1>5. BillsForward'
  BY <1>1 DEF IInv, TypeOK, Daemon, BillsForward, UptimeKept
<1> QED
  BY <1>2, <1>3, <1>4, <1>5

\* The pool is consistent as long as no address is given away.
LEMMA PoolUntouched ==
  ASSUME IInv, RowsEvolve,
         \A a \in Addrs : \/ ips'[a] = ips[a]
                          \/ ips'[a] \in {NoIp, FreeIp}
  PROVE  PoolConsistent'
<1>1. SUFFICES ASSUME NEW a \in Addrs
               PROVE  /\ ips'[a].state = "allocated" <=> ips'[a].server # NoServer
                      /\ ips'[a].server # NoServer =>
                           /\ servers'[ips'[a].server].status # "absent"
                           /\ servers'[ips'[a].server].address = a
  BY DEF PoolConsistent
<1>2. CASE ips'[a] \in {NoIp, FreeIp}
  BY <1>2 DEF NoIp, FreeIp
<1>3. CASE ips'[a] = ips[a]
  <2>1. ips[a].server \in Servers \cup {NoServer}
    BY DEF IInv, TypeOK, IpRow
  <2> QED
    BY <1>3, <2>1 DEF IInv, PoolConsistent, RowsEvolve
<1> QED
  BY <1>2, <1>3

----------------------------------------------------------------------------
(* What a step may do to the requests. *)

RequestsOK ==
  /\ req \in [Slots -> Request]
  /\ ActsOnRow
  /\ SavingOwnsNothing
  /\ SavingApart
  /\ StopsStarted

ActingPc == ActionPc \cup {"lockSave", "save", "provLog"}

\* Requests see their rows evolve, and addresses given to nobody else.
LEMMA RequestsStay ==
  ASSUME IInv, RowsEvolve, req' = req,
         \A a \in Addrs : ips'[a].server \in {ips[a].server, NoServer}
  PROVE  RequestsOK'
<1>1. ActsOnRow'
  BY DEF IInv, ActsOnRow, RowsEvolve
<1>2. SavingOwnsNothing'
  BY StoreConstants DEF IInv, ActsOnRow, SavingOwnsNothing, Saving, RowsEvolve
<1>3. SavingApart'
  BY DEF IInv, SavingApart, Saving
<1>4. StopsStarted'
  BY DEF IInv, ActsOnRow, ActionPc, StopsStarted, At, RowsEvolve, NeverStarted
<1> QED
  BY <1>1, <1>2, <1>3, <1>4 DEF RequestsOK, IInv, TypeOK

\* A request moves on.  Only the one at "save" may give an address away, and
\* only to its own row.
LEMMA RequestMoves ==
  ASSUME IInv, RowsEvolve, NEW r \in Slots, NEW v \in Request,
         req' = [req EXCEPT ![r] = v],
         \A a \in Addrs : \/ ips'[a].server \in {ips[a].server, NoServer}
                          \/ At(r, "save") /\ ips'[a].server = req[r].id,
         v.pc \in ActingPc => v.id \in Servers /\ servers'[v.id].status # "absent",
         v.pc \in {"lockSave", "save"} =>
           /\ servers'[v.id].address = v.ip
           /\ \A a \in Addrs : ips'[a].server # v.id
           /\ \A q \in Slots \ {r} : Saving(q) => req[q].id # v.id,
         v.pc = "update" /\ v.op = "stop" =>
           servers'[v.id].status \notin {"absent", "provisioning"}
  PROVE  RequestsOK'
<1>1. req' \in [Slots -> Request] /\ req'[r] = v /\ \A q \in Slots \ {r} : req'[q] = req[q]
  BY DEF IInv, TypeOK
<1>2. ActsOnRow'
  BY <1>1 DEF IInv, ActsOnRow, ActingPc, RowsEvolve
<1>3. SavingOwnsNothing'
  <2>1. SUFFICES ASSUME NEW q \in Slots \ {r}, Saving(q)
                 PROVE  /\ servers'[req[q].id].address = req[q].ip
                        /\ \A a \in Addrs : ips'[a].server # req[q].id
    BY <1>1 DEF SavingOwnsNothing, Saving
  <2>2. /\ req[q].id \in Servers
        /\ servers[req[q].id].status # "absent"
        /\ servers[req[q].id].address = req[q].ip
        /\ \A a \in Addrs : ips[a].server # req[q].id
    BY <2>1 DEF IInv, ActsOnRow, SavingOwnsNothing, Saving
  <2>3. At(r, "save") => req[r].id # req[q].id
    BY <2>1 DEF IInv, SavingApart, Saving, At
  <2> QED
    BY <2>2, <2>3, StoreConstants DEF RowsEvolve
<1>4. SavingApart'
  BY <1>1 DEF IInv, SavingApart, Saving
<1>5. StopsStarted'
  BY <1>1 DEF IInv, ActsOnRow, ActionPc, StopsStarted, At, RowsEvolve, NeverStarted
<1> QED
  BY <1>1, <1>2, <1>3, <1>4, <1>5 DEF RequestsOK

\* In particular, it goes on to its next statement.
LEMMA RequestGoesOn ==
  ASSUME IInv, RowsEvolve, NEW r \in Slots, NEW pc \in Pc, Goto(r, pc),
         \A a \in Addrs : \/ ips'[a].server \in {ips[a].server, NoServer}
                          \/ At(r, "save") /\ ips'[a].server = req[r].id,
         pc \in ActingPc => req[r].pc \in ActingPc,
         pc = "save" => At(r, "lockSave"),
         pc # "lockSave",
         pc = "update" => req[r].op # "stop"
  PROVE  RequestsOK'
<1>1. req[r] \in Request
  BY DEF IInv, TypeOK
<1>2. PICK v \in Request :
        /\ req' = [req EXCEPT ![r] = v]
        /\ v.pc = pc
        /\ pc # "idle" => v.op = req[r].op /\ v.id = req[r].id /\ v.ip = req[r].ip
  <2>1. CASE pc = "idle"
    <3>1. Idle \in Request
      BY StoreConstants DEF Request, Idle, Pc
    <3> QED
      BY <2>1, <3>1 DEF Goto, Idle
  <2>2. CASE pc # "idle"
    <3>1. /\ [req[r] EXCEPT !.pc = pc] \in Request
          /\ req' = [req EXCEPT ![r] = [req[r] EXCEPT !.pc = pc]]
      BY <1>1, <2>2 DEF Goto, Request, IInv, TypeOK
    <3> QED
      BY <1>1, <2>2, <3>1 DEF Request
  <2> QED
    BY <2>1, <2>2
<1>3. v.pc \in ActingPc => v.id \in Servers /\ servers'[v.id].status # "absent"
  BY <1>2 DEF IInv, ActsOnRow, ActingPc, ActionPc, RowsEvolve
<1>4. v.pc \in {"lockSave", "save"} =>
         /\ servers'[v.id].address = v.ip
         /\ \A a \in Addrs : ips'[a].server # v.id
         /\ \A q \in Slots \ {r} : Saving(q) => req[q].id # v.id
  <2>1. SUFFICES ASSUME v.pc = "save"
                 PROVE  /\ servers'[req[r].id].address = req[r].ip
                        /\ \A a \in Addrs : ips'[a].server # req[r].id
                        /\ \A q \in Slots \ {r} : Saving(q) => req[q].id # req[r].id
    BY <1>2
  <2>2. At(r, "lockSave")
    BY <1>2, <2>1
  <2>3. /\ req[r].id \in Servers
        /\ servers[req[r].id].status # "absent"
        /\ servers[req[r].id].address = req[r].ip
        /\ \A a \in Addrs : ips[a].server # req[r].id
    BY <2>2 DEF IInv, ActsOnRow, SavingOwnsNothing, Saving, At
  <2>4. \A q \in Slots \ {r} : Saving(q) => req[q].id # req[r].id
    BY <2>2 DEF IInv, SavingApart, Saving, At
  <2> QED
    BY <2>2, <2>3, <2>4, StoreConstants DEF At, RowsEvolve
<1>5. v.pc = "update" /\ v.op = "stop" =>
           servers'[v.id].status \notin {"absent", "provisioning"}
  BY <1>2
<1> QED
  BY <1>2, <1>3, <1>4, <1>5, RequestMoves

----------------------------------------------------------------------------
(* The steps of the handlers. *)

\* The parts put together, for a step of a request.
LEMMA HandlerParts ==
  ASSUME IInv, RowsEvolve, UptimeKept, PoolConsistent', RequestsOK',
         ips' \in [Addrs -> IpRow],
         ipMutex' \in Slots \cup {Nobody},
         faults' = faults \/ Fault,
         now' = now,
         UNCHANGED <<daemonVars, startupVars, crashes>>
  PROVE  IInv'
<1>1. TimesPast' /\ BillsStarted' /\ UnstartedNotBilled' /\ BillsForward'
  BY RowsInvariant DEF daemonVars, IInv, TypeOK
<1>2. TypeOK'
  BY DEF IInv, TypeOK, RowsEvolve, RequestsOK, Fault, daemonVars, startupVars
<1> QED
  BY <1>1, <1>2 DEF IInv, RequestsOK

\* A step that leaves the pool alone and sends the request to pc.
LEMMA HandlerGoesOn ==
  ASSUME IInv, RowsEvolve, UptimeKept, NEW r \in Slots, NEW pc \in Pc, Goto(r, pc),
         pc \in ActingPc => req[r].pc \in ActingPc,
         pc = "save" => At(r, "lockSave"),
         pc # "lockSave",
         pc = "update" => req[r].op # "stop",
         ips' = ips,
         ipMutex' \in Slots \cup {Nobody},
         faults' = faults \/ Fault,
         now' = now,
         UNCHANGED <<daemonVars, startupVars, crashes>>
  PROVE  IInv'
<1>1. PoolConsistent'
  BY PoolUntouched
<1>2. RequestsOK'
  BY RequestGoesOn
<1> QED
  BY <1>1, <1>2, HandlerParts DEF IInv, TypeOK

LEMMA LockSelectInv ==
  ASSUME IInv, NEW r \in Slots, LockSelect(r), UNCHANGED <<daemonVars, startupVars, crashes>>
  PROVE  IInv' /\ RowsEvolve /\ UptimeKept
<1>1. RowsEvolve /\ UptimeKept
  BY RowsUnchanged DEF LockSelect, storeVars
<1> QED
  BY <1>1, HandlerGoesOn DEF LockSelect, storeVars, Pc, ProvisionPc, ActionPc, ActingPc

LEMMA LockSaveInv ==
  ASSUME IInv, NEW r \in Slots, LockSave(r), UNCHANGED <<daemonVars, startupVars, crashes>>
  PROVE  IInv' /\ RowsEvolve /\ UptimeKept
<1>1. RowsEvolve /\ UptimeKept
  BY RowsUnchanged DEF LockSave, storeVars
<1> QED
  BY <1>1, HandlerGoesOn DEF LockSave, storeVars, At, Pc, ProvisionPc, ActionPc, ActingPc

LEMMA ProvisionLogInv ==
  ASSUME IInv, NEW r \in Slots, ProvisionLog(r), UNCHANGED <<daemonVars, startupVars, crashes>>
  PROVE  IInv' /\ RowsEvolve /\ UptimeKept
<1>1. RowsEvolve /\ UptimeKept
  BY LogsEvolve DEF ProvisionLog, At, IInv, ActsOnRow
<1> QED
  BY <1>1, HandlerGoesOn
     DEF ProvisionLog, Ok, Fails, IInv, TypeOK, Pc, ProvisionPc, ActionPc, ActingPc

LEMMA UpdateStatusInv ==
  ASSUME IInv, NEW r \in Slots, UpdateStatus(r), UNCHANGED <<daemonVars, startupVars, crashes>>
  PROVE  IInv' /\ RowsEvolve /\ UptimeKept
<1>1. RowsEvolve /\ UptimeKept
  <2>1. /\ req[r].id \in Servers
        /\ req[r].op = "stop" => ~NeverStarted(req[r].id)
    BY DEF UpdateStatus, At, ActionPc, IInv, ActsOnRow, StopsStarted
  <2>2. PICK st \in {"running", "stopped", "terminated"} :
          st = Target(req[r].op) /\ (st = "stopped" => req[r].op = "stop")
    BY DEF Target
  <2>3. servers' = servers \/ servers' = UpdateServerStatus(req[r].id, st)
    BY <2>2 DEF UpdateStatus
  <2>4. CASE servers' = servers
    BY <2>4, RowsUnchanged
  <2>5. CASE servers' = UpdateServerStatus(req[r].id, st)
    BY <2>1, <2>2, <2>5, StatusEvolves
  <2> QED
    BY <2>3, <2>4, <2>5
<1>2. PICK pc \in {"getIP", "append", "idle"} : Goto(r, pc)
  BY DEF UpdateStatus, Ok, Fails, AfterUpdate
<1> QED
  BY <1>1, <1>2, HandlerGoesOn
     DEF UpdateStatus, At, Ok, Fails, IInv, TypeOK, Pc, ProvisionPc, ActionPc, ActingPc

\* AppendLog and EnforceLimit go on to a statement after the log; only a reboot
\* goes on to the update.
LEMMA AppendLogInv ==
  ASSUME IInv, NEW r \in Slots, AppendLog(r), UNCHANGED <<daemonVars, startupVars, crashes>>
  PROVE  IInv' /\ RowsEvolve /\ UptimeKept
<1>1. RowsEvolve /\ UptimeKept
  BY LogsEvolve DEF AppendLog, At, IInv, ActsOnRow, ActionPc
<1>2. PICK pc \in {"enforce", "refetch", "update", "idle"} :
        Goto(r, pc) /\ (pc = "update" => req[r].op # "stop")
  BY DEF AppendLog, Ok, Fails, AfterLog
<1> QED
  BY <1>1, <1>2, HandlerGoesOn
     DEF AppendLog, At, Ok, Fails, IInv, TypeOK, Pc, ProvisionPc, ActionPc, ActingPc

LEMMA EnforceLimitInv ==
  ASSUME IInv, NEW r \in Slots, EnforceLimit(r), UNCHANGED <<daemonVars, startupVars, crashes>>
  PROVE  IInv' /\ RowsEvolve /\ UptimeKept
<1>1. RowsEvolve /\ UptimeKept
  BY LogsEvolve DEF EnforceLimit, At, IInv, ActsOnRow, ActionPc
<1>2. PICK pc \in {"refetch", "update", "idle"} :
        Goto(r, pc) /\ (pc = "update" => req[r].op # "stop")
  BY DEF EnforceLimit, Ok, Fails, AfterLog
<1> QED
  BY <1>1, <1>2, HandlerGoesOn
     DEF EnforceLimit, At, Ok, Fails, IInv, TypeOK, Pc, ProvisionPc, ActionPc, ActingPc

LEMMA RefetchInv ==
  ASSUME IInv, NEW r \in Slots, Refetch(r), UNCHANGED <<daemonVars, startupVars, crashes>>
  PROVE  IInv' /\ RowsEvolve /\ UptimeKept
<1>1. RowsEvolve /\ UptimeKept
  BY RowsUnchanged DEF Refetch
<1> QED
  BY <1>1, HandlerGoesOn
     DEF Refetch, Ok, Fails, IInv, TypeOK, Pc, ProvisionPc, ActionPc, ActingPc

LEMMA SelectIPInv ==
  ASSUME IInv, NEW r \in Slots, SelectIP(r), UNCHANGED <<daemonVars, startupVars, crashes>>
  PROVE  IInv' /\ RowsEvolve /\ UptimeKept
<1>1. RowsEvolve /\ UptimeKept
  BY RowsUnchanged DEF SelectIP
<1>2. CASE Goto(r, "idle")
  BY <1>1, <1>2, HandlerGoesOn
     DEF SelectIP, Ok, Fails, Pc, ProvisionPc, ActionPc, ActingPc
<1>3. ASSUME NEW a \in Addrs, req' = [req EXCEPT ![r].pc = "create", ![r].ip = a], faults' = faults
      PROVE  IInv'
  <2>1. PICK v \in Request : req' = [req EXCEPT ![r] = v] /\ v.pc = "create"
    <3>1. req[r] \in Request
      BY DEF IInv, TypeOK
    <3>2. /\ [req[r] EXCEPT !.pc = "create", !.ip = a] \in Request
          /\ req' = [req EXCEPT ![r] = [req[r] EXCEPT !.pc = "create", !.ip = a]]
      BY <1>3, <3>1 DEF Request, Pc, ProvisionPc, IInv, TypeOK
    <3> QED
      BY <3>1, <3>2 DEF Request
  <2>2. RequestsOK'
    BY <1>1, <2>1, RequestMoves DEF SelectIP, ActingPc, ActionPc
  <2>3. PoolConsistent'
    BY <1>1, PoolUntouched DEF SelectIP
  <2> QED
    BY <1>1, <1>3, <2>2, <2>3, HandlerParts DEF SelectIP, IInv, TypeOK
<1> QED
  BY <1>1, <1>2, <1>3 DEF SelectIP, Ok, Fails

LEMMA CreateServerInv ==
  ASSUME IInv, NEW r \in Slots, CreateServer(r), UNCHANGED <<daemonVars, startupVars, crashes>>
  PROVE  IInv' /\ RowsEvolve /\ UptimeKept
<1>1. PICK s \in Servers :
        /\ NextId(s)
        /\ \/ /\ servers' = CreateNewServer(s, req[r].ip)
              /\ req' = [req EXCEPT ![r].pc = "lockSave", ![r].id = s]
              /\ UNCHANGED faults
           \/ /\ servers' \in {servers, CreateNewServer(s, req[r].ip)}
              /\ Fails(r, "idle")
  BY DEF CreateServer
<1>2. req[r] \in Request /\ req[r].ip \in Addrs
  BY DEF IInv, TypeOK, Request
<1>3. RowsEvolve /\ UptimeKept
  <2>1. CASE servers' = servers
    BY <2>1, RowsUnchanged
  <2>2. CASE servers' = CreateNewServer(s, req[r].ip)
    BY <1>1, <1>2, <2>2, CreateEvolves
  <2> QED
    BY <1>1, <2>1, <2>2
<1>4. CASE Fails(r, "idle")
  BY <1>3, <1>4, HandlerGoesOn
     DEF CreateServer, Fails, IInv, TypeOK, Pc, ProvisionPc, ActionPc, ActingPc
<1>5. CASE /\ servers' = CreateNewServer(s, req[r].ip)
           /\ req' = [req EXCEPT ![r].pc = "lockSave", ![r].id = s]
           /\ UNCHANGED faults
  <2>1. PICK v \in Request :
          req' = [req EXCEPT ![r] = v] /\ v.pc = "lockSave" /\ v.id = s /\ v.ip = req[r].ip
    <3>1. /\ [req[r] EXCEPT !.pc = "lockSave", !.id = s] \in Request
          /\ req' = [req EXCEPT ![r] = [req[r] EXCEPT !.pc = "lockSave", !.id = s]]
      BY <1>2, <1>5 DEF Request, Pc, ProvisionPc, IInv, TypeOK
    <3> QED
      BY <1>2, <3>1 DEF Request
  <2>2. servers[s].status = "absent"
    BY <1>1 DEF NextId
  <2>3. servers'[s].status = "provisioning" /\ servers'[s].address = req[r].ip
    BY <1>5 DEF CreateNewServer, Inserted, IInv, TypeOK
  <2>4. \A a \in Addrs : ips'[a].server # s
    BY <2>2, StoreConstants DEF CreateServer, IInv, PoolConsistent
  <2>5. \A q \in Slots : Saving(q) => req[q].id # s
    BY <2>2 DEF IInv, ActsOnRow, Saving
  <2>6. RequestsOK'
    BY <1>3, <2>1, <2>3, <2>4, <2>5, RequestMoves DEF CreateServer
  <2>7. PoolConsistent'
    BY <1>3, PoolUntouched DEF CreateServer
  <2> QED
    BY <1>3, <1>5, <2>6, <2>7, HandlerParts DEF CreateServer, IInv, TypeOK
<1> QED
  BY <1>1, <1>3, <1>4, <1>5

\* The only step that gives an address away.
LEMMA SaveAllocatedIPInv ==
  ASSUME IInv, NEW r \in Slots, SaveAllocatedIP(r), UNCHANGED <<daemonVars, startupVars, crashes>>
  PROVE  IInv' /\ RowsEvolve /\ UptimeKept
<1>1. RowsEvolve /\ UptimeKept
  BY RowsUnchanged DEF SaveAllocatedIP
<1>2. /\ req[r].id \in Servers
      /\ req[r].ip \in Addrs
      /\ servers[req[r].id].status # "absent"
      /\ servers[req[r].id].address = req[r].ip
  BY DEF SaveAllocatedIP, At, Saving, IInv, TypeOK, Request, ActsOnRow, SavingOwnsNothing
<1>3. \/ ips' = ips
      \/ /\ req[r].ip \in FreeIPs
         /\ ips' = [ips EXCEPT ![req[r].ip] = [state |-> "allocated", server |-> req[r].id]]
  BY DEF SaveAllocatedIP, AllocateIPAddress
<1>4. ips' \in [Addrs -> IpRow]
  BY <1>2, <1>3 DEF IInv, TypeOK, IpRow
<1>5. PoolConsistent'
  <2>1. CASE ips' = ips
    BY <1>1, <2>1, PoolUntouched
  <2>2. CASE ips' = [ips EXCEPT ![req[r].ip] = [state |-> "allocated", server |-> req[r].id]]
    BY <1>2, <2>2, StoreConstants DEF SaveAllocatedIP, IInv, TypeOK, PoolConsistent
  <2> QED
    BY <1>3, <2>1, <2>2
<1>6. \A a \in Addrs : \/ ips'[a].server \in {ips[a].server, NoServer}
                       \/ At(r, "save") /\ ips'[a].server = req[r].id
  BY <1>2, <1>3 DEF SaveAllocatedIP, IInv, TypeOK
<1>7. RequestsOK'
  BY <1>1, <1>6, RequestGoesOn
     DEF SaveAllocatedIP, At, Ok, Fails, Pc, ProvisionPc, ActingPc
<1> QED
  BY <1>1, <1>4, <1>5, <1>7, HandlerParts DEF SaveAllocatedIP, Ok, Fails

LEMMA GetIPInv ==
  ASSUME IInv, NEW r \in Slots, GetIP(r), UNCHANGED <<daemonVars, startupVars, crashes>>
  PROVE  IInv' /\ RowsEvolve /\ UptimeKept
<1>1. RowsEvolve /\ UptimeKept
  BY RowsUnchanged DEF GetIP
<1>2. CASE Goto(r, "idle")
  BY <1>1, <1>2, HandlerGoesOn
     DEF GetIP, Ok, Fails, IInv, TypeOK, Pc, ProvisionPc, ActionPc, ActingPc
<1>3. ASSUME NEW a \in Addrs, req' = [req EXCEPT ![r].pc = "dealloc", ![r].ip = a], faults' = faults
      PROVE  IInv'
  <2>1. req[r] \in Request /\ req[r].id \in Servers /\ servers[req[r].id].status # "absent"
    BY DEF GetIP, At, ActionPc, IInv, TypeOK, ActsOnRow
  <2>2. PICK v \in Request : req' = [req EXCEPT ![r] = v] /\ v.pc = "dealloc" /\ v.id = req[r].id
    <3>1. /\ [req[r] EXCEPT !.pc = "dealloc", !.ip = a] \in Request
          /\ req' = [req EXCEPT ![r] = [req[r] EXCEPT !.pc = "dealloc", !.ip = a]]
      BY <1>3, <2>1 DEF Request, Pc, ActionPc, IInv, TypeOK
    <3> QED
      BY <2>1, <3>1 DEF Request
  <2>3. RequestsOK'
    BY <1>1, <2>1, <2>2, RequestMoves DEF GetIP, RowsEvolve
  <2>4. PoolConsistent'
    BY <1>1, PoolUntouched DEF GetIP
  <2> QED
    BY <1>1, <1>3, <2>3, <2>4, HandlerParts DEF GetIP, IInv, TypeOK
<1> QED
  BY <1>1, <1>2, <1>3 DEF GetIP, GetIPAddressByServerID, Ok, Fails

LEMMA DeallocateInv ==
  ASSUME IInv, NEW r \in Slots, Deallocate(r), UNCHANGED <<daemonVars, startupVars, crashes>>
  PROVE  IInv' /\ RowsEvolve /\ UptimeKept
<1>1. RowsEvolve /\ UptimeKept
  BY RowsUnchanged DEF Deallocate
<1>2. /\ ips' \in [Addrs -> IpRow]
      /\ \A a \in Addrs : ips'[a] = ips[a] \/ ips'[a] = FreeIp
  BY IpStatements DEF Deallocate, DeallocateIPAddress, IInv, TypeOK
<1>3. PoolConsistent'
  BY <1>1, <1>2, PoolUntouched
<1>4. PICK pc \in {"append", "idle"} : Goto(r, pc)
  BY DEF Deallocate, Ok, Fails
<1>5. RequestsOK'
  BY <1>1, <1>2, <1>4, RequestGoesOn
     DEF Deallocate, At, FreeIp, Pc, ActionPc, ActingPc
<1> QED
  BY <1>1, <1>2, <1>3, <1>5, HandlerParts DEF Deallocate, Ok, Fails, IInv, TypeOK

LEMMA ArrivalInv ==
  ASSUME IInv, NEW r \in Slots, Arrival(r), UNCHANGED <<daemonVars, startupVars, crashes>>
  PROVE  IInv' /\ RowsEvolve /\ UptimeKept
<1>1. UNCHANGED <<storeVars, ipMutex>>
  BY DEF Arrival, ProvisionRequest, ActionRequest, RejectedRequest, serviceVars
<1>2. RowsEvolve /\ UptimeKept
  BY <1>1, RowsUnchanged DEF storeVars
<1>3. RequestsOK'
  <2>1. CASE ProvisionRequest(r)
    <3>1. PICK v \in Request : req' = [req EXCEPT ![r] = v] /\ v.pc = "lockSelect"
      <4>1. [pc |-> "lockSelect", op |-> "provision", id |-> NoServer, ip |-> 0] \in Request
        BY StoreConstants DEF Request, Pc, ProvisionPc
      <4> QED
        BY <2>1, <4>1 DEF ProvisionRequest
    <3> QED
      BY <1>1, <1>2, <3>1, RequestMoves DEF storeVars, ActingPc, ActionPc
  <2>2. ASSUME NEW op \in Ops, NEW s \in Servers, ActionRequest(r, op, s)
        PROVE  RequestsOK'
    <3>1. /\ servers[s].status \in Live
          /\ op = "stop" => servers[s].status = "running"
      BY <2>2 DEF ActionRequest, Accepts, IsValidTransition, Transitions, Target, Live
    <3>2. PICK v \in Request : /\ req' = [req EXCEPT ![r] = v]
                               /\ v.pc \in {"append", "update"} /\ v.id = s /\ v.op = op
      <4>1. [pc |-> FirstPc(op), op |-> op, id |-> s, ip |-> 0] \in Request
        BY StoreConstants DEF FirstPc, Request, Pc, ActionPc
      <4> QED
        BY <2>2, <4>1 DEF ActionRequest, FirstPc
    <3>3. v.op = "stop" => servers[s].status = "running"
      BY <3>1, <3>2
    <3>4. v.pc \notin {"lockSave", "save"} /\ servers[s].status # "absent"
      BY <3>1, <3>2 DEF Live
    <3> QED
      BY <1>1, <1>2, <3>2, <3>3, <3>4, RequestMoves DEF storeVars
  <2>3. CASE req' = req
    BY <1>1, <1>2, <2>3, RequestsStay DEF storeVars
  <2> QED
    BY <2>1, <2>2, <2>3 DEF Arrival, RejectedRequest, serviceVars
<1>4. PoolConsistent'
  BY <1>1, <1>2, PoolUntouched DEF storeVars
<1> QED
  BY <1>1, <1>2, <1>3, <1>4, HandlerParts DEF storeVars, IInv, TypeOK

----------------------------------------------------------------------------
(* The steps of the daemon, of main and of the clock, and crashes. *)

\* Uptimes only grow.
UptimeGrows == \A s \in Servers : servers'[s].uptime >= servers[s].uptime

LEMMA KeptGrows ==
  ASSUME IInv, UptimeKept
  PROVE  UptimeGrows
BY DEF IInv, TypeOK, ServerRow, UptimeKept, UptimeGrows

\* The parts put together, for a step of the daemon.
LEMMA DaemonParts ==
  ASSUME IInv, RowsEvolve,
         TimesPast', BillsStarted', UnstartedNotBilled', BillsForward',
         daemon' \in Daemon,
         ticker' \in Ticker,
         faults' = faults \/ Fault,
         UNCHANGED <<ips, now, serviceVars, startupVars, crashes>>
  PROVE  IInv'
<1>1. PoolConsistent'
  BY PoolUntouched
<1>2. RequestsOK'
  BY RequestsStay DEF serviceVars
<1>3. TypeOK'
  BY DEF IInv, TypeOK, RowsEvolve, Fault, serviceVars, startupVars
<1> QED
  BY <1>1, <1>2, <1>3 DEF IInv, RequestsOK

LEMMA NoPassType == NoPass \in Daemon
BY DEF NoPass, NotListed, Daemon, Listed

LEMMA StartPassInv ==
  ASSUME IInv, StartPass, UNCHANGED <<serviceVars, startupVars, crashes>>
  PROVE  IInv' /\ RowsEvolve /\ UptimeGrows
<1>1. RowsEvolve /\ UptimeKept
  BY RowsUnchanged DEF StartPass, storeVars
<1>2. /\ daemon' \in Daemon
      /\ daemon'.left = daemon.left
      /\ daemon'.list = daemon.list
  BY DEF StartPass, IInv, TypeOK, Daemon
<1>3. ticker' \in Ticker
  BY DEF StartPass, IInv, TypeOK, Ticker
<1>4. TimesPast' /\ BillsStarted' /\ UnstartedNotBilled' /\ BillsForward'
  BY <1>1, <1>2, RowsInvariant DEF StartPass, storeVars
<1> QED
  BY <1>1, <1>2, <1>3, <1>4, DaemonParts, KeptGrows DEF StartPass, storeVars

\* What the daemon lists is what the rows hold.
LEMMA ListRunningInv ==
  ASSUME IInv, ListRunning, UNCHANGED <<serviceVars, startupVars, crashes>>
  PROVE  IInv' /\ RowsEvolve /\ UptimeGrows
<1> DEFINE running == ListServers("running")
<1> DEFINE list == [s \in Servers |-> IF s \in running THEN Row(s) ELSE NotListed]
<1>1. RowsEvolve /\ UptimeKept
  BY RowsUnchanged DEF ListRunning
<1>2. CASE daemon' = NoPass
  <2>1. TimesPast' /\ BillsStarted' /\ UnstartedNotBilled' /\ BillsForward'
    BY <1>1, <1>2, RowsInvariant DEF ListRunning
  <2> QED
    BY <1>1, <1>2, <2>1, DaemonParts, NoPassType, KeptGrows DEF ListRunning, IInv, TypeOK
<1>3. ASSUME daemon' = [pc |-> "bill", left |-> running, list |-> list], faults' = faults
      PROVE  IInv' /\ RowsEvolve /\ UptimeGrows
  <2>1. /\ running \subseteq Servers
        /\ \A s \in running : servers[s].status = "running"
    BY DEF ListServers
  <2>2. /\ list \in [Servers -> Listed]
        /\ \A s \in Servers : list[s].since <= now
        /\ \A s \in running : /\ list[s].since = servers[s].lastStatusUpdate
                               /\ list[s].uptime = servers[s].uptime
    BY <2>1 DEF Row, NotListed, Listed, IInv, TypeOK, ServerRow, TimesPast
  <2>3. daemon' \in Daemon /\ daemon'.left = running /\ daemon'.list = list
    BY <1>3, <2>1, <2>2 DEF Daemon
  <2> HIDE DEF running, list
  <2>4. TimesPast'
    BY <2>2, <2>3 DEF ListRunning, IInv, TimesPast
  <2>5. BillsStarted'
    BY <2>1, <2>3 DEF ListRunning, BillsStarted, NeverStarted
  <2>6. UnstartedNotBilled'
    BY DEF ListRunning, IInv, UnstartedNotBilled
  <2>7. BillsForward'
    BY <2>1, <2>2, <2>3 DEF ListRunning, IInv, TypeOK, ServerRow, TimesPast, BillsForward
  <2> QED
    BY <1>1, <1>3, <2>3, <2>4, <2>5, <2>6, <2>7, DaemonParts, KeptGrows
       DEF ListRunning, IInv, TypeOK
<1> QED
  BY <1>2, <1>3 DEF ListRunning

\* A pass that goes on with some of the servers left.
LEMMA ContinueShrinks ==
  ASSUME daemon \in Daemon, NEW left \in SUBSET daemon.left, Continue(left)
  PROVE  /\ daemon' \in Daemon
         /\ \/ daemon' = NoPass
            \/ daemon'.left \subseteq daemon.left /\ daemon'.list = daemon.list
BY NoPassType DEF Continue, Daemon

\* The sum that is written is at least the uptime the row holds.
LEMMA BillServerInv ==
  ASSUME IInv, BillServer, UNCHANGED <<serviceVars, startupVars, crashes>>
  PROVE  IInv' /\ RowsEvolve /\ UptimeGrows
<1>1. PICK s \in Servers :
        /\ s \in daemon.left
        /\ servers' = servers \/ servers' = UpdateServerUptime(s, NewUptime(s))
        /\ faults' = faults \/ Fault
        /\ daemon' = [daemon EXCEPT !.pc = "reap"] \/ Continue(Rest(s))
  BY DEF BillServer, Current
<1>2. PICK u \in Nat : u = NewUptime(s) /\ servers[s].uptime <= u
  <2>1. /\ daemon.list[s].uptime \in Nat
        /\ daemon.list[s].since \in Nat
        /\ servers[s].uptime \in Nat
    BY DEF IInv, TypeOK, Daemon, Listed, ServerRow
  <2> QED
    BY <1>1, <2>1 DEF NewUptime, IInv, TypeOK, TimesPast, BillsForward
<1>3. RowsEvolve
  <2>1. CASE servers' = servers
    BY <2>1, RowsUnchanged
  <2>2. CASE servers' = UpdateServerUptime(s, NewUptime(s))
    BY <1>2, <2>2, UptimeEvolves
  <2> QED
    BY <1>1, <2>1, <2>2
<1>4. \A t \in Servers : \/ servers'[t].uptime = servers[t].uptime
                         \/ t = s /\ servers'[t].uptime = u
  BY <1>1, <1>2 DEF UpdateServerUptime, IInv, TypeOK, ServerRow
<1>5. UptimeGrows
  BY <1>2, <1>4 DEF UptimeGrows, IInv, TypeOK, ServerRow
<1>6. /\ daemon' \in Daemon
      /\ \/ daemon' = NoPass
         \/ daemon'.left \subseteq daemon.left /\ daemon'.list = daemon.list
  <2>1. CASE daemon' = [daemon EXCEPT !.pc = "reap"]
    BY <2>1 DEF IInv, TypeOK, Daemon
  <2>2. CASE Continue(Rest(s))
    BY <2>2, ContinueShrinks DEF Rest, IInv, TypeOK
  <2> QED
    BY <1>1, <2>1, <2>2
<1>7. TimesPast'
  BY <1>3, <1>6 DEF BillServer, IInv, TypeOK, TimesPast, RowsEvolve, NoPass, NotListed
<1>8. BillsStarted'
  BY <1>3, <1>6 DEF IInv, TypeOK, Daemon, BillsStarted, RowsEvolve, NoPass
<1>9. UnstartedNotBilled'
  BY <1>1, <1>3, <1>4 DEF IInv, BillsStarted, UnstartedNotBilled, NeverStarted, RowsEvolve
<1>10. BillsForward'
  <2>1. SUFFICES ASSUME NEW t \in daemon'.left
                 PROVE  servers'[t].uptime
                          <= daemon'.list[t].uptime + (now' - daemon'.list[t].since)
    BY DEF BillsForward
  <2>2. /\ t \in daemon.left
        /\ t \in Servers
        /\ daemon'.list = daemon.list
        /\ now' = now
    BY <1>6 DEF BillServer, IInv, TypeOK, Daemon, NoPass
  <2> QED
    BY <1>2, <1>4, <2>2 DEF NewUptime, IInv, TypeOK, Daemon, Listed, BillsForward
<1> QED
  BY <1>1, <1>3, <1>5, <1>6, <1>7, <1>8, <1>9, <1>10, DaemonParts
     DEF BillServer, IInv, TypeOK

LEMMA ReapServerInv ==
  ASSUME IInv, ReapServer, UNCHANGED <<serviceVars, startupVars, crashes>>
  PROVE  IInv' /\ RowsEvolve /\ UptimeGrows
<1>1. PICK s \in Servers :
        /\ servers' = servers \/ servers' = UpdateServerStatus(s, "terminated")
        /\ faults' = faults \/ Fault
        /\ Continue(Rest(s))
  BY DEF ReapServer
<1>2. RowsEvolve /\ UptimeKept
  <2>1. CASE servers' = servers
    BY <2>1, RowsUnchanged
  <2>2. CASE servers' = UpdateServerStatus(s, "terminated")
    BY <2>2, StatusEvolves
  <2> QED
    BY <1>1, <2>1, <2>2
<1>3. /\ daemon' \in Daemon
      /\ \/ daemon' = NoPass
         \/ daemon'.left \subseteq daemon.left /\ daemon'.list = daemon.list
  BY <1>1, ContinueShrinks DEF Rest, IInv, TypeOK
<1>4. TimesPast' /\ BillsStarted' /\ UnstartedNotBilled' /\ BillsForward'
  BY <1>2, <1>3, RowsInvariant DEF ReapServer
<1> QED
  BY <1>1, <1>2, <1>3, <1>4, DaemonParts, KeptGrows DEF ReapServer, IInv, TypeOK

\* The startup frees addresses and gives none away.
LEMMA MainStepInv ==
  ASSUME IInv, MainStep
  PROVE  IInv' /\ RowsEvolve /\ UptimeGrows
<1>1. UNCHANGED <<now, daemon, serviceVars, crashes>>
  BY DEF MainStep, BootStep, Launch, Start, Connect, TerminateAll, Truncate, Populate, Serve, storeVars
<1>2. RowsEvolve /\ UptimeKept
  <2>1. servers' = servers \/ servers' = TerminateAllServers
    BY DEF MainStep, BootStep, Launch, Start, Connect, TerminateAll, Truncate, Populate, Serve, storeVars
  <2> QED
    BY <2>1, RowsUnchanged, ResetEvolves
<1>3. /\ ips' \in [Addrs -> IpRow]
      /\ \A a \in Addrs : ips'[a] = ips[a] \/ ips'[a] \in {NoIp, FreeIp}
  <2>1. \/ ips' = ips
        \/ ips' = TruncateIPAddresses
        \/ ips' = CreateIPAddress(cursor)
    BY DEF MainStep, BootStep, Launch, Start, Connect, TerminateAll, Truncate, Populate, Serve, storeVars
  <2> QED
    BY <2>1, IpStatements DEF TruncateIPAddresses, CreateIPAddress, IInv, TypeOK
<1>4. PoolConsistent'
  BY <1>2, <1>3, PoolUntouched
<1>5. RequestsOK'
  BY <1>1, <1>2, <1>3, RequestsStay DEF serviceVars, NoIp, FreeIp
<1>6. TimesPast' /\ BillsStarted' /\ UnstartedNotBilled' /\ BillsForward'
  BY <1>1, <1>2, RowsInvariant DEF IInv, TypeOK
<1>7. phase' \in Phase /\ attempt' \in Nat /\ cursor' \in Nat
  BY DEF MainStep, BootStep, Launch, Start, Connect, TerminateAll, Truncate, Populate, NextAddr,
         Serve, Done, Flawed, SchemaMissing, Phase, IInv, TypeOK
<1>8. faults' \in Nat
  BY DEF MainStep, BootStep, Launch, Start, Connect, TerminateAll, Truncate, Populate, Serve,
         Done, Flawed, SchemaMissing, Fault, storeVars, IInv, TypeOK
<1>9. flawed' \in BOOLEAN
  <2>1. flawed' = flawed \/ flawed' = TRUE \/ flawed' = FALSE
    BY DEF MainStep, BootStep, Launch, Start, Connect, TerminateAll, Truncate, Populate, Serve,
           Done, Flawed, SchemaMissing
  <2> QED
    BY <2>1, Zenon DEF IInv, TypeOK
<1>10. ticker' \in Ticker
  BY BillingAssumption DEF MainStep, NewTicker, Ticker, IInv, TypeOK
<1>11. TypeOK'
  BY <1>1, <1>2, <1>3, <1>5, <1>7, <1>8, <1>9, <1>10
     DEF IInv, TypeOK, RowsEvolve, RequestsOK, serviceVars
<1> QED
  BY <1>2, <1>4, <1>5, <1>6, <1>11, KeptGrows DEF IInv, RequestsOK

LEMMA ClockStepInv ==
  ASSUME IInv, ClockStep
  PROVE  IInv' /\ RowsEvolve /\ UptimeGrows
<1>1. /\ now' = now + 1
      /\ UNCHANGED <<servers, ips, faults, daemon, req, ipMutex, startupVars, crashes>>
  BY DEF ClockStep, Tick, serviceVars
<1>2. RowsEvolve /\ UptimeKept
  BY <1>1, RowsUnchanged
<1>3. ticker' \in Ticker
  BY <1>1, BillingAssumption DEF ClockStep, Tick, Ticker, IInv, TypeOK
<1>4. TypeOK'
  BY <1>1, <1>3 DEF IInv, TypeOK, startupVars
<1>5. PoolConsistent'
  BY <1>1, <1>2, PoolUntouched
<1>6. RequestsOK'
  BY <1>1, <1>2, RequestsStay
<1>7. BillsStarted' /\ UnstartedNotBilled'
  BY <1>1 DEF IInv, BillsStarted, UnstartedNotBilled, NeverStarted
<1>8. TimesPast'
  BY <1>1 DEF IInv, TypeOK, ServerRow, Daemon, Listed, TimesPast
<1>9. BillsForward'
  BY <1>1 DEF IInv, TypeOK, ServerRow, Daemon, Listed, BillsForward
<1> QED
  BY <1>2, <1>4, <1>5, <1>6, <1>7, <1>8, <1>9, KeptGrows DEF IInv, RequestsOK

\* The end of the process leaves no request and no pass; nothing is asked of the
\* tables.
LEMMA EndedInv ==
  ASSUME IInv, NEW as \in Phase, Ended(as), crashes' \in Nat
  PROVE  IInv' /\ RowsEvolve /\ UptimeGrows
<1>1. RowsEvolve /\ UptimeKept
  BY RowsUnchanged DEF Ended, storeVars
<1>2. TypeOK'
  <2>1. req' \in [Slots -> Request]
    BY StoreConstants DEF Ended, Idle, Request, Pc
  <2> QED
    BY <2>1, NoPassType DEF Ended, storeVars, IInv, TypeOK
<1>3. PoolConsistent'
  BY <1>1, PoolUntouched DEF Ended, storeVars
<1>4. ActsOnRow' /\ SavingOwnsNothing' /\ SavingApart' /\ StopsStarted'
  BY DEF Ended, Idle, ActionPc, ActsOnRow, SavingOwnsNothing, SavingApart, StopsStarted, Saving, At
<1>5. TimesPast' /\ BillsStarted' /\ UnstartedNotBilled' /\ BillsForward'
  BY <1>1, <1>2, RowsInvariant DEF Ended, storeVars, TypeOK
<1> QED
  BY <1>1, <1>2, <1>3, <1>4, <1>5, KeptGrows DEF IInv

LEMMA EndInv ==
  ASSUME IInv, Crash \/ Exit \/ ShutdownTimesOut
  PROVE  IInv' /\ RowsEvolve /\ UptimeGrows
<1>1. PICK as \in Phase : Ended(as)
  BY DEF Crash, Exit, ShutdownTimesOut, Phase
<1>2. crashes' \in Nat
  BY DEF Crash, Exit, ShutdownTimesOut, IInv, TypeOK
<1> QED
  BY <1>1, <1>2, EndedInv

\* A signal only moves main to the shutdown, and whoever starts the program only
\* to the startup.
LEMMA SignalInv ==
  ASSUME IInv, Signal \/ StartedAgain
  PROVE  IInv' /\ RowsEvolve /\ UptimeGrows
<1>1. UNCHANGED <<servers, ips, now, faults, req, ipMutex, ticker, daemon, attempt, cursor, flawed>>
  BY DEF Signal, StartedAgain, StartAgain, Start, storeVars, serviceVars, daemonVars
<1>2. RowsEvolve /\ UptimeKept
  BY <1>1, RowsUnchanged
<1>3. phase' \in Phase /\ crashes' \in Nat
  BY DEF Signal, StartedAgain, StartAgain, Start, Phase, IInv, TypeOK
<1>4. TypeOK'
  BY <1>1, <1>3 DEF IInv, TypeOK
<1>5. RequestsOK'
  BY <1>1, <1>2, RequestsStay
<1>6. PoolConsistent'
  BY <1>1, <1>2, PoolUntouched
<1>7. TimesPast' /\ BillsStarted' /\ UnstartedNotBilled' /\ BillsForward'
  BY <1>1, <1>2, RowsInvariant DEF IInv, TypeOK
<1> QED
  BY <1>2, <1>4, <1>5, <1>6, <1>7, KeptGrows DEF IInv, RequestsOK

----------------------------------------------------------------------------
(* The inductive invariant. *)

LEMMA InitInv ==
  ASSUME Init
  PROVE  IInv
<1>1. TypeOK
  <2>1. flawed \in BOOLEAN
    BY Zenon DEF Init, StartupInit
  <2> QED
    BY <2>1, StoreConstants, NoPassType, BillingAssumption
       DEF Init, StoreInit, ServiceInit, DaemonInit, StartupInit, TypeOK, ServerRow, NoRow,
           IpRow, NoIp, Request, Idle, Pc, Ticker, NewTicker, Phase
<1>2. ActsOnRow /\ SavingOwnsNothing /\ SavingApart /\ StopsStarted
  BY DEF Init, ServiceInit, Idle, ActionPc, ActsOnRow, SavingOwnsNothing, SavingApart,
         StopsStarted, Saving, At
<1>3. TimesPast /\ BillsStarted /\ UnstartedNotBilled /\ BillsForward
  BY DEF Init, StoreInit, DaemonInit, NoRow, NoPass, NotListed,
         TimesPast, BillsStarted, UnstartedNotBilled, BillsForward
<1>4. PoolConsistent
  BY DEF Init, StoreInit, NoIp, PoolConsistent
<1> QED
  BY <1>1, <1>2, <1>3, <1>4 DEF IInv

\* Every step keeps the invariant, and does no more to the rows and uptimes
\* than RowsEvolve and UptimeGrows say.
LEMMA NextInv ==
  ASSUME IInv, [Next]_vars
  PROVE  IInv' /\ RowsEvolve /\ UptimeGrows
<1>1. ASSUME NEW r \in Slots, ClientStep(r)
      PROVE  IInv' /\ RowsEvolve /\ UptimeGrows
  BY <1>1, ArrivalInv, KeptGrows DEF ClientStep
<1>2. ASSUME NEW r \in Slots, HandlerStep(r)
      PROVE  IInv' /\ RowsEvolve /\ UptimeGrows
  BY <1>2, LockSelectInv, SelectIPInv, CreateServerInv, LockSaveInv, SaveAllocatedIPInv,
     ProvisionLogInv, UpdateStatusInv, GetIPInv, DeallocateInv, AppendLogInv,
     EnforceLimitInv, RefetchInv, KeptGrows DEF HandlerStep, SlotStep
<1>3. CASE DaemonStep
  BY <1>3, StartPassInv, ListRunningInv, BillServerInv, ReapServerInv
     DEF DaemonStep, DaemonNext, PassStep
<1>4. CASE MainStep
  BY <1>4, MainStepInv
<1>5. CASE ClockStep
  BY <1>5, ClockStepInv
<1>6. CASE Crash \/ Exit \/ ShutdownTimesOut
  BY <1>6, EndInv
<1>7. CASE Signal \/ StartedAgain
  BY <1>7, SignalInv
<1>8. CASE UNCHANGED vars
  <2>1. RowsEvolve /\ UptimeKept
    BY <1>8, RowsUnchanged DEF vars, storeVars
  <2>2. UNCHANGED <<servers, ips, now, faults, req, ipMutex, ticker, daemon,
                    phase, attempt, cursor, flawed, crashes>>
    BY <1>8 DEF vars, storeVars, serviceVars, daemonVars, startupVars
  <2>3. IInv'
    BY <2>2 DEF IInv, TypeOK, TimesPast, PoolConsistent, ActsOnRow, SavingOwnsNothing,
                SavingApart, StopsStarted, BillsStarted, UnstartedNotBilled, BillsForward,
                Saving, At, NeverStarted
  <2> QED
    BY <2>1, <2>3, KeptGrows
<1> QED
  BY <1>1, <1>2, <1>3, <1>4, <1>5, <1>6, <1>7, <1>8 DEF Next

\* The invariant holds in every reachable state.
THEOREM Invariant == Spec => []IInv
<1>1. IInv /\ [Next]_vars => IInv'
  BY NextInv
<1> QED
  BY InitInv, <1>1, PTL DEF Spec

----------------------------------------------------------------------------
(* The results. *)

\* Every variable keeps its type: for any number of handlers, servers and
\* addresses, and whatever fails, nothing the program computes leaves the
\* domain of its column; in particular no uptime becomes negative.
THEOREM TypeCorrect == Spec => []TypeOK
<1>1. IInv => TypeOK
  BY DEF IInv
<1> QED
  BY Invariant, <1>1, PTL

\* The two columns of the pool agree with each other and with the servers:
\* an address given away belongs to one existing server, which shows it.
THEOREM PoolSafe == Spec => []PoolConsistent
<1>1. IInv => PoolConsistent
  BY DEF IInv
<1> QED
  BY Invariant, <1>1, PTL

\* No server is charged before it has been started.
THEOREM BillingStartsLate == Spec => []UnstartedNotBilled
<1>1. IInv => UnstartedNotBilled
  BY DEF IInv
<1> QED
  BY Invariant, <1>1, PTL

\* No stale check of a request stops a server that has never been started.
THEOREM StopNeedsStart == Spec => StoppedOnlyAfterStart
<1>1. IInv /\ [Next]_vars =>
        [\A s \in Servers : servers[s].status \in {"absent", "provisioning"}
                               => servers'[s].status # "stopped"]_vars
  BY NextInv DEF RowsEvolve, NeverStarted
<1> QED
  BY Invariant, <1>1, PTL DEF Spec, StoppedOnlyAfterStart

\* The daemon never writes a smaller uptime than the row holds, and nobody
\* else writes one.
THEOREM UptimeMonotonic == Spec => UptimeNeverShrinks
<1>1. IInv /\ [Next]_vars =>
        [\A s \in Servers : servers'[s].uptime >= servers[s].uptime]_vars
  BY NextInv DEF UptimeGrows
<1> QED
  BY Invariant, <1>1, PTL DEF Spec, UptimeNeverShrinks

----------------------------------------------------------------------------
(* The table ip_addresses implements the abstract pool. *)

poolSeen == <<Owners, Releases, Running>>

\* No request outlives the process, so no release does.
LEMMA RequestsGone == Spec => []RequestsEnd
<1>1. Init => RequestsEnd
  BY DEF Init, ServiceInit, RequestsEnd
<1>2. RequestsEnd /\ [Next]_vars => RequestsEnd'
  <2> SUFFICES ASSUME RequestsEnd, [Next]_vars
               PROVE  RequestsEnd'
    OBVIOUS
  <2>1. CASE Crash \/ Exit \/ ShutdownTimesOut
    BY <2>1 DEF Crash, Exit, ShutdownTimesOut, Ended, RequestsEnd
  <2>2. CASE UNCHANGED <<req, phase>>
    BY <2>2 DEF RequestsEnd, Running
  <2>3. CASE MainStep
    BY <2>3 DEF MainStep, BootStep, Launch, Start, Connect, TerminateAll, Truncate, Populate,
                Serve, Done, Flawed, SchemaMissing, serviceVars, RequestsEnd, Running
  <2>4. CASE StartedAgain \/ Signal
    BY <2>4 DEF StartedAgain, StartAgain, Start, Signal, Serving, serviceVars, RequestsEnd, Running
  <2>5. CASE \E r \in Slots : ClientStep(r) \/ HandlerStep(r)
    BY <2>5 DEF ClientStep, HandlerStep, Serving, startupVars, RequestsEnd, Running
  <2> QED
    BY <2>1, <2>2, <2>3, <2>4, <2>5
       DEF Next, DaemonStep, ClockStep, startupVars, serviceVars, vars
<1> QED
  BY <1>1, <1>2, PTL DEF Spec

\* Who belongs to the releases.
LEMMA ReleasesAre ==
  ASSUME NEW o, NEW a
  PROVE  <<o, a>> \in Releases <=>
           \E r \in Slots : At(r, "dealloc") /\ req[r].id = o /\ req[r].ip = a
BY DEF Releases

LEMMA PoolStutter ==
  ASSUME IInv, UNCHANGED ips, UNCHANGED Running,
         \A r \in Slots : \/ req'[r] = req[r]
                          \/ ~At(r, "dealloc") /\ ~At(r, "dealloc")'
  PROVE  [Pool!Next]_poolSeen
<1>1. Owners' = Owners
  BY DEF Owners
<1>2. Releases' = Releases
  BY DEF Releases, At
<1> QED
  BY <1>1, <1>2 DEF poolSeen

\* Most statements of a request neither give an address away nor begin or end a
\* release.
LEMMA PoolApart ==
  ASSUME IInv, NEW r \in Slots,
         \/ LockSelect(r) \/ SelectIP(r) \/ CreateServer(r)
         \/ LockSave(r) \/ ProvisionLog(r) \/ UpdateStatus(r)
         \/ AppendLog(r) \/ EnforceLimit(r) \/ Refetch(r) \/ Arrival(r)
  PROVE  /\ UNCHANGED ips
         /\ \A q \in Slots : \/ req'[q] = req[q]
                             \/ ~At(q, "dealloc") /\ ~At(q, "dealloc")'
<1>1. UNCHANGED ips
  BY DEF LockSelect, SelectIP, CreateServer, LockSave, ProvisionLog, UpdateStatus, AppendLog,
         EnforceLimit, Refetch, Arrival, ProvisionRequest, ActionRequest, RejectedRequest, storeVars
<1>2. PICK v : \/ req' = [req EXCEPT ![r] = v] /\ v.pc # "dealloc" /\ ~At(r, "dealloc")
               \/ req' = req
  <2>1. ASSUME NEW pc, pc # "dealloc", Goto(r, pc), ~At(r, "dealloc")
        PROVE  \E v : req' = [req EXCEPT ![r] = v] /\ v.pc # "dealloc" /\ ~At(r, "dealloc")
    <3>1. CASE pc = "idle"
      <4>1. req' = [req EXCEPT ![r] = Idle] /\ Idle.pc # "dealloc"
        BY <2>1, <3>1 DEF Goto, Idle
      <4> QED
        BY <2>1, <4>1
    <3>2. CASE pc # "idle"
      <4>1. req' = [req EXCEPT ![r] = [req[r] EXCEPT !.pc = pc]]
        BY <2>1, <3>2 DEF Goto, IInv, TypeOK
      <4>2. [req[r] EXCEPT !.pc = pc].pc = pc
        BY DEF IInv, TypeOK, Request
      <4> QED
        BY <2>1, <4>1, <4>2
    <3> QED
      BY <3>1, <3>2
  <2>2. CASE LockSelect(r)
    BY <2>1, <2>2 DEF LockSelect, At
  <2>3. CASE SelectIP(r)
    <3>1. ASSUME NEW a, req' = [req EXCEPT ![r].pc = "create", ![r].ip = a]
          PROVE  \E v : req' = [req EXCEPT ![r] = v] /\ v.pc # "dealloc"
      <4>1. /\ req' = [req EXCEPT ![r] = [req[r] EXCEPT !.pc = "create", !.ip = a]]
            /\ [req[r] EXCEPT !.pc = "create", !.ip = a].pc = "create"
        BY <3>1 DEF IInv, TypeOK, Request
      <4> QED
        BY <4>1
    <3> QED
      BY <2>1, <2>3, <3>1 DEF SelectIP, Ok, Fails, At
  <2>4. CASE CreateServer(r)
    <3>1. ASSUME NEW s, req' = [req EXCEPT ![r].pc = "lockSave", ![r].id = s]
          PROVE  \E v : req' = [req EXCEPT ![r] = v] /\ v.pc # "dealloc"
      <4>1. /\ req' = [req EXCEPT ![r] = [req[r] EXCEPT !.pc = "lockSave", !.id = s]]
            /\ [req[r] EXCEPT !.pc = "lockSave", !.id = s].pc = "lockSave"
        BY <3>1 DEF IInv, TypeOK, Request
      <4> QED
        BY <4>1
    <3> QED
      BY <2>1, <2>4, <3>1 DEF CreateServer, Fails, At
  <2>5. CASE LockSave(r)
    BY <2>1, <2>5 DEF LockSave, At
  <2>6. CASE ProvisionLog(r) \/ Refetch(r)
    BY <2>1, <2>6 DEF ProvisionLog, Refetch, Ok, Fails, At
  <2>7. CASE UpdateStatus(r)
    BY <2>1, <2>7 DEF UpdateStatus, AfterUpdate, Ok, Fails, At
  <2>8. CASE AppendLog(r) \/ EnforceLimit(r)
    BY <2>1, <2>8 DEF AppendLog, EnforceLimit, AfterLog, Ok, Fails, At
  <2>9. CASE Arrival(r)
    BY <2>9 DEF Arrival, ProvisionRequest, ActionRequest, RejectedRequest, FirstPc, serviceVars, At
  <2> QED
    BY <2>2, <2>3, <2>4, <2>5, <2>6, <2>7, <2>8, <2>9
<1> QED
  BY <1>1, <1>2 DEF At, IInv, TypeOK

LEMMA PoolGive ==
  ASSUME IInv, NEW r \in Slots, SaveAllocatedIP(r), Running, Running'
  PROVE  [Pool!Next]_poolSeen
<1>1. ~At(r, "dealloc") /\ ~At(r, "dealloc")' /\ \A q \in Slots \ {r} : req'[q] = req[q]
  BY DEF SaveAllocatedIP, Ok, Fails, Goto, At, IInv, TypeOK, Request
<1>2. CASE ips' = ips
  BY <1>1, <1>2, PoolStutter
<1>3. CASE ips' # ips
  <2>1. /\ req[r].ip \in FreeIPs
        /\ ips' = [ips EXCEPT ![req[r].ip] = [state |-> "allocated", server |-> req[r].id]]
    BY <1>3 DEF SaveAllocatedIP, AllocateIPAddress
  <2>2. /\ req[r].id \in Servers
        /\ req[r].ip \in Addrs
        /\ \A a \in Addrs : ips[a].server # req[r].id
    BY DEF SaveAllocatedIP, At, Saving, IInv, TypeOK, Request, ActsOnRow, SavingOwnsNothing
  <2>3. PICK a \in Addrs, o \in Servers : a = req[r].ip /\ o = req[r].id
    BY <2>2
  <2>4. Owners' = [Owners EXCEPT ![a] = o]
    BY <2>1, <2>3 DEF Owners, IInv, TypeOK
  <2>5. Releases' = Releases
    BY <1>1 DEF Releases, At
  <2>6. Pool!Give(a, o)
    BY <2>1, <2>2, <2>3, <2>4, <2>5 DEF Pool!Give, Owners, FreeIPs
  <2> QED
    BY <2>6 DEF Pool!Next
<1> QED
  BY <1>2, <1>3

\* The address is looked up by its server, so a release begins with the server
\* it is taken from.
LEMMA PoolBeginRelease ==
  ASSUME IInv, NEW r \in Slots, GetIP(r), Running, Running'
  PROVE  [Pool!Next]_poolSeen
<1>1. /\ ips' = ips
      /\ ~At(r, "dealloc")
      /\ req[r].id \in Servers
  BY DEF GetIP, At, ActionPc, IInv, ActsOnRow
<1>2. CASE Goto(r, "idle")
  <2>1. ~At(r, "dealloc")' /\ \A q \in Slots \ {r} : req'[q] = req[q]
    BY <1>2 DEF Goto, Idle, At, IInv, TypeOK
  <2> QED
    BY <1>1, <2>1, PoolStutter
<1>3. ASSUME NEW a \in Addrs, ips[a].server = req[r].id,
             req' = [req EXCEPT ![r].pc = "dealloc", ![r].ip = a]
      PROVE  [Pool!Next]_poolSeen
  <2>1. /\ req'[r].pc = "dealloc" /\ req'[r].id = req[r].id /\ req'[r].ip = a
        /\ \A q \in Slots \ {r} : req'[q] = req[q]
    BY <1>3 DEF IInv, TypeOK, Request
  <2>2. PICK o \in Servers : o = req[r].id
    BY <1>1
  <2>3. Releases' = Releases \cup {<<o, a>>}
    BY <1>1, <2>1, <2>2 DEF Releases, At
  <2>4. Owners' = Owners /\ Owners[a] = o
    BY <1>1, <1>3, <2>2 DEF Owners
  <2>5. Pool!BeginRelease(a, o)
    BY <2>3, <2>4 DEF Pool!BeginRelease
  <2> QED
    BY <2>5 DEF Pool!Next
<1> QED
  BY <1>2, <1>3 DEF GetIP, GetIPAddressByServerID, Ok, Fails

LEMMA PoolEndRelease ==
  ASSUME IInv, NEW r \in Slots, Deallocate(r), Running, Running'
  PROVE  [Pool!Next]_poolSeen
<1>1. /\ At(r, "dealloc")
      /\ req[r].id \in Servers
      /\ req[r].ip \in Addrs
  BY DEF Deallocate, At, ActionPc, IInv, TypeOK, ActsOnRow, Request
<1>2. PICK a \in Addrs, o \in Servers : a = req[r].ip /\ o = req[r].id
  BY <1>1
<1>3. <<o, a>> \in Releases
  BY <1>1, <1>2, ReleasesAre
<1>4. Releases' \in {Releases, Releases \ {<<o, a>>}}
  <2>1. ~At(r, "dealloc")' /\ \A q \in Slots \ {r} : req'[q] = req[q]
    BY DEF Deallocate, Ok, Fails, Goto, Idle, At, IInv, TypeOK, Request
  <2>2. CASE \E q \in Slots \ {r} : At(q, "dealloc") /\ req[q].id = o /\ req[q].ip = a
    <3>1. Releases' = Releases
      BY <1>1, <1>2, <2>1, <2>2 DEF Releases, At
    <3> QED
      BY <3>1
  <2>3. CASE ~\E q \in Slots \ {r} : At(q, "dealloc") /\ req[q].id = o /\ req[q].ip = a
    <3>1. Releases' = Releases \ {<<o, a>>}
      BY <1>1, <1>2, <2>1, <2>3 DEF Releases, At
    <3> QED
      BY <3>1
  <2> QED
    BY <2>2, <2>3
<1>5. Owners' \in {Owners, [Owners EXCEPT ![a] = NoServer]}
  <2>1. ips' = ips \/ ips' = [ips EXCEPT ![a] = FreeIp]
    BY <1>2 DEF Deallocate, DeallocateIPAddress
  <2>2. CASE ips' = ips
    <3>1. Owners' = Owners
      BY <2>2 DEF Owners
    <3> QED
      BY <3>1
  <2>3. CASE ips' = [ips EXCEPT ![a] = FreeIp]
    <3>1. Owners' = [Owners EXCEPT ![a] = NoServer]
      BY <2>3 DEF Owners, FreeIp, IInv, TypeOK
    <3> QED
      BY <3>1
  <2> QED
    BY <2>1, <2>2, <2>3
<1>6. Pool!EndRelease(a, o)
  BY <1>3, <1>4, <1>5 DEF Pool!EndRelease
<1> QED
  BY <1>6 DEF Pool!Next

LEMMA PoolBoot ==
  ASSUME IInv, RequestsEnd, MainStep
  PROVE  [Pool!Next]_poolSeen
<1>1. /\ ~Running
      /\ Releases' = Releases
  BY DEF MainStep, BootStep, Launch, Start, Connect, TerminateAll, Truncate, Populate, Serve,
         Running, serviceVars, Releases, At
<1>2. \/ ips' = ips
      \/ ips' = TruncateIPAddresses
      \/ ips' = CreateIPAddress(cursor)
  BY DEF MainStep, BootStep, Launch, Start, Connect, TerminateAll, Truncate, Populate, Serve, storeVars
<1>3. Running' => ips' = ips
  BY DEF MainStep, BootStep, Launch, Start, Connect, TerminateAll, Truncate, Populate, Serve,
         Done, Flawed, SchemaMissing, Running, storeVars
<1>4. CASE ips' = TruncateIPAddresses /\ ~Running'
  <2>1. Owners' = [a \in Addrs |-> NoServer]
    BY <1>4 DEF Owners, TruncateIPAddresses, NoIp
  <2>2. Pool!Rebuild
    BY <1>1, <1>4, <2>1 DEF Pool!Rebuild, Running
  <2> QED
    BY <2>2 DEF Pool!Next
<1>5. CASE ips' = ips \/ ips' = CreateIPAddress(cursor)
  <2>1. \A a \in Addrs : ips'[a].server = ips[a].server
    BY <1>5, StoreConstants DEF CreateIPAddress, FreeIp, IInv, TypeOK, PoolConsistent, IpRow
  <2>2. Owners' = Owners
    BY <2>1 DEF Owners
  <2>3. CASE Running'
    BY <1>1, <2>2, <2>3 DEF Pool!Next, Pool!Open
  <2>4. CASE ~Running'
    BY <1>1, <2>2, <2>4 DEF poolSeen, Running
  <2> QED
    BY <2>3, <2>4
<1> QED
  BY <1>2, <1>3, <1>4, <1>5

LEMMA PoolClose ==
  ASSUME RequestsEnd, Crash \/ Exit \/ ShutdownTimesOut
  PROVE  [Pool!Next]_poolSeen
<1>1. /\ ips' = ips
      /\ ~Running'
      /\ \A r \in Slots : ~At(r, "dealloc")'
  BY DEF Crash, Exit, ShutdownTimesOut, Ended, Running, Idle, At, storeVars
<1>2. Owners' = Owners /\ Releases' = {}
  BY <1>1 DEF Owners, Releases, At
<1>3. CASE Running
  BY <1>1, <1>2, <1>3 DEF Pool!Next, Pool!Close
<1>4. CASE ~Running
  <2>1. Releases = {}
    BY <1>4 DEF RequestsEnd, Idle, Releases, At
  <2> QED
    BY <1>1, <1>2, <1>4, <2>1 DEF poolSeen, Running
<1> QED
  BY <1>3, <1>4

\* Whatever runs and whatever fails, an address is given only while nobody owns
\* it and only to a server that owns none; while the program serves, addresses
\* are taken back one by one, each by a release that was begun when it was its
\* server's, and all at once only while it does not serve.
THEOREM PoolRefined == Spec => PoolImplemented
<1>1. Init => Pool!Init
  <2>1. Init => Owners = [a \in Addrs |-> NoServer]
    BY DEF Init, StoreInit, NoIp, Owners
  <2>2. Init => Releases = {} /\ ~Running
    BY DEF Init, ServiceInit, StartupInit, Idle, Releases, At, Running
  <2> QED
    BY <2>1, <2>2 DEF Pool!Init
<1>2. IInv /\ RequestsEnd /\ [Next]_vars => [Pool!Next]_poolSeen
  <2> SUFFICES ASSUME IInv, RequestsEnd, [Next]_vars
               PROVE  [Pool!Next]_poolSeen
    OBVIOUS
  <2>1. CASE UNCHANGED <<ips, req>> /\ UNCHANGED Running
    BY <2>1, PoolStutter
  <2>2. ASSUME NEW r \in Slots, HandlerStep(r)
        PROVE  [Pool!Next]_poolSeen
    <3>1. Running /\ Running'
      BY <2>2 DEF HandlerStep, Running, startupVars
    <3> QED
      BY <2>2, <3>1, PoolGive, PoolBeginRelease, PoolEndRelease, PoolApart, PoolStutter
         DEF HandlerStep, SlotStep
  <2>3. ASSUME NEW r \in Slots, ClientStep(r)
        PROVE  [Pool!Next]_poolSeen
    <3>1. UNCHANGED Running
      BY <2>3 DEF ClientStep, Running, startupVars
    <3> QED
      BY <2>3, <3>1, PoolApart, PoolStutter DEF ClientStep
  <2>4. CASE MainStep
    BY <2>4, PoolBoot
  <2>5. CASE Crash \/ Exit \/ ShutdownTimesOut
    BY <2>5, PoolClose
  <2>6. CASE DaemonStep \/ ClockStep \/ Signal \/ StartedAgain \/ UNCHANGED vars
    <3>1. UNCHANGED <<ips, req>>
      BY <2>6 DEF DaemonStep, DaemonNext, PassStep, StartPass, ListRunning, BillServer, ReapServer,
                  ClockStep, Tick, Signal, StartedAgain, StartAgain, Start, vars, storeVars, serviceVars
    <3>2. UNCHANGED Running
      BY <2>6 DEF DaemonStep, ClockStep, Signal, StartedAgain, StartAgain, Start, vars, startupVars,
                  Serving, Running
    <3> QED
      BY <2>1, <3>1, <3>2
  <2> QED
    BY <2>2, <2>3, <2>4, <2>5, <2>6 DEF Next
<1> QED
  BY Invariant, RequestsGone, <1>1, <1>2, PTL
     DEF Spec, PoolImplemented, Pool!Spec, Pool!poolVars, poolSeen
=============================================================================
