-------------------------- MODULE OneClientProofs --------------------------
(***************************************************************************)
(* What the program promises a client that waits for each of its answers,  *)
(* as long as the reaper has nothing to do, for any number of servers,     *)
(* addresses and seconds and any number of crashes and signals: the status *)
(* moves along the state machine even when statements fail, and when none  *)
(* has failed addresses are neither leaked nor shared.  That one slot is   *)
(* the only one is used throughout; of the daemon only that what is left   *)
(* of it changes nothing but uptimes (OnlyBills).                          *)
(***************************************************************************)
EXTENDS LogProofs, StartupProofs

LEMMA OnlySlot ==
  ASSUME OneClient, NEW r \in Slots
  PROVE  \A q \in Slots : q = r
BY DEF OneClient

\* Where a request that goes on stands.
LEMMA GoesTo ==
  ASSUME IInv, NEW r \in Slots, NEW pc, Goto(r, pc)
  PROVE  /\ pc = "idle" => req'[r] = Idle
         /\ pc # "idle" => /\ req'[r].pc = pc
                           /\ req'[r].op = req[r].op
                           /\ req'[r].id = req[r].id
                           /\ req'[r].ip = req[r].ip
BY DEF Goto, IInv, TypeOK, Request

\* A step of the daemon that is not the reaper's changes nothing but uptimes.
LEMMA OnlyBills ==
  ASSUME IInv, ReaperRests, DaemonStep \/ ClockStep
  PROVE  /\ \A s \in Servers : /\ servers'[s].status = servers[s].status
                               /\ servers'[s].address = servers[s].address
                               /\ servers'[s].logs = servers[s].logs
         /\ UNCHANGED <<ips, req, phase>>
<1>1. CASE ClockStep \/ (DaemonStep /\ ~BillServer)
  BY <1>1 DEF ReaperRests, ClockStep, Tick, DaemonStep, DaemonNext, PassStep, StartPass, ListRunning,
              ReapServer, storeVars, serviceVars, startupVars
<1>2. CASE DaemonStep /\ BillServer
  <2>1. PICK s \in Servers : servers' \in {servers, UpdateServerUptime(s, NewUptime(s))}
    BY <1>2 DEF BillServer
  <2> QED
    BY <1>2, <2>1 DEF BillServer, DaemonStep, UpdateServerUptime, serviceVars, startupVars,
                      IInv, TypeOK, ServerRow
<1> QED
  BY <1>1, <1>2

----------------------------------------------------------------------------
(* The status that was checked stays. *)

\* Only these two statements of a request write a status.
LEMMA StatusWrites ==
  ASSUME IInv, NEW r \in Slots, SlotStep(r), ~CreateServer(r), ~UpdateStatus(r)
  PROVE  \A s \in Servers : /\ servers'[s].status = servers[s].status
                            /\ servers'[s].address = servers[s].address
<1>1. CASE ProvisionLog(r) \/ AppendLog(r) \/ EnforceLimit(r)
  BY <1>1 DEF ProvisionLog, AppendLog, EnforceLimit, AppendServerLifecycleLog,
              EnforceLifecycleLogsLimit, IInv, TypeOK, ServerRow
<1>2. CASE UNCHANGED servers
  BY <1>2
<1> QED
  BY <1>1, <1>2 DEF SlotStep, LockSelect, SelectIP, LockSave, SaveAllocatedIP, GetIP, Deallocate,
                    Refetch, storeVars

LEMMA CheckNext ==
  ASSUME OneClient, IInv, CheckHolds, NEW r \in Slots, SlotStep(r)
  PROVE  CheckHolds'
<1>1. \A q \in Slots : q = r
  BY OnlySlot
<1> SUFFICES /\ \/ req'[r].pc = "update"
                \/ req'[r].pc \in {"append", "enforce"} /\ req'[r].op = "reboot"
                => Accepts(req'[r].op, servers'[req'[r].id].status)
             /\ req'[r].pc \in {"getIP", "dealloc"} => req'[r].op = "terminate"
  BY <1>1 DEF CheckHolds, At, Accepts, IsValidTransition
<1>3. CASE CreateServer(r) \/ LockSelect(r) \/ LockSave(r) \/ SaveAllocatedIP(r) \/ ProvisionLog(r) \/ Refetch(r)
  <2>1. req'[r].pc \in {"idle", "select", "lockSave", "save", "provLog"}
    BY <1>3, GoesTo DEF CreateServer, LockSelect, LockSave, SaveAllocatedIP, ProvisionLog, Refetch,
                        Ok, Fails, Idle, IInv, TypeOK, Request
  <2> QED
    BY <2>1
<1>4. CASE SelectIP(r)
  <2>1. req'[r].pc \in {"idle", "create"}
    BY <1>4, GoesTo DEF SelectIP, Ok, Fails, Idle, IInv, TypeOK, Request
  <2> QED
    BY <2>1
<1>5. CASE UpdateStatus(r)
  <2>1. Goto(r, AfterUpdate(req[r].op)) \/ Goto(r, "idle")
    BY <1>5 DEF UpdateStatus, Ok, Fails
  <2>2. /\ AfterUpdate(req[r].op) \in {"getIP", "idle", "append"}
        /\ AfterUpdate(req[r].op) = "getIP" => req[r].op = "terminate"
        /\ AfterUpdate(req[r].op) = "append" => req[r].op # "reboot"
    BY DEF AfterUpdate
  <2> QED
    BY <2>1, <2>2, GoesTo DEF Idle
<1>6. CASE GetIP(r)
  <2>1. req'[r].pc \in {"idle", "dealloc"} /\ (req'[r].pc = "dealloc" => req'[r].op = req[r].op)
    BY <1>6, GoesTo DEF GetIP, GetIPAddressByServerID, Ok, Fails, Idle, IInv, TypeOK, Request
  <2> QED
    BY <1>6, <2>1 DEF GetIP, At, CheckHolds
<1>7. CASE Deallocate(r)
  <2>1. (Goto(r, "append") \/ Goto(r, "idle")) /\ req[r].op = "terminate"
    BY <1>7 DEF Deallocate, Ok, Fails, At, CheckHolds
  <2> QED
    BY <2>1, GoesTo DEF Idle
<1>8. CASE AppendLog(r) \/ EnforceLimit(r)
  <2>1. /\ Goto(r, "enforce") \/ Goto(r, AfterLog(req[r].op))
        /\ req[r].pc \in {"append", "enforce"}
    BY <1>8 DEF AppendLog, EnforceLimit, Ok, Fails, At
  <2>2. /\ req[r].id \in Servers
        /\ servers'[req[r].id].status = servers[req[r].id].status
    BY <1>8, StatusWrites DEF AppendLog, EnforceLimit, CreateServer, UpdateStatus, At, SlotStep,
                              IInv, ActsOnRow, ActionPc
  <2>3. /\ AfterLog(req[r].op) \in {"refetch", "update", "idle"}
        /\ AfterLog(req[r].op) = "update" => req[r].op = "reboot"
    BY DEF AfterLog
  <2> QED
    BY <2>1, <2>2, <2>3, GoesTo DEF CheckHolds, Idle
<1> QED
  BY <1>3, <1>4, <1>5, <1>6, <1>7, <1>8 DEF SlotStep

LEMMA CheckKept ==
  ASSUME OneClient, ReaperRests, IInv, RequestsEnd, CheckHolds, [Next]_vars
  PROVE  CheckHolds'
<1>1. ASSUME NEW r \in Slots, HandlerStep(r)
      PROVE  CheckHolds'
  BY <1>1, CheckNext DEF HandlerStep
<1>2. ASSUME NEW r \in Slots, ClientStep(r)
      PROVE  CheckHolds'
  <2>1. servers' = servers
    BY <1>2 DEF ClientStep, Arrival, ProvisionRequest, ActionRequest, RejectedRequest, storeVars
  <2>2. CASE req' = req
    BY <2>1, <2>2 DEF CheckHolds, At, Accepts, IsValidTransition
  <2>3. CASE ProvisionRequest(r)
    BY <2>1, <2>3 DEF ProvisionRequest, CheckHolds, At, Accepts, IsValidTransition, IInv, TypeOK
  <2>4. ASSUME NEW op \in Ops, NEW s \in Servers, ActionRequest(r, op, s)
        PROVE  CheckHolds'
    <3>1. req'[r] = [pc |-> FirstPc(op), op |-> op, id |-> s, ip |-> 0]
      BY <2>4 DEF ActionRequest, IInv, TypeOK
    <3>2. /\ Accepts(op, servers[s].status)
          /\ FirstPc(op) \in {"append", "update"}
      BY <2>4 DEF ActionRequest, FirstPc
    <3>3. \A q \in Slots : q = r
      BY OnlySlot
    <3> QED
      BY <2>1, <3>1, <3>2, <3>3 DEF CheckHolds, At, Accepts, IsValidTransition
  <2> QED
    BY <1>2, <2>2, <2>3, <2>4 DEF ClientStep, Arrival, RejectedRequest, serviceVars
<1>3. CASE \A r \in Slots : req'[r] = Idle
  BY <1>3 DEF CheckHolds, At, Idle
<1>4. ASSUME MainStep \/ Crash \/ Exit \/ ShutdownTimesOut
      PROVE  \A r \in Slots : req'[r] = Idle
  <2>1. MainStep => ~Running /\ req' = req
    BY DEF MainStep, BootStep, Launch, Start, Connect, TerminateAll, Truncate, Populate, Serve, Running, serviceVars
  <2>2. Crash \/ Exit \/ ShutdownTimesOut => Ended("down") \/ Ended("stopped")
    BY DEF Crash, Exit, ShutdownTimesOut
  <2> QED
    BY <1>4, <2>1, <2>2 DEF RequestsEnd, Ended
<1>5. CASE UNCHANGED req /\ \A s \in Servers : servers'[s].status = servers[s].status
  BY <1>5 DEF CheckHolds, At, Accepts, IsValidTransition, IInv, ActsOnRow, ActionPc
<1>6. Signal \/ StartedAgain \/ UNCHANGED vars => UNCHANGED <<servers, req>>
  BY DEF Signal, StartedAgain, StartAgain, Start, vars, storeVars, serviceVars
<1> QED
  BY <1>1, <1>2, <1>3, <1>4, <1>5, <1>6, OnlyBills DEF Next

----------------------------------------------------------------------------
(* Addresses. *)

\* A step of the request that touches neither the pool nor a status.
LEMMA LeasesStay ==
  ASSUME IInv, NEW r \in Slots, Leases(r), ips' = ips,
         \A s \in Servers : /\ servers'[s].status = servers[s].status
                            /\ servers'[s].address = servers[s].address,
         Saving(r) => Saving(r)' /\ req'[r].id = req[r].id,
         req[r].pc \in {"getIP", "dealloc"} =>
           \/ req'[r].pc = "dealloc" /\ req'[r].id = req[r].id
           \/ GetIPAddressByServerID(req[r].id) = {},
         Saving(r)' => Saving(r) /\ req'[r].ip = req[r].ip,
         req'[r].pc = "create" => req'[r].ip \in FreeIPs,
         req'[r].pc \in {"getIP", "dealloc"} => req[r].pc = "getIP" /\ req'[r].id = req[r].id,
         req'[r].pc = "dealloc" => ips[req'[r].ip].server = req'[r].id
  PROVE  Leases(r)'
<1>1. \A s \in Servers : servers'[s].status \in Live /\ ~(Saving(r)' /\ req'[r].id = s)
                         => ips'[servers'[s].address].server = s
  BY DEF Leases
<1>2. \A a \in Addrs : ips'[a].server # NoServer =>
        \/ servers'[ips'[a].server].status \in Live
        \/ req'[r].pc \in {"getIP", "dealloc"} /\ req'[r].id = ips'[a].server
  BY DEF Leases, GetIPAddressByServerID, IInv, TypeOK, IpRow
<1>3. req'[r].pc = "create" \/ Saving(r)' => req'[r].ip \in FreeIPs'
  BY DEF Leases, FreeIPs
<1>4. Saving(r)' => servers'[req'[r].id].status \in Live
  BY DEF Leases, Saving, IInv, ActsOnRow
<1>5. req'[r].pc \in {"getIP", "dealloc"} => servers'[req'[r].id].status \notin Live
  BY DEF Leases, IInv, ActsOnRow, ActionPc
<1> QED
  BY <1>1, <1>2, <1>3, <1>4, <1>5 DEF Leases

LEMMA QuietStepLeases ==
  ASSUME ~Fault, IInv, NEW r \in Slots, Leases(r), SlotStep(r),
         ~CreateServer(r), ~SaveAllocatedIP(r), ~UpdateStatus(r), ~Deallocate(r)
  PROVE  Leases(r)'
<1>1. /\ ips' = ips
      /\ \A s \in Servers : /\ servers'[s].status = servers[s].status
                            /\ servers'[s].address = servers[s].address
  <2>1. ips' = ips
    BY DEF SlotStep, LockSelect, SelectIP, LockSave, ProvisionLog, GetIP, AppendLog, EnforceLimit,
           Refetch, storeVars
  <2> QED
    BY <2>1, StatusWrites
<1>2. ~Fault
  OBVIOUS
<1>3. CASE LockSelect(r) \/ ProvisionLog(r) \/ AppendLog(r) \/ EnforceLimit(r) \/ Refetch(r)
  <2>1. req[r].pc \in {"lockSelect", "provLog", "append", "enforce", "refetch"}
    BY <1>3 DEF LockSelect, ProvisionLog, AppendLog, EnforceLimit, Refetch, At
  <2>2. req'[r].pc \in {"select", "idle", "enforce", "refetch", "update"}
    BY <1>2, <1>3, GoesTo DEF LockSelect, ProvisionLog, AppendLog, EnforceLimit, Refetch, AfterLog,
                              Ok, Fails, Idle
  <2> QED
    BY <1>1, <2>1, <2>2, LeasesStay DEF Saving
<1>4. CASE SelectIP(r)
  <2>1. req[r].pc = "select"
    BY <1>4 DEF SelectIP, At
  <2>2. \/ req'[r] = Idle
        \/ req'[r].pc = "create" /\ req'[r].ip \in FreeIPs
    BY <1>4, GoesTo DEF SelectIP, GetAvailableIPForAllocation, Ok, Fails, IInv, TypeOK, Request
  <2> QED
    BY <1>1, <2>1, <2>2, LeasesStay DEF Saving, Idle
<1>5. CASE LockSave(r)
  <2>1. req[r].pc = "lockSave" /\ req'[r].pc = "save" /\ req'[r].id = req[r].id /\ req'[r].ip = req[r].ip
    BY <1>5, GoesTo DEF LockSave, At
  <2> QED
    BY <1>1, <2>1, LeasesStay DEF Saving
<1>6. CASE GetIP(r)
  <2>1. req[r].pc = "getIP"
    BY <1>6 DEF GetIP, At
  <2>2. \/ req'[r] = Idle /\ GetIPAddressByServerID(req[r].id) = {}
        \/ /\ req'[r].pc = "dealloc" /\ req'[r].id = req[r].id
           /\ ips[req'[r].ip].server = req[r].id
    BY <1>2, <1>6, GoesTo DEF GetIP, GetIPAddressByServerID, Ok, Fails, IInv, TypeOK, Request
  <2> QED
    BY <1>1, <2>1, <2>2, LeasesStay DEF Saving, Idle
<1> QED
  BY <1>3, <1>4, <1>5, <1>6 DEF SlotStep

\* The new row is the one row that does not own its address yet.
LEMMA CreateLeases ==
  ASSUME ~Fault, IInv, NEW r \in Slots, Leases(r), CreateServer(r)
  PROVE  Leases(r)'
<1>1. PICK s \in Servers :
        /\ NextId(s)
        /\ servers' = CreateNewServer(s, req[r].ip)
        /\ req' = [req EXCEPT ![r].pc = "lockSave", ![r].id = s]
  BY DEF CreateServer, Fails
<1>2. /\ req[r].pc = "create" /\ servers[s].status = "absent" /\ ips' = ips
      /\ req[r].ip \in Addrs /\ req[r].ip \in FreeIPs
  BY <1>1 DEF CreateServer, At, NextId, Leases, IInv, TypeOK, Request
<1>3. req'[r].pc = "lockSave" /\ req'[r].id = s /\ req'[r].ip = req[r].ip
  BY <1>1 DEF IInv, TypeOK, Request
<1>4. /\ servers'[s].status = "provisioning"
      /\ \A t \in Servers \ {s} : servers'[t] = servers[t]
  BY <1>1 DEF CreateNewServer, Inserted, IInv, TypeOK
<1>5. \A t \in Servers : servers'[t].status \in Live /\ ~(Saving(r)' /\ req'[r].id = t)
                         => ips'[servers'[t].address].server = t
  BY <1>2, <1>3, <1>4 DEF Leases, Saving
<1>6. \A a \in Addrs : ips'[a].server # NoServer => servers'[ips'[a].server].status \in Live
  <2>1. \A a \in Addrs : ips[a].server # NoServer =>
          /\ ips[a].server \in Servers \ {s}
          /\ servers[ips[a].server].status \in Live
    BY <1>2 DEF Leases, Live, IInv, TypeOK, IpRow
  <2> QED
    BY <1>2, <1>4, <2>1
<1> QED
  BY <1>2, <1>3, <1>4, <1>5, <1>6 DEF Leases, Saving, Live, FreeIPs

\* The address is given to the row that shows it.
LEMMA SaveLeases ==
  ASSUME ~Fault, IInv, NEW r \in Slots, Leases(r), SaveAllocatedIP(r)
  PROVE  Leases(r)'
<1>1. /\ req[r].pc = "save" /\ req'[r].pc = "provLog" /\ servers' = servers
      /\ ips' = AllocateIPAddress(req[r].ip, req[r].id)
  BY GoesTo DEF SaveAllocatedIP, At, Ok, Fails
<1>2. /\ req[r].ip \in FreeIPs /\ req[r].id \in Servers
      /\ servers[req[r].id].status \in Live
      /\ servers[req[r].id].address = req[r].ip
  BY <1>1 DEF Leases, Saving, IInv, ActsOnRow, SavingOwnsNothing
<1>3. /\ ips'[req[r].ip].server = req[r].id
      /\ \A a \in Addrs \ {req[r].ip} : ips'[a] = ips[a]
      /\ ips[req[r].ip].server = NoServer
  BY <1>1, <1>2 DEF AllocateIPAddress, FreeIPs, IInv, TypeOK
<1>4. \A s \in Servers : servers'[s].status \in Live => ips'[servers'[s].address].server = s
  <2> SUFFICES ASSUME NEW s \in Servers, servers[s].status \in Live
               PROVE  ips'[servers[s].address].server = s
    BY <1>1
  <2>1. CASE s = req[r].id
    BY <1>2, <1>3, <2>1
  <2>2. CASE s # req[r].id
    <3>1. ips[servers[s].address].server = s /\ servers[s].address \in Addrs
      BY <2>2 DEF Leases, IInv, TypeOK, ServerRow
    <3> QED
      BY <1>3, <3>1, StoreConstants
  <2> QED
    BY <2>1, <2>2
<1>5. \A a \in Addrs : ips'[a].server # NoServer => servers'[ips'[a].server].status \in Live
  BY <1>1, <1>2, <1>3 DEF Leases
<1> QED
  BY <1>1, <1>4, <1>5 DEF Leases, Saving

\* A status that was checked changes: the owner of the address stays live, or is
\* the one being terminated.
LEMMA UpdateLeases ==
  ASSUME ~Fault, IInv, CheckHolds, NEW r \in Slots, Leases(r), UpdateStatus(r)
  PROVE  Leases(r)'
<1>1. /\ req[r].pc = "update" /\ ips' = ips
      /\ servers' = UpdateServerStatus(req[r].id, Target(req[r].op))
      /\ Goto(r, AfterUpdate(req[r].op))
  BY DEF UpdateStatus, At, Ok, Fails
<1>2. req[r].id \in Servers /\ servers[req[r].id].status \in Live
  BY <1>1 DEF CheckHolds, At, Accepts, IsValidTransition, Transitions, Live, IInv, ActsOnRow, ActionPc
<1>3. \A s \in Servers :
        /\ servers'[s].address = servers[s].address
        /\ servers'[s].status = IF s = req[r].id THEN Target(req[r].op) ELSE servers[s].status
  BY <1>1 DEF UpdateServerStatus, IInv, TypeOK, ServerRow
<1>4. /\ req'[r].pc \in {"idle", "getIP", "append"}
      /\ req'[r].pc = "getIP" <=> Target(req[r].op) \notin Live
      /\ req'[r].pc = "getIP" => req'[r].id = req[r].id
  <2>1. /\ AfterUpdate(req[r].op) \in {"idle", "getIP", "append"}
        /\ AfterUpdate(req[r].op) = "getIP" <=> Target(req[r].op) \notin Live
    BY DEF AfterUpdate, Target, Live
  <2> QED
    BY <1>1, <2>1, GoesTo DEF Idle
<1>5. \A s \in Servers : servers'[s].status \in Live => ips'[servers'[s].address].server = s
  BY <1>1, <1>2, <1>3 DEF Leases, Saving
<1>6. \A a \in Addrs : ips'[a].server # NoServer =>
        \/ servers'[ips'[a].server].status \in Live
        \/ req'[r].pc \in {"getIP", "dealloc"} /\ req'[r].id = ips'[a].server
  <2> SUFFICES ASSUME NEW a \in Addrs, ips[a].server # NoServer
               PROVE  \/ servers'[ips[a].server].status \in Live
                      \/ req'[r].pc \in {"getIP", "dealloc"} /\ req'[r].id = ips[a].server
    BY <1>1
  <2>1. ips[a].server \in Servers /\ servers[ips[a].server].status \in Live
    BY <1>1 DEF Leases, IInv, TypeOK, IpRow
  <2> QED
    BY <1>3, <1>4, <2>1
<1> QED
  BY <1>2, <1>3, <1>4, <1>5, <1>6 DEF Leases, Saving

\* The address that is freed is the only one of the terminated server.
LEMMA DeallocateLeases ==
  ASSUME ~Fault, IInv, CheckHolds, NEW r \in Slots, Leases(r), Deallocate(r)
  PROVE  Leases(r)'
<1>1. /\ req[r].pc = "dealloc" /\ req'[r].pc = "append" /\ servers' = servers
      /\ ips' = DeallocateIPAddress(req[r].ip)
      /\ req[r].ip \in Addrs /\ req[r].id \in Servers
  BY GoesTo DEF Deallocate, At, Ok, Fails, IInv, TypeOK, Request, ActsOnRow, ActionPc
<1>2. ips[req[r].ip].server = req[r].id /\ servers[req[r].id].address = req[r].ip
  BY <1>1, StoreConstants DEF Leases, IInv, PoolConsistent
<1>3. /\ ips'[req[r].ip].server = NoServer
      /\ \A a \in Addrs \ {req[r].ip} : ips'[a] = ips[a]
  BY <1>1, <1>2, StoreConstants DEF DeallocateIPAddress, FreeIp, IInv, TypeOK, PoolConsistent
<1>4. \A a \in Addrs \ {req[r].ip} : ips[a].server # req[r].id
  BY <1>1, <1>2, StoreConstants DEF IInv, PoolConsistent
<1>5. ASSUME NEW s \in Servers, servers[s].status \in Live
      PROVE  ips'[servers[s].address].server = s
  <2>1. ips[servers[s].address].server = s /\ servers[s].address \in Addrs
    BY <1>1, <1>5 DEF Leases, Saving, IInv, TypeOK, ServerRow
  <2>2. s # req[r].id
    BY <1>1, <1>5 DEF Leases
  <2> QED
    BY <1>2, <1>3, <2>1, <2>2
<1>6. ASSUME NEW a \in Addrs, ips'[a].server # NoServer
      PROVE  servers[ips'[a].server].status \in Live
  <2>1. a # req[r].ip /\ ips'[a] = ips[a] /\ ips[a].server # req[r].id
    BY <1>3, <1>4, <1>6
  <2> QED
    BY <1>1, <1>6, <2>1 DEF Leases
<1> QED
  BY <1>1, <1>5, <1>6 DEF Leases, Saving

LEMMA ClientLeases ==
  ASSUME IInv, NEW r \in Slots, Leases(r), ClientStep(r)
  PROVE  Leases(r)'
<1>1. UNCHANGED <<servers, ips>>
  BY DEF ClientStep, Arrival, ProvisionRequest, ActionRequest, RejectedRequest, storeVars
<1>2. CASE req' = req
  BY <1>1, <1>2 DEF Leases, Saving, FreeIPs
<1>3. CASE req' # req
  <2>1. req[r].pc = "idle" /\ req'[r].pc \in {"lockSelect", "append", "update"}
    BY <1>3 DEF ClientStep, Arrival, ProvisionRequest, ActionRequest, RejectedRequest, At, FirstPc,
                serviceVars, IInv, TypeOK
  <2> QED
    BY <1>1, <2>1, LeasesStay DEF Saving
<1> QED
  BY <1>2, <1>3

\* A start leaves no live server and no owner.
LEMMA ServeLeases ==
  ASSUME faults = 0, RequestsEnd, StartupDone, MainStep, Running'
  PROVE  \A r \in Slots : Leases(r)'
<1>1. Serve /\ ~Running /\ req' = req
  BY DEF MainStep, BootStep, Launch, Start, Connect, TerminateAll, Truncate, Populate, SchemaMissing,
         Done, Flawed, Serve, Running, serviceVars
<1>2. ~flawed
  BY DEF StartupDone
<1>3. \A s \in Servers : servers'[s].status \notin Live
  BY <1>2, <1>1 DEF Serve, StartupDone, storeVars
<1>4. \A a \in Addrs : ips'[a].server = NoServer
  BY <1>2, <1>1 DEF Serve, StartupDone, FreeIp, NoIp, storeVars
<1>5. \A r \in Slots : req'[r].pc = "idle"
  BY <1>1 DEF RequestsEnd, Idle
<1> QED
  BY <1>3, <1>4, <1>5 DEF Leases, Saving

LEMMA LeaseNext ==
  ASSUME OneClient, ReaperRests, IInv, RequestsEnd, StartupDone, CheckHolds, LeaseInv, [Next]_vars
  PROVE  LeaseInv'
<1> SUFFICES ASSUME faults' = 0, Running'
             PROVE  \A r \in Slots : Leases(r)'
  BY DEF LeaseInv
<1>1. faults = 0 /\ ~Fault
  BY NoFaultYet DEF Fault, IInv, TypeOK
<1>2. ASSUME NEW r \in Slots, HandlerStep(r)
      PROVE  \A q \in Slots : Leases(q)'
  <2>1. Leases(r) /\ SlotStep(r)
    BY <1>1, <1>2 DEF LeaseInv, HandlerStep
  <2>2. Leases(r)'
    BY <1>1, <2>1, QuietStepLeases, CreateLeases, SaveLeases, UpdateLeases, DeallocateLeases
  <2> QED
    BY <2>2, OnlySlot
<1>3. ASSUME NEW r \in Slots, ClientStep(r)
      PROVE  \A q \in Slots : Leases(q)'
  <2>1. Leases(r)
    BY <1>1, <1>3 DEF LeaseInv, ClientStep, Serving, Running
  <2>2. Leases(r)'
    BY <1>3, <2>1, ClientLeases
  <2> QED
    BY <2>2, OnlySlot
<1>4. ASSUME MainStep
      PROVE  \A r \in Slots : Leases(r)'
  BY <1>1, <1>4, ServeLeases
<1>5. ~(StartedAgain \/ Crash \/ Exit \/ ShutdownTimesOut)
  BY DEF StartedAgain, StartAgain, Start, Crash, Exit, ShutdownTimesOut, Ended, Running
<1>6. ASSUME DaemonStep \/ ClockStep
      PROVE  \A r \in Slots : Leases(r)'
  <2>1. /\ UNCHANGED <<ips, req>> /\ Running
        /\ \A s \in Servers : /\ servers'[s].status = servers[s].status
                              /\ servers'[s].address = servers[s].address
    BY <1>6, OnlyBills DEF Running
  <2>2. ASSUME NEW r \in Slots
        PROVE  Leases(r)'
    <3>1. Leases(r)
      BY <1>1, <2>1 DEF LeaseInv
    <3>2. /\ \A a \in Addrs : ips[a].server # NoServer => ips[a].server \in Servers
          /\ Saving(r) \/ req[r].pc \in {"getIP", "dealloc"} => req[r].id \in Servers
      BY DEF IInv, TypeOK, IpRow, ActsOnRow, ActionPc, Saving
    <3> QED
      BY <2>1, <3>1, <3>2 DEF Saving, Leases, FreeIPs
  <2> QED
    BY <2>2
<1>7. ASSUME Signal \/ UNCHANGED vars
      PROVE  \A r \in Slots : Leases(r)'
  <2>1. UNCHANGED <<servers, ips, req>> /\ Running
    BY <1>7 DEF Signal, Serving, Running, vars, storeVars, serviceVars, startupVars
  <2> QED
    BY <1>1, <2>1 DEF LeaseInv, Leases, Saving, FreeIPs
<1> QED
  BY <1>2, <1>3, <1>4, <1>5, <1>6, <1>7 DEF Next

LEMMA OneClientInit ==
  ASSUME Init
  PROVE  OneClientInv
BY DEF Init, StoreInit, ServiceInit, StartupInit, Idle, Running, At,
       OneClientInv, CheckHolds, LeaseInv

LEMMA OneClientNext ==
  ASSUME OneClient, ReaperRests, IInv, RequestsEnd, StartupDone, OneClientInv, [Next]_vars
  PROVE  OneClientInv'
BY CheckKept, LeaseNext DEF OneClientInv

\* For any number of servers, addresses, seconds, faults, crashes and signals,
\* as long as there is one handler and nothing is reaped: the status a request
\* has checked is the one its UPDATE overwrites, and, as long as nothing has
\* failed, addresses and live servers correspond except at what is in flight.
THEOREM OneClientInvariant ==
  ASSUME OneClient
  PROVE  Spec /\ []ReaperRests => [](IInv /\ OneClientInv)
<1>1. Init => IInv /\ LogInv /\ StartupDone /\ OneClientInv
  BY InitInv, LogInvInit, StartupInitDone, OneClientInit
<1>2. ReaperRests /\ IInv /\ LogInv /\ StartupDone /\ OneClientInv /\ [Next]_vars
        => (IInv /\ LogInv /\ StartupDone /\ OneClientInv)'
  BY NextInv, LogNextInv, StartupNext, OneClientNext DEF LogInv
<1> QED
  BY <1>1, <1>2, PTL DEF Spec

\* Whenever nothing is in flight and nothing has failed every live server owns
\* the address it shows and every owner is live, for any number of servers,
\* addresses, seconds, crashes and signals, while the daemon bills.
THEOREM LeasesHold ==
  ASSUME OneClient
  PROVE  Spec /\ []ReaperRests => []LeasesExact
<1>1. IInv /\ OneClientInv => LeasesExact
  <2> SUFFICES ASSUME IInv, OneClientInv, faults = 0, Quiet
               PROVE  LeasesExact
    BY DEF LeasesExact
  <2>1. PICK r \in Slots : Leases(r) /\ req[r].pc = "idle"
    BY DEF OneClient, OneClientInv, LeaseInv, Quiet, At
  <2>2. \A s \in Servers : servers[s].status \in Live => ips[servers[s].address].server = s
    BY <2>1 DEF Leases, Saving
  <2>3. ASSUME NEW a \in Addrs, ips[a].state = "allocated"
        PROVE  \E s \in Servers : ips[a].server = s /\ servers[s].status \in Live
    <3>1. ips[a].server # NoServer /\ ips[a].server \in Servers
      BY <2>3 DEF IInv, TypeOK, IpRow, PoolConsistent
    <3> QED
      BY <2>1, <3>1 DEF Leases
  <2> QED
    BY <2>2, <2>3 DEF LeasesExact
<1> QED
  BY OneClientInvariant, <1>1, PTL

----------------------------------------------------------------------------
(* The status column implements the state machines. *)

statusOf == [s \in Servers |-> servers[s].status]

\* The statuses the program writes are those an abstract step assigns.
LEMMA FsmStutter ==
  ASSUME \A s \in Servers : servers'[s].status = servers[s].status
  PROVE  [Fsms!Next]_statusOf
BY DEF statusOf

LEMMA FsmUpdate ==
  ASSUME IInv, CheckHolds, NEW r \in Slots, UpdateStatus(r)
  PROVE  [Fsms!Next]_statusOf
<1> SUFFICES ASSUME servers' # servers
             PROVE  [Fsms!Next]_statusOf
  BY FsmStutter
<1>1. /\ req[r].pc = "update" /\ req[r].id \in Servers
      /\ servers' = UpdateServerStatus(req[r].id, Target(req[r].op))
  BY DEF UpdateStatus, At, IInv, ActsOnRow, ActionPc
<1>2. PICK s \in Servers : s = req[r].id
  BY <1>1
<1>3. statusOf' = [statusOf EXCEPT ![s] = Target(req[r].op)]
  BY <1>1, <1>2 DEF statusOf, UpdateServerStatus, IInv, TypeOK, ServerRow
<1>4. statusOf[s] = servers[s].status
  BY DEF statusOf
<1>5. Accepts(req[r].op, statusOf[s])
  BY <1>1, <1>2, <1>4 DEF CheckHolds, At
<1>6. \/ statusOf[s] \in {"provisioning", "stopped"} /\ Target(req[r].op) = "running"
      \/ statusOf[s] = "running" /\ Target(req[r].op) = "running"
      \/ statusOf[s] = "running" /\ Target(req[r].op) = "stopped"
      \/ statusOf[s] \in Live /\ Target(req[r].op) = "terminated"
  BY <1>5 DEF Accepts, IsValidTransition, Transitions, Target, Live
<1>7. CASE statusOf[s] = "running" /\ Target(req[r].op) = "running"
  <2>1. statusOf' = statusOf
    BY <1>3, <1>7 DEF statusOf
  <2> QED
    BY <2>1
<1>8. CASE statusOf[s] \in {"provisioning", "stopped"} /\ Target(req[r].op) = "running"
  <2>1. Fsms!Start(s)
    BY <1>3, <1>8 DEF Fsms!Start, statusOf
  <2> QED
    BY <2>1 DEF Fsms!Next
<1>9. CASE statusOf[s] = "running" /\ Target(req[r].op) = "stopped"
  <2>1. Fsms!Stop(s)
    BY <1>3, <1>9 DEF Fsms!Stop, statusOf
  <2> QED
    BY <2>1 DEF Fsms!Next
<1>10. CASE statusOf[s] \in Live /\ Target(req[r].op) = "terminated"
  <2>1. Fsms!Terminate(s)
    BY <1>3, <1>10 DEF Fsms!Terminate, Fsms!Live, Live, statusOf
  <2> QED
    BY <2>1 DEF Fsms!Next
<1> QED
  BY <1>6, <1>7, <1>8, <1>9, <1>10

LEMMA FsmCreate ==
  ASSUME IInv, NEW r \in Slots, CreateServer(r)
  PROVE  [Fsms!Next]_statusOf
<1> SUFFICES ASSUME servers' # servers
             PROVE  [Fsms!Next]_statusOf
  BY FsmStutter
<1>1. PICK s \in Servers : servers[s].status = "absent" /\ servers' = CreateNewServer(s, req[r].ip)
  BY DEF CreateServer, NextId
<1>2. statusOf' = [statusOf EXCEPT ![s] = "provisioning"]
  BY <1>1 DEF statusOf, CreateNewServer, Inserted, IInv, TypeOK
<1>3. Fsms!Provision(s)
  BY <1>1, <1>2 DEF Fsms!Provision, statusOf
<1> QED
  BY <1>3 DEF Fsms!Next

LEMMA FsmReset ==
  ASSUME IInv, MainStep
  PROVE  [Fsms!Next]_statusOf
<1>1. servers' = servers \/ servers' = TerminateAllServers
  BY DEF MainStep, BootStep, Launch, Start, Connect, TerminateAll, Truncate, Populate, Serve, storeVars
<1>2. CASE servers' = TerminateAllServers
  <2>1. \A s \in Servers :
          servers'[s].status = IF servers[s].status \in Live THEN "terminated" ELSE servers[s].status
    BY <1>2 DEF TerminateAllServers, IInv, TypeOK, ServerRow
  <2>2. Fsms!Reset
    BY <2>1 DEF Fsms!Reset, Fsms!Live, Live, statusOf
  <2> QED
    BY <2>2 DEF Fsms!Next
<1> QED
  BY <1>1, <1>2, FsmStutter

\* With one client that waits, the status of every server moves only along the
\* state machine of the README as long as nothing is reaped, although statements
\* fail in any way, the process ends anywhere, and the daemon bills.
THEOREM LifecycleRefined ==
  ASSUME OneClient
  PROVE  Spec /\ []ReaperRests => LifecycleImplemented
<1>1. Init => Fsms!Init
  BY DEF Init, StoreInit, NoRow, Fsms!Init
<1>2. ReaperRests /\ IInv /\ OneClientInv /\ [Next]_vars => [Fsms!Next]_statusOf
  <2> SUFFICES ASSUME ReaperRests, IInv, OneClientInv, [Next]_vars
               PROVE  [Fsms!Next]_statusOf
    OBVIOUS
  <2>1. CASE DaemonStep \/ ClockStep
    BY <2>1, OnlyBills, FsmStutter
  <2>2. CASE UNCHANGED servers
    BY <2>2, FsmStutter
  <2>3. ASSUME NEW r \in Slots, HandlerStep(r)
        PROVE  [Fsms!Next]_statusOf
    BY <2>3, FsmUpdate, FsmCreate, StatusWrites, FsmStutter DEF HandlerStep, OneClientInv
  <2>4. CASE MainStep
    BY <2>4, FsmReset
  <2>5. \/ UNCHANGED servers
        \/ \E r \in Slots : HandlerStep(r)
        \/ MainStep \/ DaemonStep \/ ClockStep
    BY DEF Next, ClientStep, Arrival, ProvisionRequest, ActionRequest, RejectedRequest,
           StartedAgain, StartAgain, Start, Crash, Exit, ShutdownTimesOut, Ended, Signal, vars, storeVars
  <2> QED
    BY <2>1, <2>2, <2>3, <2>4, <2>5
<1> QED
  BY OneClientInvariant, <1>1, <1>2, PTL DEF Spec, LifecycleImplemented, Fsms!Spec, statusOf
=============================================================================
