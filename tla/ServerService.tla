--------------------------- MODULE ServerService ---------------------------
(***************************************************************************)
(* The HTTP handlers that change state, ProvisionServer and                *)
(* PerformServerAction (internal/api/api_handler.go), with the services    *)
(* they call: ServerService (internal/services/server.go) and IPAllocator  *)
(* (internal/services/ip_allocator.go).                                    *)
(*                                                                         *)
(* A slot is a handler goroutine; a slot takes one request after the       *)
(* other.  Between two statements of one slot the other slots, the billing *)
(* daemon and the clock may move.                                          *)
(***************************************************************************)
EXTENDS Store

CONSTANTS
  Slots,      \* handler goroutines that may run at the same time
  Nobody      \* the holder of a mutex that is free

ASSUME ServiceAssumption == Nobody \notin Slots /\ IsFiniteSet(Slots)

VARIABLES
  req,        \* what each slot is doing
  ipMutex     \* IPAllocator.ipMutex: the slot that holds it

serviceVars == <<req, ipMutex>>

\* Where a handler is: the statement it issues next.
ProvisionPc == {"lockSelect", "select", "create", "lockSave", "save", "provLog"}
ActionPc == {"update", "append", "enforce", "getIP", "dealloc", "refetch"}
Pc == {"idle"} \cup ProvisionPc \cup ActionPc

Request == [pc: Pc, op: Ops \cup {"provision", "none"},
            id: Servers \cup {NoServer}, ip: Addrs]

Idle == [pc |-> "idle", op |-> "none", id |-> NoServer, ip |-> 0]

ServiceInit ==
  /\ req = [r \in Slots |-> Idle]
  /\ ipMutex = Nobody

At(r, pc) == req[r].pc = pc

\* The slot goes on to the statement pc; a request that is answered leaves
\* nothing behind.
Goto(r, pc) ==
  req' = [req EXCEPT ![r] = IF pc = "idle" THEN Idle ELSE [@ EXCEPT !.pc = pc]]

\* The statement succeeds, or it returns an error.
Ok(r, pc) == Goto(r, pc) /\ UNCHANGED faults
Fails(r, pc) == Goto(r, pc) /\ Fault

----------------------------------------------------------------------------
(* POST /server *)

\* How many ids requests in flight may still insert.
Inserting == {r \in Slots : req[r].pc \in {"lockSelect", "select", "create"}}

\* A valid request arrives.  The guard is the bound on rows.
ProvisionRequest(r) ==
  /\ At(r, "idle")
  /\ Cardinality(Inserting) < Cardinality(Unused)
  /\ req' = [req EXCEPT ![r] = [pc |-> "lockSelect", op |-> "provision",
                                 id |-> NoServer, ip |-> 0]]
  /\ UNCHANGED <<storeVars, ipMutex>>

\* AllocateIP: ipMutex.Lock()
LockSelect(r) ==
  /\ At(r, "lockSelect")
  /\ ipMutex = Nobody
  /\ ipMutex' = r
  /\ Goto(r, "select")
  /\ UNCHANGED storeVars

SelectIP_KeepsLock(r) ==
  /\ At(r, "select")
  /\ \/ /\ \E a \in Addrs :
             /\ GetAvailableIPForAllocation(a, {})
             /\ req' = [req EXCEPT ![r].pc = "create", ![r].ip = a]
        /\ ipMutex' = Nobody
     \/ FreeIPs = {} /\ Goto(r, "idle") /\ UNCHANGED ipMutex
  /\ UNCHANGED storeVars

\* Rows of the pool that the UPDATEs of other requests may be locking just now;
\* those of saveAllocatedIP are kept away by the mutex.
LockedRows == {req[q].ip : q \in {p \in Slots : At(p, "dealloc")}}

\* AllocateIP: the SELECT, then the deferred Unlock().  An empty pool or an
\* error answers the request with 500.  Nothing marks the address as taken.
SelectIP(r) ==
  /\ At(r, "select")
  /\ \/ \E locked \in SUBSET LockedRows :
          \/ /\ \E a \in Addrs :
                  /\ GetAvailableIPForAllocation(a, locked)
                  /\ req' = [req EXCEPT ![r].pc = "create", ![r].ip = a]
             /\ UNCHANGED faults
          \/ FreeIPs \subseteq locked /\ Ok(r, "idle")
     \/ Fails(r, "idle")
  /\ ipMutex' = Nobody
  /\ UNCHANGED <<servers, ips, now>>

\* The INSERT; its error answers the request, even when the row was inserted.
CreateServer(r) ==
  /\ At(r, "create")
  /\ \E s \in Servers :
       /\ NextId(s)
       /\ \/ /\ servers' = CreateNewServer(s, req[r].ip)
             /\ req' = [req EXCEPT ![r].pc = "lockSave", ![r].id = s]
             /\ UNCHANGED faults
          \/ /\ servers' \in {servers, CreateNewServer(s, req[r].ip)}
             /\ Fails(r, "idle")
  /\ UNCHANGED <<ips, now, ipMutex>>

\* saveAllocatedIP: ipMutex.Lock()
LockSave(r) ==
  /\ At(r, "lockSave")
  /\ ipMutex = Nobody
  /\ ipMutex' = r
  /\ Goto(r, "save")
  /\ UNCHANGED storeVars

\* saveAllocatedIP: the UPDATE, then the deferred Unlock().  Whether it found
\* the address still free or failed, the error is only logged.
SaveAllocatedIP(r) ==
  LET saved == AllocateIPAddress(req[r].ip, req[r].id) IN
  /\ At(r, "save")
  /\ \/ ips' = saved /\ Ok(r, "provLog")
     \/ ips' \in {ips, saved} /\ Fails(r, "provLog")
  /\ ipMutex' = Nobody
  /\ UNCHANGED <<servers, now>>

\* The first log entry; the request is answered with 201 whatever happens.
ProvisionLog(r) ==
  LET appended == AppendServerLifecycleLog(req[r].id) IN
  /\ At(r, "provLog")
  /\ \/ servers' = appended /\ Ok(r, "idle")
     \/ servers' \in {servers, appended} /\ Fails(r, "idle")
  /\ UNCHANGED <<ips, now, ipMutex>>

----------------------------------------------------------------------------
(* POST /servers/{serverID}/action *)

\* A reboot logs before it updates the status, the others update first.
FirstPc(op) == IF op = "reboot" THEN "append" ELSE "update"

AfterUpdate(op) ==
  CASE op = "terminate" -> "getIP"
    [] op = "reboot"    -> "idle"
    [] OTHER            -> "append"

AfterLog_OnlyLogged(op) == IF op = "terminate" THEN "refetch" ELSE "idle"

AfterLog(op) ==
  CASE op = "terminate" -> "refetch"
    [] op = "reboot"    -> "update"
    [] OTHER            -> "idle"

\* GetServer, then the check of the status it returned.  The row is not
\* looked at again: the rest of the handler acts on what was true here.
ActionRequest(r, op, s) ==
  /\ At(r, "idle")
  /\ Accepts(op, servers[s].status)
  /\ req' = [req EXCEPT ![r] = [pc |-> FirstPc(op), op |-> op, id |-> s, ip |-> 0]]
  /\ UNCHANGED <<storeVars, ipMutex>>

\* A request answered with 400, 409 or, when GetServer finds no row, 500.
RejectedRequest(r, op, s) ==
  /\ At(r, "idle")
  /\ ~Accepts(op, servers[s].status)
  /\ UNCHANGED <<storeVars, serviceVars>>

UpdateStatus(r) ==
  LET updated == UpdateServerStatus(req[r].id, Target(req[r].op)) IN
  /\ At(r, "update")
  /\ \/ servers' = updated /\ Ok(r, AfterUpdate(req[r].op))
     \/ servers' \in {servers, updated} /\ Fails(r, "idle")
  /\ UNCHANGED <<ips, now, ipMutex>>

\* TerminateServer: no row of ip_addresses names the server, or an error,
\* answers the request with 500 and leaves the rest undone.
GetIP(r) ==
  /\ At(r, "getIP")
  /\ \/ /\ \E a \in GetIPAddressByServerID(req[r].id) :
             req' = [req EXCEPT ![r].pc = "dealloc", ![r].ip = a]
        /\ UNCHANGED faults
     \/ GetIPAddressByServerID(req[r].id) = {} /\ Ok(r, "idle")
     \/ Fails(r, "idle")
  /\ UNCHANGED <<servers, ips, now, ipMutex>>

\* TerminateServer: the row is found by its id only, not by its server.
Deallocate(r) ==
  LET freed == DeallocateIPAddress(req[r].ip) IN
  /\ At(r, "dealloc")
  /\ \/ ips' = freed /\ Ok(r, "append")
     \/ ips' \in {ips, freed} /\ Fails(r, "idle")
  /\ UNCHANGED <<servers, now, ipMutex>>

\* AppendServerLifecycleLogs; len(updatedLogs) counts bytes, and one entry is
\* longer than 100 of them, so the limit is enforced after every append.  An
\* error is only logged.
AppendLog(r) ==
  LET appended == AppendServerLifecycleLog(req[r].id) IN
  /\ At(r, "append")
  /\ \/ servers' = appended /\ Ok(r, "enforce")
     \/ servers' \in {servers, appended} /\ Fails(r, AfterLog(req[r].op))
  /\ UNCHANGED <<ips, now, ipMutex>>

EnforceLimit(r) ==
  LET cut == EnforceLifecycleLogsLimit(req[r].id) IN
  /\ At(r, "enforce")
  /\ \/ servers' = cut /\ Ok(r, AfterLog(req[r].op))
     \/ servers' \in {servers, cut} /\ Fails(r, AfterLog(req[r].op))
  /\ UNCHANGED <<ips, now, ipMutex>>

\* TerminateServer: the row is read again for the response.
Refetch(r) ==
  /\ At(r, "refetch")
  /\ \/ Ok(r, "idle")
     \/ Fails(r, "idle")
  /\ UNCHANGED <<servers, ips, now, ipMutex>>

----------------------------------------------------------------------------
\* A step of a request in flight.
SlotStep(r) ==
  \/ LockSelect(r) \/ SelectIP(r) \/ CreateServer(r)
  \/ LockSave(r) \/ SaveAllocatedIP(r) \/ ProvisionLog(r)
  \/ UpdateStatus(r) \/ GetIP(r) \/ Deallocate(r)
  \/ AppendLog(r) \/ EnforceLimit(r) \/ Refetch(r)

\* A client sends a request.
Arrival(r) ==
  \/ ProvisionRequest(r)
  \/ \E op \in Ops, s \in Servers : ActionRequest(r, op, s) \/ RejectedRequest(r, op, s)

ServiceNext == \E r \in Slots : SlotStep(r) \/ Arrival(r)
=============================================================================
