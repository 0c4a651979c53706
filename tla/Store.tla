------------------------------- MODULE Store -------------------------------
(***************************************************************************)
(* The two PostgreSQL tables (migrations/schema.sql) and the statements    *)
(* sqlc generates on them (internal/database/sqlc).  The program never     *)
(* opens a transaction, so every statement commits by itself: a statement  *)
(* is one atomic step of whoever issues it, and anything may happen        *)
(* between two statements of the same handler.                             *)
(*                                                                         *)
(* Here a statement is an operator that returns the table it leaves        *)
(* behind; the components assign the result to the table's variable.       *)
(***************************************************************************)
EXTENDS Fsm, Integers, FiniteSets

CONSTANTS
  MaxServers,   \* how many server rows a behaviour may create (a bound)
  LastHost,     \* offset of the last address of IP_ALLOCATION_CIDR
  LogLimit,     \* entries kept by EnforceLifecycleLogsLimit: 100 in the code
  LogKeep,      \* entries it leaves when it cuts: 15 in the code
  MaxFaults     \* how many statements may fail in a behaviour (a bound)

ASSUME StoreAssumption ==
  /\ MaxServers \in Nat
  /\ LastHost \in Nat
  /\ LogLimit \in Nat
  /\ LogKeep \in Nat
  /\ LogKeep <= LogLimit
  /\ MaxFaults \in Nat

VARIABLES
  servers,   \* table servers: a row for every id, "absent" until inserted
  ips,       \* table ip_addresses: a row for every address of the prefix
  now,       \* what NOW() and time.Now() return
  faults     \* how many statements have failed so far

storeVars == <<servers, ips, now, faults>>

\* Ids are numbered in the order of insertion (created_at).
Servers == 1 .. MaxServers

\* NULL in the column server_id.
NoServer == 0

\* Offsets of the prefix's addresses: 0 is prefix.Addr() itself.
Addrs == 0 .. LastHost

ServerRow == [status: Status \cup {"absent"}, address: Addrs,
              lastStatusUpdate: Nat, uptime: Nat, logs: Nat]

IpRow == [state: {"absent", "free", "allocated"}, server: Servers \cup {NoServer}]

NoRow == [status |-> "absent", address |-> 0,
          lastStatusUpdate |-> 0, uptime |-> 0, logs |-> 0]

NoIp == [state |-> "absent", server |-> NoServer]

FreeIp == [state |-> "free", server |-> NoServer]

StoreInit ==
  /\ servers = [s \in Servers |-> NoRow]
  /\ ips = [a \in Addrs |-> NoIp]
  /\ now = 0
  /\ faults = 0

(***************************************************************************)
(* A statement that returns an error: the connection is lost, or the       *)
(* client went away and its request context is cancelled.  The server may  *)
(* have committed the statement before the error was seen, so whoever      *)
(* uses Fault leaves open whether the statement took effect.               *)
(***************************************************************************)
Fault == faults < MaxFaults /\ faults' = faults + 1

(***************************************************************************)
(* Statements on the table servers.  lifecycle_logs is kept as its number  *)
(* of entries.                                                             *)
(***************************************************************************)

\* The row a newly inserted server gets.
Inserted(a) == [status |-> "provisioning", address |-> a,
                lastStatusUpdate |-> now, uptime |-> 0, logs |-> 0]

\* INSERT INTO servers: the id is fresh, and ids follow the insertion order.
NextId(s) == servers[s].status = "absent"
             /\ \A t \in Servers : t < s => servers[t].status # "absent"

CreateNewServer(s, a) == [servers EXCEPT ![s] = Inserted(a)]

UpdateServerStatus(s, status) ==
  [servers EXCEPT ![s].status = status, ![s].lastStatusUpdate = now]

UpdateServerUptime(s, uptime) == [servers EXCEPT ![s].uptime = uptime]

AppendServerLifecycleLog(s) == [servers EXCEPT ![s].logs = @ + 1]

EnforceLifecycleLogsLimit_Never(s) == servers

EnforceLifecycleLogsLimit(s) ==
  [servers EXCEPT ![s].logs = IF @ > LogLimit THEN LogKeep ELSE @]

ListServers_All(status) == {s \in Servers : servers[s].status # "absent"}

ListServers(status) == {s \in Servers : servers[s].status = status}

\* Ids no row has yet.
Unused == {s \in Servers : servers[s].status = "absent"}

TerminateAllServers_KeepStopped ==
  [s \in Servers |->
     IF servers[s].status \in {"provisioning", "running"}
       THEN [servers[s] EXCEPT !.status = "terminated",
                               !.lastStatusUpdate = now, !.logs = @ + 1]
       ELSE servers[s]]

TerminateAllServers ==
  [s \in Servers |->
     IF servers[s].status \in Live
       THEN [servers[s] EXCEPT !.status = "terminated",
                               !.lastStatusUpdate = now, !.logs = @ + 1]
       ELSE servers[s]]

(***************************************************************************)
(* Statements on the table ip_addresses.                                   *)
(***************************************************************************)

FreeIPs == {a \in Addrs : ips[a].state = "free" /\ ips[a].server = NoServer}

\* SELECT ... ORDER BY created_at ... LIMIT 1: rows are created in the order
\* of their addresses.  SKIP LOCKED passes over rows another statement has
\* locked; the lock FOR UPDATE takes itself ends with the statement.
GetAvailableIPForAllocation(a, locked) ==
  LET found == FreeIPs \ locked IN a \in found /\ \A b \in found : a <= b

AllocateIPAddress_Unguarded(a, s) ==
  [ips EXCEPT ![a] = [state |-> "allocated", server |-> s]]

\* UPDATE ... WHERE is_allocated = FALSE AND server_id IS NULL: no row is
\* changed when the address has been taken in the meantime.
AllocateIPAddress(a, s) ==
  IF a \in FreeIPs
    THEN [ips EXCEPT ![a] = [state |-> "allocated", server |-> s]]
    ELSE ips

DeallocateIPAddress_KeepServer(a) == [ips EXCEPT ![a].state = "free"]

DeallocateIPAddress_KeepFlag(a) == [ips EXCEPT ![a].server = NoServer]

DeallocateIPAddress(a) ==
  IF ips[a].state = "absent" THEN ips ELSE [ips EXCEPT ![a] = FreeIp]

GetIPAddressByServerID(s) == {a \in Addrs : ips[a].server = s}

TruncateIPAddresses_KeepOwned ==
  [a \in Addrs |-> IF ips[a].state = "allocated" THEN ips[a] ELSE NoIp]

TruncateIPAddresses == [a \in Addrs |-> NoIp]

\* INSERT INTO ip_addresses: UNIQUE (address) refuses a second row.
CreateIPAddress(a) ==
  IF ips[a].state = "absent" THEN [ips EXCEPT ![a] = FreeIp] ELSE ips
=============================================================================
