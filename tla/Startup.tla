------------------------------ MODULE Startup ------------------------------
(***************************************************************************)
(* What main (cmd/server/main.go) does before it serves: connect to the    *)
(* database with retries (internal/database/postgres.go), terminate every  *)
(* server of the previous run, and rebuild the pool of addresses           *)
(* (TerminateAllServers of internal/services/ip_allocator.go).  The        *)
(* container is restarted whenever the process ends (docker-compose.yml),  *)
(* unless it was told to stop.                                             *)
(***************************************************************************)
EXTENDS Store

CONSTANTS
  MaxRetries,   \* DB_MAX_RETRIES
  Excluded      \* offsets of the addresses of IP_EXCLUSION_LIST

ASSUME StartupAssumption ==
  /\ MaxRetries \in Nat \ {0}
  /\ Excluded \subseteq Addrs

VARIABLES
  phase,     \* how far main has come
  attempt,   \* connection attempts that have failed
  cursor,    \* the address the pool is filled with next
  flawed     \* a statement of this start has failed: a note for the properties,
             \* no step depends on it

startupVars == <<phase, attempt, cursor, flawed>>

Phase == {"down", "connect", "terminateAll", "truncate", "populate",
          "serving", "draining", "stopped"}

\* The addresses servers may get: not prefix.Addr(), and not an excluded one.
\* The last address of the prefix is among them unless it is excluded.
Usable == Addrs \ ({0} \cup Excluded)

StartupInit ==
  /\ phase = "down"
  /\ attempt = 0
  /\ cursor = 0
  /\ flawed = FALSE

\* The container starts the process.
Start(ended) ==
  /\ phase = ended
  /\ phase' = "connect"
  /\ UNCHANGED <<storeVars, attempt, cursor, flawed>>

\* restart: always brings back a process that has ended.
Launch == Start("down")

\* One that was told to stop comes back only when somebody starts it.
StartAgain == Start("stopped")

\* NewDBClient; when the last attempt has failed main exits.
Connect ==
  /\ phase = "connect"
  /\ \/ /\ phase' = "terminateAll"
        /\ attempt' = 0
        /\ UNCHANGED faults
     \/ /\ Fault
        /\ IF attempt + 1 < MaxRetries
             THEN attempt' = attempt + 1 /\ UNCHANGED phase
             ELSE attempt' = 0 /\ phase' = "down"
  /\ UNCHANGED <<servers, ips, now, cursor, flawed>>

\* The database was initialised without the schema: both statements of the
\* startup end the process when their table does not exist.
SchemaMissing == Unused = Servers /\ Fault /\ phase' = "down" /\ flawed' = FALSE

\* The statement succeeds, or its error is logged; the startup goes on.
Done(pc) == phase' = pc /\ UNCHANGED <<faults, flawed>>
Flawed(pc) == phase' = pc /\ Fault /\ flawed' = TRUE

\* The UPDATE of all rows.
TerminateAll ==
  /\ phase = "terminateAll"
  /\ \/ servers' = TerminateAllServers /\ Done("truncate")
     \/ servers' \in {servers, TerminateAllServers} /\ Flawed("truncate")
     \/ SchemaMissing /\ UNCHANGED servers
  /\ UNCHANGED <<ips, now, attempt, cursor>>

\* The TRUNCATE.
Truncate ==
  /\ phase = "truncate"
  /\ \/ ips' = TruncateIPAddresses /\ Done("populate")
     \/ ips' \in {ips, TruncateIPAddresses} /\ Flawed("populate")
     \/ SchemaMissing /\ UNCHANGED ips
  /\ cursor' = 0
  /\ UNCHANGED <<servers, now, attempt>>

\* addr.Next()
NextAddr_StuckOnExcluded(a) == IF a \in Usable THEN a + 1 ELSE a

NextAddr(a) == a + 1

\* One round of the loop over the prefix; an address whose INSERT fails is
\* left out of the pool.
Populate ==
  /\ phase = "populate"
  /\ cursor \in Addrs
  /\ \/ /\ ips' = IF cursor \in Usable THEN CreateIPAddress(cursor) ELSE ips
        /\ Done("populate")
     \/ /\ cursor \in Usable
        /\ ips' \in {ips, CreateIPAddress(cursor)}
        /\ Flawed("populate")
  /\ cursor' = NextAddr(cursor)
  /\ UNCHANGED <<servers, now, attempt>>

\* The loop is over: main starts the daemon and the HTTP server.
Serve ==
  /\ phase = "populate"
  /\ cursor > LastHost
  /\ phase' = "serving"
  /\ cursor' = 0
  /\ flawed' = FALSE
  /\ UNCHANGED <<storeVars, attempt>>

BootStep == Launch \/ Connect \/ TerminateAll \/ Truncate \/ Populate \/ Serve
=============================================================================
