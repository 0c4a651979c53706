-------------------------- MODULE SystemRefinement --------------------------
(***************************************************************************)
(* What the program implements: the pool of addresses and the table its    *)
(* readers rely on always, the state machine of the README when one client *)
(* waits for each of its answers.                                          *)
(***************************************************************************)
EXTENDS System

\* The owners of the addresses in the table ip_addresses.
Owners == [a \in Addrs |-> ips[a].server]

\* A terminate request knows the address of its server and is about to free it.
Releases == {<<req[r].id, req[r].ip>> : r \in {q \in Slots : At(q, "dealloc")}}

\* The table as the pool of addresses.
Pool == INSTANCE AddressPool
  WITH Addresses <- Addrs, Owners <- Servers, None <- NoServer,
       owner <- Owners, releases <- Releases, open <- Running

\* With any number of handlers, with failing statements and with crashes, an
\* address is given only to a server that owns none and only while nobody owns
\* it; while the program serves an address is freed only by a request that has
\* found it to be its server's, one at a time; all at once they are taken back
\* only by the startup.
PoolImplemented == Pool!Spec

\* What GET /servers/{serverID} shows of a server, as far as it changes.
Shown(s) == [status |-> servers[s].status, uptime |-> servers[s].uptime]

\* The table servers as those see it who only read it.
Table == INSTANCE ServerTable
  WITH Ids <- Servers, Uptimes <- Nat, table <- [s \in Servers |-> Shown(s)]

\* Whatever the handlers, the daemon and the startup interleave and whatever
\* fails, the rows a reader sees are never lost, nor shown as provisioning
\* again, no uptime shrinks, and no server is charged or stopped before it was
\* started.  A terminated server may be shown as running again.
TableImplemented == Table!TableSpec

\* The status column as the state of the servers' state machines.
Fsms == INSTANCE Lifecycle
  WITH Ids <- Servers, status <- [s \in Servers |-> servers[s].status]

\* With a single handler at a time and as long as nothing is reaped, a status
\* moves only along the state machine, failing statements, billing, crashes and
\* restarts included.
LifecycleImplemented == Fsms!Spec

Quiet == Running /\ \A r \in Slots : At(r, "idle")

\* With a single handler at a time, as long as nothing is reaped and no
\* statement has failed, whenever nothing is in flight every live server owns
\* the address its row shows, and every address given away belongs to a live
\* server: ProvisionNewServer and TerminateServer neither leak nor share an
\* address, a restart heals what a crash left half done, and a shutdown that is
\* not cut short leaves nothing half done.
LeasesExact ==
  faults = 0 /\ Quiet =>
    /\ \A s \in Servers :
         servers[s].status \in Live => ips[servers[s].address].server = s
    /\ \A a \in Addrs :
         ips[a].state = "allocated" =>
           \E s \in Servers : ips[a].server = s /\ servers[s].status \in Live
=============================================================================
