------------------------------- MODULE System -------------------------------
(***************************************************************************)
(* The whole program: the startup of main, the request handlers, and the   *)
(* billing daemon, which meet only in the two tables, together with the    *)
(* clock and with the two ways the process ends: a death anywhere, and the *)
(* shutdown main orders on a signal.  Both drop everything but the tables. *)
(***************************************************************************)
EXTENDS ServerService, BillingDaemon, Startup

CONSTANT MaxCrashes   \* how often it may crash or be signalled (a bound)

ASSUME SystemAssumption == MaxCrashes \in Nat

VARIABLE crashes      \* how often it has crashed or has been signalled

vars == <<storeVars, serviceVars, daemonVars, startupVars, crashes>>

Init == StoreInit /\ ServiceInit /\ DaemonInit /\ StartupInit /\ crashes = 0

Serving == phase = "serving"

\* main is past the startup: the daemon and the accepted requests go on.
Running == phase \in {"serving", "draining"}

\* A request arrives, or goes on.
ClientStep(r) == Serving /\ Arrival(r) /\ UNCHANGED <<daemonVars, startupVars, crashes>>

HandlerStep(r) == Running /\ SlotStep(r) /\ UNCHANGED <<daemonVars, startupVars, crashes>>

DaemonStep == Running /\ DaemonNext /\ UNCHANGED <<serviceVars, startupVars, crashes>>

\* main goes on; its last step starts the daemon's ticker.
MainStep ==
  /\ BootStep
  /\ ticker' = IF phase' = "serving" THEN NewTicker ELSE ticker
  /\ UNCHANGED <<daemon, serviceVars, crashes>>

ClockStep == Tick /\ UNCHANGED <<serviceVars, startupVars, crashes>>

\* Somebody starts a program that was told to stop.
StartedAgain == StartAgain /\ UNCHANGED <<daemonVars, serviceVars, crashes>>

\* The process is gone, with its goroutines and locks.
Ended(as) ==
  /\ phase' = as
  /\ attempt' = 0
  /\ cursor' = 0
  /\ flawed' = FALSE
  /\ req' = [r \in Slots |-> Idle]
  /\ ipMutex' = Nobody
  /\ daemon' = NoPass
  /\ UNCHANGED <<storeVars, ticker>>

\* The process dies, or somebody who wants it stopped kills it, or signals it
\* before main listens to signals.
Crash ==
  /\ phase \notin {"down", "stopped"}
  /\ crashes < MaxCrashes
  /\ crashes' = crashes + 1
  /\ Ended("stopped") \/ (phase # "draining" /\ Ended("down"))

\* SIGINT or SIGTERM: Shutdown closes the listener, so no request is accepted
\* any more, and waits for the handlers.
Signal ==
  /\ Serving
  /\ crashes < MaxCrashes
  /\ crashes' = crashes + 1
  /\ phase' = "draining"
  /\ UNCHANGED <<storeVars, serviceVars, daemonVars, attempt, cursor, flawed>>

\* Shutdown returns once no handler is left, and main ends; for the daemon,
\* wherever its pass is, nobody waits.
Exit ==
  /\ phase = "draining"
  /\ \A r \in Slots : At(r, "idle")
  /\ Ended("stopped")
  /\ UNCHANGED crashes

\* After 30 seconds Shutdown gives up: main closes the connections under the
\* handlers that are left, so they reach no further statement.
ShutdownTimesOut ==
  /\ phase = "draining"
  /\ \E r \in Slots : ~At(r, "idle")
  /\ Ended("stopped")
  /\ UNCHANGED crashes

Next ==
  \/ \E r \in Slots : ClientStep(r) \/ HandlerStep(r)
  \/ DaemonStep
  \/ MainStep
  \/ StartedAgain
  \/ ClockStep
  \/ Crash \/ Signal \/ Exit \/ ShutdownTimesOut

Spec == Init /\ [][Next]_vars

(***************************************************************************)
(* A handler that is not blocked goes on; a sync.Mutex that is released    *)
(* again and again is eventually granted to a waiter (Go's mutex hands     *)
(* itself to a waiter that has starved for a millisecond); main and the    *)
(* daemon go on, and a process that ended by itself is started again.      *)
(* Nothing is assumed of clients, the clock, crashes or signals, nor that  *)
(* a shutdown ever times out, nor that anybody starts a program again that *)
(* was told to stop.                                                       *)
(***************************************************************************)
Locking(r) == (LockSelect(r) \/ LockSave(r)) /\ Running
              /\ UNCHANGED <<daemonVars, startupVars, crashes>>

PassGoesOn == Running /\ PassStep /\ UNCHANGED <<serviceVars, startupVars, crashes>>

Fairness ==
  /\ \A r \in Slots : WF_vars(HandlerStep(r)) /\ SF_vars(Locking(r))
  /\ WF_vars(MainStep) /\ WF_vars(Exit)
  /\ WF_vars(PassGoesOn)

FairSpec == Spec /\ Fairness

----------------------------------------------------------------------------
(* Invariants *)

\* Every variable holds what its column, field or counter can hold; uptime in
\* particular never becomes negative.
TypeOK ==
  /\ servers \in [Servers -> ServerRow]
  /\ ips \in [Addrs -> IpRow]
  /\ now \in Nat
  /\ faults \in Nat
  /\ req \in [Slots -> Request]
  /\ ipMutex \in Slots \cup {Nobody}
  /\ ticker \in Ticker
  /\ daemon \in Daemon
  /\ phase \in Phase
  /\ attempt \in Nat
  /\ cursor \in Nat
  /\ flawed \in BOOLEAN
  /\ crashes \in Nat

\* The pool's two columns agree, and an address that is given away belongs to
\* a server that exists and carries this very address: allocateIPAddress and
\* deallocateIPAddress, whoever else runs and whatever fails or dies.  So no
\* server owns two addresses, and UNIQUE (server_id) never refuses a save.
PoolConsistent ==
  \A a \in Addrs :
    /\ ips[a].state = "allocated" <=> ips[a].server # NoServer
    /\ ips[a].server # NoServer =>
         LET owner == servers[ips[a].server]
         IN  owner.status # "absent" /\ owner.address = a

\* Nobody is charged for a server that has never been started: processBilling
\* bills only what ListServers returned, late as that may be.
UnstartedNotBilled ==
  \A s \in Servers : servers[s].status \in {"absent", "provisioning"} => servers[s].uptime = 0

\* The requests that work on server s.
Working(s) == {r \in Slots : req[r].id = s}

\* The requests whose append to the log of s is not yet followed by the limit.
LimitPending(s) == {r \in Slots : At(r, "enforce") /\ req[r].id = s}

\* A log outgrows its limit only by entries whose enforcement is still to
\* come or was lost to a failed statement or a crash, and by the two entries
\* nobody enforces it after: the one ProvisionNewServer writes, and the one a
\* restart writes (AppendServerLifecycleLogs, TerminateAllServers).
LogBounded ==
  \A s \in Servers :
    servers[s].logs <= LogLimit + Cardinality(LimitPending(s))
                       + faults + crashes * Cardinality(Slots) + 2

----------------------------------------------------------------------------
(* Action properties *)

\* Termination is final once the requests that had read the server before
\* are through: no request starts to work on a terminated server, and while
\* none is at work on it neither a request nor the daemon revives it.
TerminationFinalWhenQuiet ==
  [][\A s \in Servers : servers[s].status = "terminated" =>
       /\ Working(s)' \subseteq Working(s)
       /\ Working(s) = {} => servers'[s].status = "terminated"]_vars

\* A server is never stopped before it has been started: StopServer's check
\* holds of a status read long ago, and of the current one all the same.
StoppedOnlyAfterStart ==
  [][\A s \in Servers : servers[s].status \in {"absent", "provisioning"}
                          => servers'[s].status # "stopped"]_vars

\* The uptime of a server never shrinks, although updateServerUptime writes
\* a sum computed from a row read earlier in the pass.
UptimeNeverShrinks ==
  [][\A s \in Servers : servers'[s].uptime >= servers[s].uptime]_vars

\* When the statements of the startup itself succeed, TerminateAllServers lets
\* the program start to serve with every server terminated and with exactly the
\* usable addresses in the pool, all free, wherever the previous run died,
\* whatever failed in it, and whatever it or its reaper had leaked.
CleanStart ==
  [][~Running /\ Serving' /\ ~flawed =>
       /\ \A s \in Servers : servers'[s].status \notin Live
       /\ \A a \in Addrs : ips'[a] = IF a \in Usable THEN FreeIp ELSE NoIp]_vars

----------------------------------------------------------------------------
(* Liveness *)

\* A request that has been accepted is answered, or the process dies.
RequestsAnswered == \A r \in Slots : ~At(r, "idle") ~> At(r, "idle")

\* A pass of the daemon ends.
PassEnds == daemon.pc = "list" ~> daemon.pc = "idle"

\* A process that died at whatever statement, or gave up on the database, is
\* started again and gets to serve, unless somebody stops it on the way.
ServesAgain ==
  phase \notin {"serving", "draining", "stopped"} ~> phase \in {"serving", "stopped"}

\* A program that is told to stop does stop: every handler it waits for gets
\* through.
ShutdownEnds == phase = "draining" ~> phase = "stopped"
=============================================================================
