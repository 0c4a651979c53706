--------------------------- MODULE BillingDaemon ---------------------------
(***************************************************************************)
(* The billing and reaper daemon (internal/services/billing.go): one       *)
(* goroutine that wakes up on a ticker, lists the running servers, and for *)
(* each of them adds the time since last_status_update to the uptime it    *)
(* read in the list, and terminates the server when the sum is above 30    *)
(* minutes.                                                                *)
(*                                                                         *)
(* The daemon hands AppendServerLifecycleLogs a nil ServerService; the     *)
(* function returns an error at its first line, nobody looks at the error, *)
(* and no log entry is written.  So no step here touches the logs.         *)
(***************************************************************************)
EXTENDS Store

CONSTANTS
  Interval,    \* BILLING_DAEMON_INTERVAL
  ReapAfter,   \* 1800 seconds in the code
  MaxTime      \* where the clock stops (a bound)

ASSUME BillingAssumption ==
  /\ Interval \in Nat \ {0}
  /\ ReapAfter \in Nat
  /\ MaxTime \in Nat

VARIABLES
  ticker,   \* time.Ticker: the next tick, and the one its channel buffers
  daemon    \* the pass in progress: the servers left and what was listed

daemonVars == <<ticker, daemon>>

Listed == [uptime: Nat, since: Nat]

NotListed == [uptime |-> 0, since |-> 0]

NoPass == [pc |-> "idle", left |-> {}, list |-> [s \in Servers |-> NotListed]]

Ticker == [next: Nat, queued: 0 .. 1]

Daemon == [pc: {"idle", "list", "bill", "reap"},
           left: SUBSET Servers,
           list: [Servers -> Listed]]

\* NewTicker when Start is called.
NewTicker == [next |-> now + Interval, queued |-> 0]

DaemonInit ==
  /\ ticker = NewTicker
  /\ daemon = NoPass

(***************************************************************************)
(* Time passes.  The ticker's channel holds one tick; later ticks are      *)
(* dropped while the daemon is late.                                       *)
(***************************************************************************)
Tick ==
  /\ now < MaxTime
  /\ now' = now + 1
  /\ ticker' = IF now' >= ticker.next
                 THEN [next |-> now' + Interval, queued |-> 1]
                 ELSE ticker
  /\ UNCHANGED <<servers, ips, faults, daemon>>

\* Start receives a tick and calls processBilling.
StartPass ==
  /\ daemon.pc = "idle"
  /\ ticker.queued = 1
  /\ ticker' = [ticker EXCEPT !.queued = 0]
  /\ daemon' = [daemon EXCEPT !.pc = "list"]
  /\ UNCHANGED storeVars

Row_SinceListed(s) == [uptime |-> servers[s].uptime, since |-> now]

\* What ListServers returns of a running server.
Row(s) == [uptime |-> servers[s].uptime, since |-> servers[s].lastStatusUpdate]

\* The pass goes on with the servers left, or ends.
Continue(left) ==
  daemon' = IF left = {} THEN NoPass
                         ELSE [daemon EXCEPT !.pc = "bill", !.left = left]

ListRunning ==
  LET running == ListServers("running") IN
  /\ daemon.pc = "list"
  /\ \/ /\ daemon' = IF running = {} THEN NoPass
                     ELSE [pc |-> "bill", left |-> running,
                           list |-> [s \in Servers |->
                                       IF s \in running THEN Row(s) ELSE NotListed]]
        /\ UNCHANGED faults
     \/ Fault /\ daemon' = NoPass
  /\ UNCHANGED <<servers, ips, now, ticker>>

\* The list is in the order of created_at, newest first.
Current(s) == s \in daemon.left /\ \A t \in daemon.left : t <= s

NewUptime_Backwards(s) == daemon.list[s].uptime + (daemon.list[s].since - now)

NewUptime_Elapsed(s) == now - daemon.list[s].since

NewUptime(s) == daemon.list[s].uptime + (now - daemon.list[s].since)

\* The limit the reaper looks at.
Expired_AsListed(s) == daemon.list[s].uptime > ReapAfter

Expired(s) == NewUptime(s) > ReapAfter

\* What is left of the list after server s.
Rest_SameAgain(s) == daemon.left

Rest(s) == daemon.left \ {s}

(***************************************************************************)
(* UpdateServerUptime writes the sum, and last_status_update stays what it *)
(* was.  The sum is compared with the limit even when the write failed;    *)
(* the status compared with "terminated" is the one in the list, which is  *)
(* always "running".                                                       *)
(***************************************************************************)
BillServer ==
  /\ daemon.pc = "bill"
  /\ \E s \in Servers :
       /\ Current(s)
       /\ LET billed == UpdateServerUptime(s, NewUptime(s)) IN
            \/ servers' = billed /\ UNCHANGED faults
            \/ servers' \in {servers, billed} /\ Fault
       /\ IF Expired(s) THEN daemon' = [daemon EXCEPT !.pc = "reap"]
                        ELSE Continue(Rest(s))
  /\ UNCHANGED <<ips, now, ticker>>

\* The reaper: the status is overwritten whatever it is by now, and the
\* address of the server is not given back.
ReapServer ==
  /\ daemon.pc = "reap"
  /\ \E s \in Servers :
       /\ Current(s)
       /\ LET reaped == UpdateServerStatus(s, "terminated") IN
            \/ servers' = reaped /\ UNCHANGED faults
            \/ servers' \in {servers, reaped} /\ Fault
       /\ Continue(Rest(s))
  /\ UNCHANGED <<ips, now, ticker>>

PassStep == ListRunning \/ BillServer \/ ReapServer

DaemonNext == StartPass \/ PassStep
=============================================================================
