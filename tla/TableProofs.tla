---------------------------- MODULE TableProofs ----------------------------
(***************************************************************************)
(* What the program promises about the rows of the table servers, for any  *)
(* number of handlers, servers and addresses: they evolve as ServerTable   *)
(* says; termination is final once the requests that had read the server   *)
(* are through; and a pass of the daemon that comes to its end has charged *)
(* and reaped every server but those whose own statements failed.  All     *)
(* rest on the invariant and on the lemma NextInv of SystemProofs.         *)
(***************************************************************************)
EXTENDS StartupProofs, BillingFloor

----------------------------------------------------------------------------
(* The table servers implements the abstract table. *)

shownTable == [s \in Servers |-> Shown(s)]

LEMMA TableStutter ==
  ASSUME \A s \in Servers : /\ servers'[s].status = servers[s].status
                            /\ servers'[s].uptime = servers[s].uptime
  PROVE  [Table!TableNext]_shownTable
BY DEF shownTable, Shown

\* A statement that writes status or uptime of row s, and of no other.
OneRow(s) ==
  /\ \A t \in Servers \ {s} : /\ servers'[t].status = servers[t].status
                              /\ servers'[t].uptime = servers[t].uptime
  /\ \/ /\ NextId(s)
        /\ servers'[s].status = "provisioning"
        /\ servers'[s].uptime = 0
     \/ /\ servers[s].status # "absent"
        /\ servers'[s].status \in {"running", "stopped", "terminated"}
        /\ servers'[s].status = "stopped" => ~NeverStarted(s)
        /\ servers'[s].uptime = servers[s].uptime
     \/ /\ ~NeverStarted(s)
        /\ servers'[s].status = servers[s].status

LEMMA TableMoves ==
  ASSUME IInv, IInv', UptimeGrows, NEW s \in Servers, OneRow(s)
  PROVE  [Table!TableNext]_shownTable
<1>1. shownTable' \in [Servers -> Table!Row]
  BY DEF shownTable, Shown, IInv, TypeOK, ServerRow, Status, Table!Row, Table!Status
<1>2. \A t \in Servers : /\ shownTable[t] = [status |-> servers[t].status, uptime |-> servers[t].uptime]
                         /\ shownTable'[t] = [status |-> servers'[t].status, uptime |-> servers'[t].uptime]
  BY DEF shownTable, Shown
<1>3. \A t \in Servers \ {s} : shownTable'[t] = shownTable[t]
  BY <1>2 DEF OneRow
<1>4. servers[s].status \in Status \cup {"absent"} /\ servers'[s].uptime >= servers[s].uptime
  BY DEF IInv, TypeOK, ServerRow, UptimeGrows
<1>5. CASE NextId(s) /\ servers'[s].status = "provisioning" /\ servers'[s].uptime = 0
  <2>1. Table!Insert(s)
    BY <1>2, <1>5 DEF NextId, Table!Insert, Table!Present, shownTable
  <2> QED
    BY <1>1, <1>3, <2>1 DEF Table!Write, Table!TableNext, shownTable
<1>6. CASE /\ servers[s].status # "absent"
           /\ servers'[s].status \in {"running", "stopped", "terminated"}
           /\ servers'[s].status = "stopped" => ~NeverStarted(s)
           /\ servers'[s].uptime = servers[s].uptime
  <2>1. Table!ChangeStatus(s)
    BY <1>2, <1>6 DEF NeverStarted, Table!ChangeStatus, Table!Present, Table!Status, shownTable
  <2> QED
    BY <1>1, <1>3, <2>1 DEF Table!Write, Table!TableNext, shownTable
<1>7. CASE ~NeverStarted(s) /\ servers'[s].status = servers[s].status
  <2>1. Table!Charge(s)
    BY <1>2, <1>4, <1>7 DEF NeverStarted, Table!Charge, shownTable
  <2> QED
    BY <1>1, <1>3, <2>1 DEF Table!Write, Table!TableNext, shownTable
<1> QED
  BY <1>5, <1>6, <1>7 DEF OneRow

\* UpdateServerStatus, whoever issues it.
LEMMA TableStatus ==
  ASSUME IInv, IInv', UptimeGrows, NEW s \in Servers, NEW st \in {"running", "stopped", "terminated"},
         servers[s].status # "absent",
         st = "stopped" => ~NeverStarted(s),
         servers' = UpdateServerStatus(s, st)
  PROVE  [Table!TableNext]_shownTable
<1>1. \A t \in Servers : /\ servers'[t].status = IF t = s THEN st ELSE servers[t].status
                         /\ servers'[t].uptime = servers[t].uptime
  BY DEF UpdateServerStatus, IInv, TypeOK, ServerRow
<1>2. OneRow(s)
  BY <1>1 DEF OneRow
<1> QED
  BY <1>2, TableMoves

LEMMA TableUpdateStatus ==
  ASSUME IInv, IInv', UptimeGrows, NEW r \in Slots, UpdateStatus(r)
  PROVE  [Table!TableNext]_shownTable
<1>1. CASE servers' = servers
  BY <1>1, TableStutter
<1>2. CASE servers' = UpdateServerStatus(req[r].id, Target(req[r].op))
  <2>1. /\ req[r].id \in Servers
        /\ servers[req[r].id].status # "absent"
    BY DEF UpdateStatus, At, ActionPc, IInv, ActsOnRow
  <2>2. /\ Target(req[r].op) \in {"running", "stopped", "terminated"}
        /\ Target(req[r].op) = "stopped" => ~NeverStarted(req[r].id)
    BY DEF UpdateStatus, Target, IInv, StopsStarted
  <2> QED
    BY <1>2, <2>1, <2>2, TableStatus
<1> QED
  BY <1>1, <1>2 DEF UpdateStatus

LEMMA TableCreate ==
  ASSUME IInv, IInv', UptimeGrows, NEW r \in Slots, CreateServer(r)
  PROVE  [Table!TableNext]_shownTable
<1>1. PICK s \in Servers :
        NextId(s) /\ servers' \in {servers, CreateNewServer(s, req[r].ip)}
  BY DEF CreateServer
<1>2. CASE servers' = servers
  BY <1>2, TableStutter
<1>3. CASE servers' = CreateNewServer(s, req[r].ip)
  <2>1. OneRow(s)
    BY <1>1, <1>3 DEF CreateNewServer, Inserted, OneRow, IInv, TypeOK
  <2> QED
    BY <2>1, TableMoves
<1> QED
  BY <1>1, <1>2, <1>3

LEMMA TableLogs ==
  ASSUME IInv, NEW r \in Slots, ProvisionLog(r) \/ AppendLog(r) \/ EnforceLimit(r)
  PROVE  [Table!TableNext]_shownTable
<1>1. \A t \in Servers : /\ servers'[t].status = servers[t].status
                         /\ servers'[t].uptime = servers[t].uptime
  BY DEF ProvisionLog, AppendLog, EnforceLimit, AppendServerLifecycleLog,
         EnforceLifecycleLogsLimit, IInv, TypeOK, ServerRow
<1> QED
  BY <1>1, TableStutter

LEMMA TableBill ==
  ASSUME IInv, IInv', UptimeGrows, BillServer
  PROVE  [Table!TableNext]_shownTable
<1>1. PICK s \in Servers :
        Current(s) /\ servers' \in {servers, UpdateServerUptime(s, NewUptime(s))}
  BY DEF BillServer
<1>2. CASE servers' = servers
  BY <1>2, TableStutter
<1>3. CASE servers' = UpdateServerUptime(s, NewUptime(s))
  <2>1. ~NeverStarted(s)
    BY <1>1 DEF Current, IInv, BillsStarted
  <2>2. OneRow(s)
    BY <1>3, <2>1 DEF UpdateServerUptime, OneRow, IInv, TypeOK, ServerRow
  <2> QED
    BY <2>2, TableMoves
<1> QED
  BY <1>1, <1>2, <1>3

LEMMA TableReap ==
  ASSUME IInv, IInv', UptimeGrows, ReapServer
  PROVE  [Table!TableNext]_shownTable
<1>1. PICK s \in Servers :
        Current(s) /\ servers' \in {servers, UpdateServerStatus(s, "terminated")}
  BY DEF ReapServer
<1>2. servers[s].status # "absent"
  BY <1>1 DEF Current, IInv, BillsStarted, NeverStarted
<1> QED
  BY <1>1, <1>2, TableStutter, TableStatus

\* The startup ends all live servers at once.
LEMMA TableReset ==
  ASSUME IInv, MainStep
  PROVE  [Table!TableNext]_shownTable
<1>1. servers' = servers \/ servers' = TerminateAllServers
  BY DEF MainStep, BootStep, Launch, Start, Connect, TerminateAll, Truncate, Populate, Serve, storeVars
<1>2. CASE servers' = servers
  BY <1>2, TableStutter
<1>3. CASE servers' = TerminateAllServers
  <2>1. \A s \in Servers :
          /\ servers'[s].status = IF servers[s].status \in Live THEN "terminated"
                                                                ELSE servers[s].status
          /\ servers'[s].uptime = servers[s].uptime
    BY <1>3 DEF TerminateAllServers, IInv, TypeOK, ServerRow
  <2>2. shownTable' = [s \in Servers |->
          IF shownTable[s].status \in Live THEN [shownTable[s] EXCEPT !.status = "terminated"]
                                           ELSE shownTable[s]]
    BY <2>1 DEF shownTable, Shown
  <2> QED
    BY <2>2 DEF shownTable, Table!Reset, Table!Live, Live, Table!TableNext
<1> QED
  BY <1>1, <1>2, <1>3

LEMMA NextTable ==
  ASSUME IInv, [Next]_vars
  PROVE  [Table!TableNext]_shownTable
<1>1. IInv' /\ UptimeGrows
  BY NextInv
<1>2. CASE UNCHANGED servers
  BY <1>2, TableStutter
<1>3. ASSUME NEW r \in Slots, HandlerStep(r)
      PROVE  [Table!TableNext]_shownTable
  BY <1>1, <1>2, <1>3, TableUpdateStatus, TableCreate, TableLogs
     DEF HandlerStep, SlotStep, LockSelect, SelectIP, LockSave, SaveAllocatedIP, GetIP,
         Deallocate, Refetch, storeVars
<1>4. CASE DaemonStep
  BY <1>1, <1>2, <1>4, TableBill, TableReap
     DEF DaemonStep, DaemonNext, PassStep, StartPass, ListRunning, storeVars
<1>5. CASE MainStep
  BY <1>5, TableReset
<1>6. \/ UNCHANGED servers
      \/ \E r \in Slots : HandlerStep(r)
      \/ DaemonStep \/ MainStep
  BY DEF Next, ClientStep, Arrival, ProvisionRequest, ActionRequest, RejectedRequest,
         StartedAgain, StartAgain, Start, ClockStep, Tick, Crash, Exit, ShutdownTimesOut, Ended,
         Signal, vars, storeVars
<1> QED
  BY <1>2, <1>3, <1>4, <1>5, <1>6

\* Whatever the handlers, the daemon and the startup interleave and whatever
\* fails, rows appear one after the other and stay, uptimes grow, and no server
\* is charged or stopped before it was started, nor made new again.
THEOREM TableRefined == Spec => TableImplemented
<1>1. Init => Table!TableInit
  BY DEF Init, StoreInit, NoRow, Shown, Table!TableInit
<1>2. IInv /\ [Next]_vars => [Table!TableNext]_shownTable
  BY NextTable
<1> QED
  BY Invariant, <1>1, <1>2, PTL DEF Spec, TableImplemented, Table!TableSpec, shownTable

----------------------------------------------------------------------------
(* Who may bring a terminated server back. *)

\* A request turns to no terminated server.
IdsMove ==
  \A r \in Slots : \/ req'[r].id \in {req[r].id, NoServer}
                   \/ servers[req'[r].id].status # "terminated"

LEMMA GotoIds ==
  ASSUME TypeOK, NEW r \in Slots, NEW pc, Goto(r, pc)
  PROVE  IdsMove
BY DEF Goto, Idle, IdsMove, TypeOK, Request

LEMMA StepIds ==
  ASSUME TypeOK, NEW r \in Slots, SlotStep(r)
  PROVE  IdsMove
<1>1. CASE \E pc : Goto(r, pc)
  BY <1>1, GotoIds
<1>2. CASE \E a \in Addrs : req' = [req EXCEPT ![r].pc = "create", ![r].ip = a]
  BY <1>2 DEF IdsMove, TypeOK, Request
<1>3. CASE \E a \in Addrs : req' = [req EXCEPT ![r].pc = "dealloc", ![r].ip = a]
  BY <1>3 DEF IdsMove, TypeOK, Request
<1>4. CASE \E s \in Servers : NextId(s) /\ req' = [req EXCEPT ![r].pc = "lockSave", ![r].id = s]
  BY <1>4 DEF NextId, IdsMove, TypeOK, Request
<1> QED
  BY <1>1, <1>2, <1>3, <1>4
     DEF SlotStep, LockSelect, SelectIP, CreateServer, LockSave, SaveAllocatedIP, ProvisionLog,
         UpdateStatus, GetIP, GetIPAddressByServerID, Deallocate, AppendLog, EnforceLimit,
         Refetch, Ok, Fails

LEMMA ArrivalIds ==
  ASSUME TypeOK, NEW r \in Slots, Arrival(r)
  PROVE  IdsMove
<1>1. CASE ProvisionRequest(r)
  BY <1>1 DEF ProvisionRequest, IdsMove, TypeOK, Request
<1>2. ASSUME NEW op \in Ops, NEW s \in Servers, ActionRequest(r, op, s)
      PROVE  IdsMove
  <2>1. servers[s].status # "terminated"
    BY <1>2 DEF ActionRequest, Accepts, IsValidTransition, Transitions, Target, Live
  <2> QED
    BY <1>2, <2>1 DEF ActionRequest, IdsMove, TypeOK, Request
<1>3. CASE req' = req
  BY <1>3 DEF IdsMove
<1> QED
  BY <1>1, <1>2, <1>3 DEF Arrival, RejectedRequest, serviceVars

LEMMA NextIds ==
  ASSUME TypeOK, [Next]_vars
  PROVE  IdsMove
<1>1. CASE UNCHANGED req
  BY <1>1 DEF IdsMove
<1>2. CASE Ended("down") \/ Ended("stopped")
  BY <1>2 DEF Ended, Idle, IdsMove
<1> QED
  BY <1>1, <1>2, StepIds, ArrivalIds
     DEF Next, ClientStep, HandlerStep, DaemonStep, MainStep, StartedAgain, ClockStep, Crash,
         Exit, ShutdownTimesOut, Signal, vars, serviceVars

\* Only the request that works on a terminated server revives it.
LEMMA RevivedByRequest ==
  ASSUME IInv, [Next]_vars, NEW s \in Servers, servers[s].status = "terminated",
         \A r \in Slots : req[r].id # s
  PROVE  servers'[s].status = "terminated"
<1>1. CASE UNCHANGED servers
  BY <1>1
<1>2. ASSUME NEW r \in Slots, HandlerStep(r)
      PROVE  servers'[s].status = "terminated"
  <2>1. CASE CreateServer(r)
    BY <2>1 DEF CreateServer, NextId, CreateNewServer, IInv, TypeOK
  <2>2. CASE UpdateStatus(r)
    BY <2>2 DEF UpdateStatus, UpdateServerStatus, IInv, TypeOK
  <2>3. CASE ProvisionLog(r) \/ AppendLog(r) \/ EnforceLimit(r)
    BY <2>3 DEF ProvisionLog, AppendLog, EnforceLimit, AppendServerLifecycleLog,
                EnforceLifecycleLogsLimit, IInv, TypeOK, ServerRow
  <2> QED
    BY <1>1, <1>2, <2>1, <2>2, <2>3
       DEF HandlerStep, SlotStep, LockSelect, SelectIP, LockSave, SaveAllocatedIP, GetIP,
           Deallocate, Refetch, storeVars
<1>3. CASE DaemonStep
  <2>1. CASE BillServer
    BY <2>1 DEF BillServer, UpdateServerUptime, IInv, TypeOK, ServerRow
  <2>2. CASE ReapServer
    BY <2>2 DEF ReapServer, UpdateServerStatus, IInv, TypeOK, ServerRow
  <2> QED
    BY <1>1, <1>3, <2>1, <2>2 DEF DaemonStep, DaemonNext, PassStep, StartPass, ListRunning, storeVars
<1>4. CASE MainStep
  <2>1. servers' = servers \/ servers' = TerminateAllServers
    BY <1>4 DEF MainStep, BootStep, Launch, Start, Connect, TerminateAll, Truncate, Populate, Serve, storeVars
  <2> QED
    BY <2>1 DEF TerminateAllServers, Live
<1> QED
  BY <1>1, <1>2, <1>3, <1>4
     DEF Next, ClientStep, Arrival, ProvisionRequest, ActionRequest, RejectedRequest,
         StartedAgain, StartAgain, Start, ClockStep, Tick, Crash, Exit, ShutdownTimesOut, Ended,
         Signal, vars, storeVars

\* Once a server is terminated no request turns to it any more, and when those
\* that had read it before are through it stays terminated, whatever the daemon
\* and the startup do.
THEOREM TerminationFinal == Spec => TerminationFinalWhenQuiet
<1>1. IInv /\ [Next]_vars =>
        [\A s \in Servers : servers[s].status = "terminated" =>
            /\ Working(s)' \subseteq Working(s)
            /\ Working(s) = {} => servers'[s].status = "terminated"]_vars
  <2> SUFFICES ASSUME IInv, [Next]_vars, NEW s \in Servers, servers[s].status = "terminated"
               PROVE  /\ Working(s)' \subseteq Working(s)
                      /\ Working(s) = {} => servers'[s].status = "terminated"
    OBVIOUS
  <2>1. Working(s)' \subseteq Working(s)
    <3>1. IdsMove
      BY NextIds DEF IInv
    <3> QED
      BY <3>1, StoreConstants DEF IdsMove, Working
  <2>2. Working(s) = {} => servers'[s].status = "terminated"
    BY RevivedByRequest DEF Working
  <2> QED
    BY <2>1, <2>2
<1> QED
  BY Invariant, <1>1, PTL DEF Spec, TerminationFinalWhenQuiet

----------------------------------------------------------------------------
(* The bill from below. *)

\* What the pass still has to write for a server; what it is reaping it has
\* billed already.
ToBill(s) == s \in daemon.left /\ ~(daemon.pc = "reap" /\ Current(s))

\* The server has been charged for what was due, or is going to be.
Charged(s, due) ==
  \/ servers[s].uptime >= due
  \/ ToBill(s) /\ daemon.list[s].uptime + (now - daemon.list[s].since) >= due

\* The server is not above the limit, or the pass will still look at it, or it
\* runs by a status that is newer than the list.
Reaped(s, t) ==
  servers[s].status = "running" /\ servers[s].uptime > ReapAfter
    => s \in daemon.left \/ servers[s].lastStatusUpdate >= t

NoteInv ==
  /\ note \in Note
  /\ note.listed <= now
  /\ daemon.pc \in {"bill", "reap"} =>
       \A s \in Servers : /\ s \in note.unbilled \/ Charged(s, note.due[s])
                          /\ s \in note.unreaped \/ Reaped(s, note.listed)

\* What a statement can do to the rows.
LEMMA WritesRows ==
  ASSUME IInv, [Next]_vars
  PROVE  \/ servers' = servers
         \/ \E s \in Servers :
              \/ \E a : servers' = CreateNewServer(s, a)
              \/ \E status : servers' = UpdateServerStatus(s, status)
              \/ \E uptime : servers' = UpdateServerUptime(s, uptime)
              \/ servers' = AppendServerLifecycleLog(s)
              \/ servers' = EnforceLifecycleLogsLimit(s)
         \/ servers' = TerminateAllServers
<1>1. ASSUME NEW r \in Slots, CreateServer(r)
      PROVE  \E s \in Servers : servers' = servers \/ servers' = CreateNewServer(s, req[r].ip)
  BY <1>1 DEF CreateServer
<1>2. ASSUME NEW r \in Slots, UpdateStatus(r) \/ ProvisionLog(r) \/ AppendLog(r) \/ EnforceLimit(r)
      PROVE  /\ req[r].id \in Servers
             /\ \/ servers' = servers
                \/ servers' = UpdateServerStatus(req[r].id, Target(req[r].op))
                \/ servers' = AppendServerLifecycleLog(req[r].id)
                \/ servers' = EnforceLifecycleLogsLimit(req[r].id)
  BY <1>2 DEF UpdateStatus, ProvisionLog, AppendLog, EnforceLimit, At, IInv, ActsOnRow, ActionPc
<1>3. ASSUME BillServer
      PROVE  \E s \in Servers : servers' = servers \/ servers' = UpdateServerUptime(s, NewUptime(s))
  BY <1>3 DEF BillServer
<1>4. ASSUME ReapServer
      PROVE  \E s \in Servers : servers' = servers \/ servers' = UpdateServerStatus(s, "terminated")
  BY <1>4 DEF ReapServer
<1>5. ASSUME MainStep
      PROVE  servers' = servers \/ servers' = TerminateAllServers
  BY <1>5 DEF MainStep, BootStep, Launch, Start, Connect, TerminateAll, Truncate, Populate, Serve, storeVars
<1>6. \/ servers' = servers
      \/ \E r \in Slots : \/ CreateServer(r) \/ UpdateStatus(r) \/ ProvisionLog(r)
                          \/ AppendLog(r) \/ EnforceLimit(r)
      \/ BillServer \/ ReapServer \/ MainStep
  BY DEF Next, ClientStep, Arrival, ProvisionRequest, ActionRequest, RejectedRequest, HandlerStep,
         SlotStep, LockSelect, SelectIP, LockSave, SaveAllocatedIP, GetIP, Deallocate, Refetch,
         DaemonStep, DaemonNext, PassStep, StartPass, ListRunning, StartedAgain, StartAgain, Start,
         ClockStep, Tick, Crash, Exit, ShutdownTimesOut, Ended, Signal, vars, storeVars
<1> QED
  BY <1>1, <1>2, <1>3, <1>4, <1>5, <1>6

\* A server runs since its status was written.
LEMMA StintsStart ==
  ASSUME IInv, [Next]_vars, NEW s \in Servers, servers'[s].status = "running"
  PROVE  \/ servers'[s].lastStatusUpdate = now
         \/ /\ servers[s].status = "running"
            /\ servers'[s].lastStatusUpdate = servers[s].lastStatusUpdate
<1> USE DEF IInv, TypeOK, ServerRow
<1>1. ASSUME NEW t \in Servers, NEW a, servers' = CreateNewServer(t, a)
      PROVE  servers'[s].lastStatusUpdate = now \/ servers'[s] = servers[s]
  BY <1>1 DEF CreateNewServer, Inserted
<1>2. ASSUME NEW t \in Servers, NEW status, servers' = UpdateServerStatus(t, status)
      PROVE  servers'[s].lastStatusUpdate = now \/ servers'[s] = servers[s]
  BY <1>2 DEF UpdateServerStatus
<1>3. ASSUME NEW t \in Servers, NEW uptime, servers' = UpdateServerUptime(t, uptime)
      PROVE  /\ servers'[s].status = servers[s].status
             /\ servers'[s].lastStatusUpdate = servers[s].lastStatusUpdate
  BY <1>3 DEF UpdateServerUptime
<1>4. ASSUME NEW t \in Servers,
             servers' = AppendServerLifecycleLog(t) \/ servers' = EnforceLifecycleLogsLimit(t)
      PROVE  /\ servers'[s].status = servers[s].status
             /\ servers'[s].lastStatusUpdate = servers[s].lastStatusUpdate
  BY <1>4 DEF AppendServerLifecycleLog, EnforceLifecycleLogsLimit
<1>5. ASSUME servers' = TerminateAllServers
      PROVE  servers'[s] = servers[s]
  BY <1>5 DEF TerminateAllServers, Live
<1> QED
  BY <1>1, <1>2, <1>3, <1>4, <1>5, WritesRows

\* The numbers the steps below compare.
LEMMA Numbers ==
  ASSUME IInv, NEW s \in Servers
  PROVE  /\ servers[s].uptime \in Nat /\ servers[s].lastStatusUpdate \in Nat
         /\ daemon.list[s].uptime \in Nat /\ daemon.list[s].since \in Nat
         /\ servers[s].lastStatusUpdate <= now /\ daemon.list[s].since <= now
         /\ now \in Nat /\ faults \in Nat
BY DEF IInv, TypeOK, TimesPast, ServerRow, Daemon, Listed

\* Time goes on.
LEMMA TimePasses ==
  ASSUME IInv, [Next]_vars
  PROVE  now' \in Nat /\ now' >= now
<1>1. now' = now \/ now' = now + 1
  BY DEF Next, ClientStep, Arrival, ProvisionRequest, ActionRequest, RejectedRequest,
         HandlerStep, SlotStep, LockSelect, SelectIP, CreateServer, LockSave, SaveAllocatedIP,
         ProvisionLog, UpdateStatus, GetIP, Deallocate, AppendLog, EnforceLimit, Refetch,
         DaemonStep, DaemonNext, PassStep, StartPass, ListRunning, BillServer, ReapServer,
         MainStep, BootStep, Launch, Start, Connect, TerminateAll, Truncate, Populate, Serve,
         StartedAgain, StartAgain, ClockStep, Tick, Crash, Exit, ShutdownTimesOut, Ended, Signal,
         vars, storeVars
<1> QED
  BY <1>1 DEF IInv, TypeOK

\* The list has a first server only.
LEMMA CurrentOne ==
  ASSUME NEW s \in Servers, NEW u \in Servers, Current(s), Current(u)
  PROVE  s = u
<1>1. s <= u /\ u <= s
  BY DEF Current
<1> QED
  BY <1>1, StoreConstants

\* A pass that goes on with the servers left, or comes to its end.
LEMMA PassGoes ==
  ASSUME daemon \in Daemon, NEW left, Continue(left)
  PROVE  \/ left = {} /\ daemon'.pc = "idle" /\ daemon'.left = {}
         \/ daemon'.pc = "bill" /\ daemon'.left = left /\ daemon'.list = daemon.list
<1>1. NoPass.pc = "idle" /\ NoPass.left = {}
  BY DEF NoPass
<1>2. LET d == [daemon EXCEPT !.pc = "bill", !.left = left]
      IN  d.pc = "bill" /\ d.left = left /\ d.list = daemon.list
  BY DEF Daemon
<1> QED
  BY <1>1, <1>2 DEF Continue

\* When it goes on, the others stay on the list, still to be billed if they were.
LEMMA OthersStay ==
  ASSUME IInv, NEW u \in Servers, Current(u), Continue(Rest(u)),
         NEW s \in Servers, s # u, s \in daemon.left
  PROVE  daemon'.pc = "bill" /\ daemon'.list = daemon.list /\ s \in daemon'.left /\ ToBill(s)'
<1>1. daemon'.pc = "bill" /\ daemon'.list = daemon.list /\ daemon'.left = Rest(u)
  BY PassGoes DEF Rest, IInv, TypeOK
<1> QED
  BY <1>1 DEF Rest, ToBill

\* Of the steps that touch the pass only its own end it with the process running,
\* and only those write an uptime.
LEMMA PassMoves ==
  ASSUME IInv, [Next]_vars
  PROVE  \/ daemon' = daemon /\ UptimeKept
         \/ daemon'.pc = "idle" /\ ~Running'
         \/ daemon.pc = "idle" /\ daemon'.pc = "list"
         \/ ListRunning \/ BillServer \/ ReapServer
<1>1. ASSUME StartPass
      PROVE  daemon.pc = "idle" /\ daemon'.pc = "list"
  BY <1>1 DEF StartPass, IInv, TypeOK, Daemon
<1>2. ASSUME Ended("down") \/ Ended("stopped")
      PROVE  daemon'.pc = "idle" /\ ~Running'
  BY <1>2 DEF Ended, Running, NoPass
<1>3. ASSUME NEW r \in Slots, HandlerStep(r)
      PROVE  daemon' = daemon /\ UptimeKept
  BY <1>3, LockSelectInv, SelectIPInv, CreateServerInv, LockSaveInv, SaveAllocatedIPInv,
     ProvisionLogInv, UpdateStatusInv, GetIPInv, DeallocateInv, AppendLogInv,
     EnforceLimitInv, RefetchInv DEF HandlerStep, SlotStep, daemonVars
<1>4. ASSUME NEW r \in Slots, ClientStep(r)
      PROVE  daemon' = daemon /\ UptimeKept
  BY <1>4, ArrivalInv DEF ClientStep, daemonVars
<1>5. ASSUME MainStep
      PROVE  daemon' = daemon /\ UptimeKept
  <2>1. servers' = servers \/ servers' = TerminateAllServers
    BY <1>5 DEF MainStep, BootStep, Launch, Start, Connect, TerminateAll, Truncate, Populate, Serve,
                storeVars
  <2> QED
    BY <1>5, <2>1, RowsUnchanged, ResetEvolves DEF MainStep
<1>6. ASSUME StartedAgain \/ ClockStep \/ Signal \/ UNCHANGED vars
      PROVE  daemon' = daemon /\ UptimeKept
  BY <1>6, RowsUnchanged DEF StartedAgain, StartAgain, Start, ClockStep, Tick, Signal, vars,
                             storeVars, daemonVars
<1> QED
  BY <1>1, <1>2, <1>3, <1>4, <1>5, <1>6
     DEF Next, DaemonStep, DaemonNext, PassStep, Crash, Exit, ShutdownTimesOut

\* A step at which the pass goes on after its list, or comes to its end.
PassOn == daemon'.pc \in {"bill", "reap"} \/ PassDone

\* The list: every running server is going to be charged for the time until now,
\* and those that are not running owe nothing.
LEMMA ListNotes ==
  ASSUME IInv, note \in Note, ListRunning, NEW s \in Servers,
         NEW d \in Nat, d = Due[s], NEW t \in Nat, t = ListedAt
  PROVE  (s \in Unbilled \/ Charged(s, d)') /\ (s \in Unreaped \/ Reaped(s, t)')
<1> DEFINE running == ListServers("running")
<1>1. /\ daemon.pc = "list"
      /\ servers' = servers
      /\ now' = now
  BY DEF ListRunning
<1>2. d = Reached(s) /\ t = now
  BY <1>1 DEF Due, ListedAt
<1>3. CASE Fault /\ daemon' = NoPass
  <2>1. faults' # faults /\ daemon' # daemon
    BY <1>1, <1>3 DEF Fault, NoPass, IInv, TypeOK
  <2> QED
    BY <1>1, <2>1 DEF Unbilled, Unreaped, FailsFor
<1>4. CASE daemon' = IF running = {} THEN NoPass
                     ELSE [pc |-> "bill", left |-> running,
                           list |-> [u \in Servers |-> IF u \in running THEN Row(u) ELSE NotListed]]
  <2>1. CASE servers[s].status = "running"
    <3>1. s \in running
      BY <2>1 DEF ListServers
    <3>2. /\ daemon'.pc = "bill"
          /\ s \in daemon'.left
          /\ daemon'.list[s].uptime = servers[s].uptime
          /\ daemon'.list[s].since = servers[s].lastStatusUpdate
      BY <1>4, <3>1 DEF Row
    <3> QED
      BY <1>1, <1>2, <2>1, <3>2, Numbers DEF Reached, Charged, ToBill, Reaped
  <2>2. CASE servers[s].status # "running"
    BY <1>1, <1>2, <2>2, Numbers DEF Reached, Charged, Reaped
  <2> QED
    BY <2>1, <2>2
<1> QED
  BY <1>3, <1>4 DEF ListRunning

\* A statement of the pass on server u, which fails or not.
LEMMA FailureNoted ==
  ASSUME IInv, NEW u \in Servers, Current(u), Fault, daemon' # daemon
  PROVE  /\ daemon.pc = "bill" => u \in Unbilled
         /\ daemon.pc = "reap" => u \in Unreaped
BY DEF Fault, Unbilled, Unreaped, FailsFor, IInv, TypeOK

\* A server that is not charged by the step, and that the pass does not drop.
LEMMA RowReaped ==
  ASSUME IInv, [Next]_vars, NEW s \in Servers, NEW t \in 0 .. now, Reaped(s, t),
         servers'[s].uptime = servers[s].uptime, s \in daemon.left => s \in daemon'.left
  PROVE  Reaped(s, t)'
<1> SUFFICES ASSUME servers'[s].status = "running", servers'[s].uptime > ReapAfter
             PROVE  s \in daemon'.left \/ servers'[s].lastStatusUpdate >= t
  BY DEF Reaped
<1>1. CASE servers'[s].lastStatusUpdate = now
  BY <1>1, Numbers
<1>2. CASE /\ servers[s].status = "running"
           /\ servers'[s].lastStatusUpdate = servers[s].lastStatusUpdate
  BY <1>2 DEF Reaped
<1> QED
  BY <1>1, <1>2, StintsStart

LEMMA BillNotes ==
  ASSUME IInv, IInv', UptimeGrows, [Next]_vars, BillServer, NEW s \in Servers,
         NEW d \in Nat, NEW t \in 0 .. now,
         s \in note.unbilled \/ Charged(s, d), s \in note.unreaped \/ Reaped(s, t)
  PROVE  (s \in Unbilled \/ Charged(s, d)') /\ (s \in Unreaped \/ Reaped(s, t)')
<1>1. PICK u \in Servers :
        /\ Current(u)
        /\ \/ servers' = UpdateServerUptime(u, NewUptime(u))
           \/ servers' \in {servers, UpdateServerUptime(u, NewUptime(u))} /\ Fault
        /\ IF Expired(u) THEN daemon' = [daemon EXCEPT !.pc = "reap"] ELSE Continue(Rest(u))
  BY DEF BillServer
<1>2. daemon.pc = "bill" /\ now' = now /\ u \in daemon.left
  BY <1>1 DEF BillServer, Current
<1>3. /\ servers[s].uptime \in Nat /\ servers'[s].uptime \in Nat
      /\ servers'[s].uptime >= servers[s].uptime
      /\ servers'[s].uptime = IF s = u /\ servers' # servers THEN NewUptime(u) ELSE servers[s].uptime
  BY <1>1 DEF UptimeGrows, UpdateServerUptime, IInv, TypeOK, ServerRow
<1>4. CASE Expired(u)
  <2>1. daemon'.pc = "reap" /\ daemon'.left = daemon.left /\ daemon'.list = daemon.list
    BY <1>1, <1>4 DEF IInv, TypeOK, Daemon
  <2>2. daemon' # daemon
    BY <1>2, <2>1
  <2>3. Current(u)' /\ (Current(s)' => s = u)
    BY <1>1, <2>1, CurrentOne DEF Current
  <2>4. s \in Unbilled \/ Charged(s, d)'
    <3>1. CASE s \in note.unbilled
      BY <3>1 DEF Unbilled
    <3>2. CASE servers[s].uptime >= d
      BY <1>3, <3>2 DEF Charged
    <3>3. CASE ToBill(s) /\ daemon.list[s].uptime + (now - daemon.list[s].since) >= d /\ s # u
      BY <1>2, <2>1, <2>3, <3>3 DEF Charged, ToBill
    <3>4. CASE /\ daemon.list[s].uptime + (now - daemon.list[s].since) >= d
               /\ s = u /\ servers' = UpdateServerUptime(u, NewUptime(u))
      <4>1. servers'[s].uptime = NewUptime(s)
        BY <3>4 DEF UpdateServerUptime, IInv, TypeOK
      <4> QED
        BY <3>4, <4>1 DEF Charged, NewUptime
    <3>5. CASE s = u /\ Fault
      BY <1>1, <1>2, <2>2, <3>5, FailureNoted
    <3> QED
      BY <1>1, <3>1, <3>2, <3>3, <3>4, <3>5 DEF Charged
  <2>5. s \in Unreaped \/ Reaped(s, t)'
    <3>1. CASE s = u
      BY <1>2, <2>1, <3>1 DEF Reaped
    <3>2. CASE s \in note.unreaped
      BY <3>2 DEF Unreaped
    <3>3. CASE s # u /\ Reaped(s, t)
      BY <1>3, <2>1, <3>3, RowReaped
    <3> QED
      BY <3>1, <3>2, <3>3
  <2> QED
    BY <2>4, <2>5
<1>5. CASE ~Expired(u)
  <2>1. daemon' # daemon
    BY <1>1, <1>2, <1>5, PassGoes DEF Rest, IInv, TypeOK
  <2>2. s # u /\ s \in daemon.left =>
          daemon'.list = daemon.list /\ s \in daemon'.left /\ ToBill(s)'
    BY <1>1, <1>5, OthersStay
  <2>3. s \in Unbilled \/ Charged(s, d)'
    <3>1. CASE s \in note.unbilled
      BY <3>1 DEF Unbilled
    <3>2. CASE servers[s].uptime >= d
      BY <1>3, <3>2 DEF Charged
    <3>3. CASE ToBill(s) /\ daemon.list[s].uptime + (now - daemon.list[s].since) >= d /\ s # u
      BY <1>2, <2>2, <3>3 DEF Charged, ToBill
    <3>4. CASE /\ daemon.list[s].uptime + (now - daemon.list[s].since) >= d
               /\ s = u /\ servers' = UpdateServerUptime(u, NewUptime(u))
      <4>1. servers'[s].uptime = NewUptime(s)
        BY <3>4 DEF UpdateServerUptime, IInv, TypeOK
      <4> QED
        BY <3>4, <4>1 DEF Charged, NewUptime
    <3>5. CASE s = u /\ Fault
      BY <1>1, <1>2, <2>1, <3>5, FailureNoted
    <3> QED
      BY <1>1, <3>1, <3>2, <3>3, <3>4, <3>5 DEF Charged
  <2>4. s \in Unreaped \/ Reaped(s, t)'
    <3>1. CASE s = u
      <4>1. NewUptime(s) <= ReapAfter /\ servers[s].uptime <= NewUptime(s)
        BY <1>2, <1>5, <3>1, Numbers, BillingAssumption DEF Expired, NewUptime, IInv, BillsForward
      <4>2. NewUptime(s) \in Int
        BY Numbers DEF NewUptime
      <4>3. servers'[s].uptime <= ReapAfter
        BY <1>3, <3>1, <4>1, <4>2, BillingAssumption
      <4> QED
        BY <1>3, <4>3, BillingAssumption DEF Reaped
    <3>2. CASE s \in note.unreaped
      BY <3>2 DEF Unreaped
    <3>3. CASE s # u /\ Reaped(s, t)
      BY <1>3, <2>2, <3>3, RowReaped
    <3> QED
      BY <3>1, <3>2, <3>3
  <2> QED
    BY <2>3, <2>4
<1> QED
  BY <1>4, <1>5

LEMMA ReapNotes ==
  ASSUME IInv, IInv', UptimeGrows, [Next]_vars, ReapServer, NEW s \in Servers,
         NEW d \in Nat, NEW t \in 0 .. now,
         s \in note.unbilled \/ Charged(s, d), s \in note.unreaped \/ Reaped(s, t)
  PROVE  (s \in Unbilled \/ Charged(s, d)') /\ (s \in Unreaped \/ Reaped(s, t)')
<1>1. PICK u \in Servers :
        /\ Current(u)
        /\ \/ servers' = UpdateServerStatus(u, "terminated")
           \/ servers' \in {servers, UpdateServerStatus(u, "terminated")} /\ Fault
        /\ Continue(Rest(u))
  BY DEF ReapServer
<1>2. daemon.pc = "reap" /\ now' = now /\ u \in daemon.left
  BY <1>1 DEF ReapServer, Current
<1>3. /\ servers[s].uptime \in Nat
      /\ servers'[s].uptime = servers[s].uptime
  BY <1>1 DEF UpdateServerStatus, IInv, TypeOK, ServerRow
<1>4. daemon' # daemon
  BY <1>1, <1>2, PassGoes DEF Rest, IInv, TypeOK
<1>5. s # u /\ s \in daemon.left =>
        daemon'.list = daemon.list /\ s \in daemon'.left /\ ToBill(s)'
  BY <1>1, OthersStay
<1>6. s \in Unbilled \/ Charged(s, d)'
  <2>1. CASE s \in note.unbilled
    BY <2>1 DEF Unbilled
  <2>2. CASE servers[s].uptime >= d
    BY <1>3, <2>2 DEF Charged
  <2>3. CASE ToBill(s) /\ daemon.list[s].uptime + (now - daemon.list[s].since) >= d
    <3>1. s # u /\ s \in daemon.left
      BY <1>1, <1>2, <2>3 DEF ToBill
    <3> QED
      BY <1>2, <1>5, <2>3, <3>1 DEF Charged
  <2> QED
    BY <2>1, <2>2, <2>3 DEF Charged
<1>7. s \in Unreaped \/ Reaped(s, t)'
  <2>1. CASE s = u /\ servers' = UpdateServerStatus(u, "terminated")
    BY <2>1 DEF Reaped, UpdateServerStatus, IInv, TypeOK
  <2>2. CASE s = u /\ Fault
    BY <1>1, <1>2, <1>4, <2>2, FailureNoted
  <2>3. CASE s \in note.unreaped
    BY <2>3 DEF Unreaped
  <2>4. CASE s # u /\ Reaped(s, t)
    BY <1>3, <1>5, <2>4, RowReaped
  <2> QED
    BY <1>1, <2>1, <2>2, <2>3, <2>4
<1> QED
  BY <1>6, <1>7

\* While the pass stands still.
LEMMA OthersNote ==
  ASSUME IInv, IInv', UptimeGrows, [Next]_vars, daemon' = daemon, UptimeKept, NEW s \in Servers,
         NEW d \in Nat, NEW t \in 0 .. now,
         s \in note.unbilled \/ Charged(s, d), s \in note.unreaped \/ Reaped(s, t)
  PROVE  (s \in Unbilled \/ Charged(s, d)') /\ (s \in Unreaped \/ Reaped(s, t)')
<1>1. servers'[s].uptime = servers[s].uptime /\ servers[s].uptime \in Nat
  BY Numbers DEF UptimeKept
<1>2. /\ now \in Nat /\ now' \in Nat /\ now' >= now
      /\ daemon.list[s].uptime \in Nat /\ daemon.list[s].since \in Nat
  BY TimePasses, Numbers
<1>3. Charged(s, d) => Charged(s, d)'
  BY <1>1, <1>2 DEF Charged, ToBill, Current
<1>4. Reaped(s, t) => Reaped(s, t)'
  BY <1>1, RowReaped
<1> QED
  BY <1>3, <1>4 DEF Unbilled, Unreaped

\* The step that goes on with a pass, or ends it, keeps what the note says.
LEMMA StepNotes ==
  ASSUME IInv, NoteInv, [Next]_vars, PassOn, NEW s \in Servers,
         NEW d \in Nat, d = Due[s], NEW t \in 0 .. now, t = ListedAt
  PROVE  (s \in Unbilled \/ Charged(s, d)') /\ (s \in Unreaped \/ Reaped(s, t)')
<1>1. IInv' /\ UptimeGrows
  BY NextInv
<1>2. CASE ListRunning
  BY <1>2, ListNotes DEF NoteInv, IInv, TypeOK
<1>3. CASE daemon.pc \in {"bill", "reap"}
  <2>1. d = note.due[s] /\ t = note.listed
    BY <1>3 DEF Due, ListedAt
  <2>2. (s \in note.unbilled \/ Charged(s, d)) /\ (s \in note.unreaped \/ Reaped(s, t))
    BY <1>3, <2>1 DEF NoteInv
  <2> QED
    BY <1>1, <1>2, <1>3, <2>2, BillNotes, ReapNotes, OthersNote, PassMoves DEF PassOn, PassDone
<1> QED
  BY <1>2, <1>3, PassMoves DEF PassOn, PassDone, BillServer, ReapServer

\* What is due, and when it was listed, is of the past.
LEMMA NoteTypes ==
  ASSUME IInv, NoteInv
  PROVE  /\ Due \in [Servers -> Nat]
         /\ ListedAt \in 0 .. now
         /\ Unbilled \in SUBSET Servers /\ Unreaped \in SUBSET Servers
<1>1. \A s \in Servers : Reached(s) \in Nat
  BY Numbers DEF Reached
<1>2. Due \in [Servers -> Nat]
  BY <1>1 DEF Due, NoteInv, Note
<1>3. ListedAt \in 0 .. now
  BY DEF ListedAt, NoteInv, Note, IInv, TypeOK
<1> QED
  BY <1>2, <1>3 DEF Unbilled, Unreaped, NoteInv, Note

LEMMA NoteNext ==
  ASSUME IInv, NoteInv, FloorNext
  PROVE  NoteInv'
<1>1. [Next]_vars /\ PassNoted
  BY DEF FloorNext
<1>2. now \in Nat /\ now' \in Nat /\ now' >= now
  BY <1>1, TimePasses DEF IInv, TypeOK
<1>3. CASE daemon'.pc \in {"idle", "list"}
  <2>1. note' = NoNote
    BY <1>1, <1>3 DEF PassNoted
  <2>2. NoNote \in Note /\ NoNote.listed = 0
    BY DEF NoNote, Note
  <2> QED
    BY <1>2, <1>3, <2>1, <2>2 DEF NoteInv
<1>4. CASE daemon'.pc \notin {"idle", "list"}
  <2>1. note' = [listed |-> ListedAt, due |-> Due, unbilled |-> Unbilled, unreaped |-> Unreaped]
    BY <1>1, <1>4 DEF PassNoted
  <2>2. note' \in Note /\ note'.listed <= now'
    BY <1>2, <2>1, NoteTypes DEF Note
  <2>3. ASSUME NEW s \in Servers, daemon'.pc \in {"bill", "reap"}
        PROVE  /\ s \in note'.unbilled \/ Charged(s, note.due[s])'
               /\ s \in note'.unreaped \/ Reaped(s, note.listed)'
    <3>1. PICK d \in Nat : d = Due[s]
      BY NoteTypes
    <3>2. PICK t \in 0 .. now : t = ListedAt
      BY NoteTypes
    <3>3. (s \in Unbilled \/ Charged(s, d)') /\ (s \in Unreaped \/ Reaped(s, t)')
      BY <1>1, <2>3, <3>1, <3>2, StepNotes DEF PassOn
    <3>4. note'.due[s] = d /\ note'.listed = t
      BY <2>1, <3>1, <3>2
    <3> QED
      BY <2>1, <3>3, <3>4 DEF Charged, Reaped
  <2> QED
    BY <2>2, <2>3 DEF NoteInv
<1> QED
  BY <1>3, <1>4

\* What it says when the pass is over.
LEMMA PassOver ==
  ASSUME IInv, NoteInv, FloorNext, PassDone, NEW s \in Servers
  PROVE  /\ s \in Unbilled \/ servers'[s].uptime >= Due[s]
         /\ \/ s \in Unreaped
            \/ servers'[s].status = "running" /\ servers'[s].uptime > ReapAfter
                 => servers'[s].lastStatusUpdate >= ListedAt
<1>1. [Next]_vars
  BY DEF FloorNext
<1>2. PICK d \in Nat : d = Due[s]
  BY NoteTypes
<1>3. PICK t \in 0 .. now : t = ListedAt
  BY NoteTypes
<1>4. (s \in Unbilled \/ Charged(s, d)') /\ (s \in Unreaped \/ Reaped(s, t)')
  BY <1>1, <1>2, <1>3, StepNotes DEF PassOn
<1>5. daemon'.left = {}
  <2>1. CASE ListRunning
    BY <2>1 DEF ListRunning, PassDone, NoPass
  <2>2. CASE BillServer
    <3>1. PICK u \in Servers : daemon' = [daemon EXCEPT !.pc = "reap"] \/ Continue(Rest(u))
      BY <2>2 DEF BillServer
    <3>2. daemon' # [daemon EXCEPT !.pc = "reap"]
      BY DEF PassDone, IInv, TypeOK, Daemon
    <3> QED
      BY <3>1, <3>2, PassGoes DEF PassDone, IInv, TypeOK
  <2>3. CASE ReapServer
    BY <2>3, PassGoes DEF ReapServer, PassDone, IInv, TypeOK
  <2> QED
    BY <1>1, <2>1, <2>2, <2>3, PassMoves DEF PassDone
<1> QED
  BY <1>2, <1>3, <1>4, <1>5 DEF Charged, ToBill, Reaped

LEMMA FloorInvariant == FloorSpec => [](IInv /\ NoteInv)
<1>1. FloorInit => IInv /\ NoteInv
  <2> SUFFICES ASSUME FloorInit
               PROVE  IInv /\ NoteInv
    OBVIOUS
  <2>1. IInv
    BY InitInv DEF FloorInit
  <2>2. note \in Note /\ note.listed = 0
    BY DEF FloorInit, NoNote, Note
  <2>3. daemon.pc = "idle"
    BY DEF FloorInit, Init, DaemonInit, NoPass
  <2> QED
    BY <2>1, <2>2, <2>3 DEF NoteInv, IInv, TypeOK
<1>2. (IInv /\ NoteInv) /\ [FloorNext]_floorVars => (IInv /\ NoteInv)'
  <2> SUFFICES ASSUME IInv, NoteInv, [FloorNext]_floorVars
               PROVE  IInv' /\ NoteInv'
    OBVIOUS
  <2>1. CASE FloorNext
    BY <2>1, NextInv, NoteNext DEF FloorNext
  <2>2. CASE UNCHANGED floorVars
    <3>1. IInv'
      BY <2>2, NextInv DEF floorVars
    <3>2. UNCHANGED <<servers, now, daemon, note>>
      BY <2>2 DEF floorVars, vars, storeVars, daemonVars
    <3> QED
      BY <3>1, <3>2 DEF NoteInv, Charged, ToBill, Current, Reaped
  <2> QED
    BY <2>1, <2>2
<1> QED
  BY <1>1, <1>2, PTL DEF FloorSpec

\* A pass that comes to its end has charged every server at least for what it had
\* reached when it was listed, whatever the handlers did meanwhile and whatever
\* became of the servers before it; only one whose own UPDATE failed is left out.
THEOREM PassesCharge == FloorSpec => PassCharges
<1>1. IInv /\ NoteInv /\ [FloorNext]_floorVars =>
        [PassDone => \A s \in Servers \ Unbilled : servers'[s].uptime >= Due[s]]_floorVars
  BY PassOver
<1> QED
  BY FloorInvariant, <1>1, PTL DEF FloorSpec, PassCharges

\* It leaves no server running above the limit but those whose status was written
\* after the list, and those whose own termination failed: a server it has passed
\* over has, whether or not it could be charged, no more uptime than the sum that
\* was compared with the limit.
THEOREM PassesReap == FloorSpec => PassReaps
<1>1. IInv /\ NoteInv /\ [FloorNext]_floorVars =>
        [PassDone =>
           \A s \in Servers \ Unreaped :
             servers'[s].status = "running" /\ servers'[s].uptime > ReapAfter
               => servers'[s].lastStatusUpdate >= ListedAt]_floorVars
  BY PassOver
<1> QED
  BY FloorInvariant, <1>1, PTL DEF FloorSpec, PassReaps
=============================================================================
