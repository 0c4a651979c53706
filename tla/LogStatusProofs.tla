--------------------------- MODULE LogStatusProofs ---------------------------
(***************************************************************************)
(* Proof that the newest log entry tells the status of a live server       *)
(* whenever nothing is in flight (LogTellsStatus), with one client that    *)
(* waits, no failing statement and nothing to reap.  What has to be        *)
(* followed is the request that stands between its two statements.         *)
(***************************************************************************)
EXTENDS LifecycleLog, OneClientProofs

\* The status after the operation an entry tells.
Told(entry) == IF entry = "provision" THEN "provisioning" ELSE Target(entry)

Tells(s) == servers[s].status \in Live => servers[s].status = Told(newest[s])

\* The request has written the status and not yet the entry, or conversely.
Half(r) ==
  \/ Provisioning(r)
  \/ req[r].pc = "append" /\ req[r].op # "reboot"
  \/ req[r].pc \in {"enforce", "update"} /\ req[r].op = "reboot"

HalfDone(r) ==
  /\ req[r].pc \in ProvisionPc => req[r].op = "provision"
  /\ req[r].pc \in ActionPc => req[r].op \in Ops
  /\ Provisioning(r) => servers[req[r].id].status = "provisioning"
  /\ req[r].pc \in {"getIP", "dealloc"} \/ (req[r].pc = "append" /\ req[r].op # "reboot")
       => servers[req[r].id].status = Target(req[r].op)
  /\ req[r].pc \in {"enforce", "update"} /\ req[r].op = "reboot" => newest[req[r].id] = "reboot"

LogTells(r) ==
  /\ HalfDone(r)
  /\ \A s \in Servers : Tells(s) \/ (Half(r) /\ req[r].id = s)

TellInv == faults = 0 /\ Running => \A r \in Slots : LogTells(r)

----------------------------------------------------------------------------
\* The newest entry is another one only when a log has become longer.
LEMMA NewestStays ==
  ASSUME LogFollows, NEW s \in Servers, ~(servers'[s].logs > servers[s].logs)
  PROVE  newest'[s] = newest[s]
BY DEF LogFollows

\* Every other statement of a request leaves the newest entries alone.
LEMMA NoEntryNow ==
  ASSUME IInv, NEW r \in Slots, SlotStep(r), ~AppendLog(r), ~ProvisionLog(r), LogFollows
  PROVE  \A s \in Servers : newest'[s] = newest[s]
<1> SUFFICES ASSUME NEW s \in Servers
             PROVE  ~(servers'[s].logs > servers[s].logs)
  BY NewestStays
<1>1. servers[s].logs \in Nat
  BY DEF IInv, TypeOK, ServerRow
<1>2. CASE CreateServer(r)
  BY <1>1, <1>2 DEF CreateServer, CreateNewServer, Inserted, IInv, TypeOK
<1>3. CASE EnforceLimit(r)
  BY <1>1, <1>3, StoreAssumption DEF EnforceLimit, EnforceLifecycleLogsLimit, IInv, TypeOK, ServerRow
<1>4. CASE ~CreateServer(r) /\ ~EnforceLimit(r)
  <2>1. servers'[s].logs = servers[s].logs
    BY <1>4 DEF SlotStep, LockSelect, SelectIP, LockSave, SaveAllocatedIP, UpdateStatus, GetIP,
           Deallocate, Refetch, UpdateServerStatus, storeVars, IInv, TypeOK, ServerRow
  <2> QED
    BY <1>1, <2>1
<1> QED
  BY <1>2, <1>3, <1>4

\* A statement that adds an entry records the operation of its request.
LEMMA EntryNow ==
  ASSUME OneClient, IInv, NEW r \in Slots, req[r].pc \in {"append", "provLog"}, req'[r] # req[r],
         servers' = AppendServerLifecycleLog(req[r].id), LogFollows
  PROVE  /\ newest'[req[r].id] = req[r].op
         /\ \A s \in Servers \ {req[r].id} : newest'[s] = newest[s]
         /\ \A s \in Servers : servers'[s].status = servers[s].status
<1>1. PICK t \in Servers : t = req[r].id
  BY DEF IInv, ActsOnRow, ActionPc
<1>2. servers[t].logs \in Nat /\ servers'[t].logs = servers[t].logs + 1
  BY <1>1 DEF AppendServerLifecycleLog, IInv, TypeOK, ServerRow
<1>3. Writers(t) = {r}
  BY <1>1, OnlySlot DEF Writers
<1>4. Recorded(t) = req[r].op
  <2>1. (CHOOSE q \in {r} : TRUE) = r
    OBVIOUS
  <2> QED
    BY <1>3, <2>1 DEF Recorded
<1>5. newest'[t] = req[r].op
  BY <1>2, <1>4 DEF LogFollows
<1>6. ASSUME NEW s \in Servers \ {t}
      PROVE  newest'[s] = newest[s]
  <2>1. servers'[s].logs = servers[s].logs /\ servers[s].logs \in Nat
    BY <1>1, <1>6 DEF AppendServerLifecycleLog, IInv, TypeOK, ServerRow
  <2> QED
    BY <2>1, NewestStays
<1>7. \A s \in Servers : servers'[s].status = servers[s].status
  BY DEF AppendServerLifecycleLog, IInv, TypeOK, ServerRow
<1> QED
  BY <1>1, <1>5, <1>6, <1>7

\* A statement after which nothing that matters has changed but the request.
LEMMA TellsStay ==
  ASSUME NEW r \in Slots, LogTells(r), HalfDone(r)',
         \A s \in Servers : servers'[s].status = servers[s].status /\ newest'[s] = newest[s],
         Half(r) => Half(r)' /\ req'[r].id = req[r].id
  PROVE  LogTells(r)'
<1>1. ASSUME NEW s \in Servers
      PROVE  Tells(s)' \/ (Half(r)' /\ req'[r].id = s)
  BY DEF LogTells, Tells, Told
<1> QED
  BY <1>1 DEF LogTells

----------------------------------------------------------------------------
(* The statements of a request. *)

LEMMA ProvisionTells ==
  ASSUME OneClient, IInv, NEW r \in Slots, LogTells(r), LogFollows,
         LockSelect(r) \/ SelectIP(r) \/ LockSave(r) \/ SaveAllocatedIP(r)
  PROVE  LogTells(r)'
<1>1. servers' = servers
  BY DEF LockSelect, SelectIP, LockSave, SaveAllocatedIP, storeVars
<1>2. \A s \in Servers : newest'[s] = newest[s]
  BY NoEntryNow DEF SlotStep, LockSelect, SelectIP, LockSave, SaveAllocatedIP, AppendLog, ProvisionLog, At
<1>3. \/ req[r].pc \in {"lockSelect", "select"} /\ req'[r].pc \in {"select", "create"}
         /\ req'[r].op = req[r].op
      \/ req[r].pc = "select" /\ req'[r] = Idle
      \/ req[r].pc \in {"lockSave", "save"} /\ req'[r].pc \in {"save", "provLog"}
         /\ req'[r].op = req[r].op /\ req'[r].id = req[r].id
  BY GoesTo DEF LockSelect, SelectIP, LockSave, SaveAllocatedIP, At, Ok, Fails, IInv, TypeOK, Request
<1>4. HalfDone(r)'
  BY <1>1, <1>3 DEF LogTells, HalfDone, Provisioning, ProvisionPc, ActionPc, Idle
<1>5. Half(r) => Half(r)' /\ req'[r].id = req[r].id
  BY <1>3 DEF Half, Provisioning
<1> QED
  BY <1>1, <1>2, <1>4, <1>5, TellsStay

LEMMA CreateTells ==
  ASSUME OneClient, ~Fault, IInv, NEW r \in Slots, LogTells(r), LogFollows, CreateServer(r)
  PROVE  LogTells(r)'
<1>1. PICK t \in Servers :
        /\ servers' = CreateNewServer(t, req[r].ip)
        /\ req' = [req EXCEPT ![r].pc = "lockSave", ![r].id = t]
        /\ req[r].pc = "create"
  BY DEF CreateServer, Fails, At
<1>2. \A s \in Servers : newest'[s] = newest[s]
  BY NoEntryNow DEF SlotStep, CreateServer, AppendLog, ProvisionLog, At
<1>3. /\ servers'[t].status = "provisioning"
      /\ \A s \in Servers \ {t} : servers'[s].status = servers[s].status
  BY <1>1 DEF CreateNewServer, Inserted, IInv, TypeOK
<1>4. req'[r].pc = "lockSave" /\ req'[r].id = t /\ req'[r].op = "provision"
  BY <1>1 DEF LogTells, HalfDone, ProvisionPc, IInv, TypeOK, Request
<1>5. HalfDone(r)' /\ Half(r)'
  BY <1>3, <1>4 DEF HalfDone, Half, Provisioning, ProvisionPc, ActionPc
<1>6. ASSUME NEW s \in Servers \ {t}
      PROVE  Tells(s)'
  BY <1>1, <1>2, <1>3, <1>6 DEF LogTells, Tells, Told, Half, Provisioning
<1> QED
  BY <1>4, <1>5, <1>6 DEF LogTells

LEMMA ProvisionLogTells ==
  ASSUME OneClient, ~Fault, IInv, NEW r \in Slots, LogTells(r), LogFollows, ProvisionLog(r)
  PROVE  LogTells(r)'
<1>1. /\ servers' = AppendServerLifecycleLog(req[r].id)
      /\ req[r].pc = "provLog" /\ req'[r] = Idle
  BY GoesTo DEF ProvisionLog, Ok, Fails, At
<1>2. /\ newest'[req[r].id] = "provision"
      /\ \A s \in Servers \ {req[r].id} : newest'[s] = newest[s]
      /\ \A s \in Servers : servers'[s].status = servers[s].status
  BY <1>1, EntryNow DEF LogTells, HalfDone, ProvisionPc, Idle
<1>3. HalfDone(r)'
  BY <1>1 DEF HalfDone, Provisioning, ProvisionPc, ActionPc, Idle
<1>4. ASSUME NEW s \in Servers
      PROVE  Tells(s)'
  <2>1. CASE s = req[r].id
    BY <1>1, <1>2, <2>1 DEF LogTells, HalfDone, Provisioning, Tells, Told
  <2>2. CASE s # req[r].id
    BY <1>2, <2>2 DEF LogTells, Tells, Told
  <2> QED
    BY <2>1, <2>2
<1> QED
  BY <1>3, <1>4 DEF LogTells

\* The status of a start or a stop is ahead of the log, that of a reboot catches
\* up with it.
LEMMA UpdateTells ==
  ASSUME OneClient, ~Fault, IInv, NEW r \in Slots, LogTells(r), LogFollows, UpdateStatus(r)
  PROVE  LogTells(r)'
<1>1. /\ req[r].pc = "update" /\ req[r].id \in Servers /\ req[r].op \in Ops
      /\ servers' = UpdateServerStatus(req[r].id, Target(req[r].op))
      /\ Goto(r, AfterUpdate(req[r].op))
  BY DEF UpdateStatus, At, Ok, Fails, IInv, ActsOnRow, ActionPc, LogTells, HalfDone
<1>2. \A s \in Servers : newest'[s] = newest[s]
  BY NoEntryNow DEF SlotStep, UpdateStatus, AppendLog, ProvisionLog, At
<1>3. \A s \in Servers : servers'[s].status = IF s = req[r].id THEN Target(req[r].op)
                                                            ELSE servers[s].status
  BY <1>1 DEF UpdateServerStatus, IInv, TypeOK, ServerRow
<1>4. ASSUME NEW s \in Servers, s # req[r].id
      PROVE  Tells(s)'
  BY <1>2, <1>3, <1>4 DEF LogTells, Tells, Told
<1>5. CASE req[r].op = "reboot"
  <2>1. req'[r] = Idle
    BY <1>1, <1>5, GoesTo DEF AfterUpdate
  <2>2. HalfDone(r)'
    BY <2>1 DEF HalfDone, Provisioning, ProvisionPc, ActionPc, Idle
  <2>3. newest'[req[r].id] = "reboot" /\ servers'[req[r].id].status = Target("reboot")
    BY <1>1, <1>2, <1>3, <1>5 DEF LogTells, HalfDone
  <2>4. ASSUME NEW s \in Servers, s = req[r].id
        PROVE  Tells(s)'
    BY <2>3, <2>4 DEF Tells, Told
  <2> QED
    BY <1>4, <2>2, <2>4 DEF LogTells
<1>6. CASE req[r].op # "reboot"
  <2>1. /\ req'[r].pc = IF req[r].op = "terminate" THEN "getIP" ELSE "append"
        /\ req'[r].op = req[r].op /\ req'[r].id = req[r].id
    BY <1>1, <1>6, GoesTo DEF AfterUpdate, Ops
  <2>2. HalfDone(r)'
    BY <1>1, <1>3, <2>1 DEF HalfDone, Provisioning, ProvisionPc, ActionPc
  <2>3. CASE req[r].op = "terminate"
    <3>1. servers'[req[r].id].status \notin Live
      BY <1>1, <1>3, <2>3 DEF Target, Live
    <3> QED
      BY <1>4, <2>2, <3>1 DEF LogTells, Tells
  <2>4. CASE req[r].op # "terminate"
    BY <1>4, <1>6, <2>1, <2>2, <2>4 DEF LogTells, Half
  <2> QED
    BY <2>3, <2>4
<1> QED
  BY <1>5, <1>6

\* The entry of a reboot is ahead of the status, the others catch up with it.
LEMMA AppendTells ==
  ASSUME OneClient, ~Fault, IInv, NEW r \in Slots, LogTells(r), LogFollows, AppendLog(r)
  PROVE  LogTells(r)'
<1>1. /\ servers' = AppendServerLifecycleLog(req[r].id)
      /\ req[r].pc = "append" /\ req'[r].pc = "enforce"
      /\ req'[r].op = req[r].op /\ req'[r].id = req[r].id /\ req[r].op \in Ops
  BY GoesTo DEF AppendLog, Ok, Fails, At, LogTells, HalfDone, ActionPc
<1>2. /\ newest'[req[r].id] = req[r].op
      /\ \A s \in Servers \ {req[r].id} : newest'[s] = newest[s]
      /\ \A s \in Servers : servers'[s].status = servers[s].status
  BY <1>1, EntryNow
<1>3. HalfDone(r)'
  BY <1>1, <1>2 DEF HalfDone, Provisioning, ProvisionPc, ActionPc
<1>4. ASSUME NEW s \in Servers
      PROVE  Tells(s)' \/ (Half(r)' /\ req'[r].id = s)
  <2>1. CASE s # req[r].id
    BY <1>2, <2>1 DEF LogTells, Tells, Told
  <2>2. CASE s = req[r].id /\ req[r].op = "reboot"
    BY <1>1, <2>2 DEF Half
  <2>3. CASE s = req[r].id /\ req[r].op # "reboot"
    <3>1. servers'[s].status = Target(req[r].op) /\ newest'[s] = req[r].op
      BY <1>1, <1>2, <2>3 DEF LogTells, HalfDone
    <3> QED
      BY <1>1, <3>1 DEF Tells, Told, Ops
  <2> QED
    BY <2>1, <2>2, <2>3
<1> QED
  BY <1>3, <1>4 DEF LogTells

LEMMA ActionTells ==
  ASSUME OneClient, ~Fault, IInv, CheckHolds, NEW r \in Slots, LogTells(r), LogFollows,
         GetIP(r) \/ Deallocate(r) \/ EnforceLimit(r) \/ Refetch(r)
  PROVE  LogTells(r)'
<1>1. \A s \in Servers : servers'[s].status = servers[s].status
  BY DEF GetIP, Deallocate, EnforceLimit, Refetch, EnforceLifecycleLogsLimit, IInv, TypeOK, ServerRow
<1>2. \A s \in Servers : newest'[s] = newest[s]
  BY NoEntryNow DEF SlotStep, GetIP, Deallocate, EnforceLimit, Refetch, AppendLog, ProvisionLog, At
<1>3. req[r].pc \in ActionPc /\ req[r].op \in Ops /\ req[r].id \in Servers
  BY DEF GetIP, Deallocate, EnforceLimit, Refetch, At, ActionPc, LogTells, HalfDone, IInv, ActsOnRow
<1>4. \/ req'[r] = Idle /\ ~(req[r].pc = "enforce" /\ req[r].op = "reboot") /\ req[r].pc \in {"getIP", "enforce", "refetch"}
      \/ /\ req'[r].op = req[r].op /\ req'[r].id = req[r].id
         /\ \/ req[r].pc = "getIP" /\ req'[r].pc = "dealloc"
            \/ req[r].pc = "dealloc" /\ req'[r].pc = "append" /\ req[r].op = "terminate"
            \/ req[r].pc = "enforce" /\ req'[r].pc = "refetch" /\ req[r].op # "reboot"
            \/ req[r].pc = "enforce" /\ req'[r].pc = "update" /\ req[r].op = "reboot"
  <2>1. CASE GetIP(r)
    BY <2>1, GoesTo DEF GetIP, At, Ok, Fails, IInv, TypeOK, Request
  <2>2. CASE Deallocate(r)
    BY <2>2, GoesTo DEF Deallocate, At, Ok, Fails, CheckHolds
  <2>3. CASE EnforceLimit(r)
    <3>1. req[r].pc = "enforce" /\ Goto(r, AfterLog(req[r].op))
      BY <2>3 DEF EnforceLimit, At, Ok, Fails
    <3>2. AfterLog(req[r].op) = IF req[r].op = "terminate" THEN "refetch"
                                ELSE IF req[r].op = "reboot" THEN "update" ELSE "idle"
      BY <1>3 DEF AfterLog
    <3> QED
      BY <3>1, <3>2, GoesTo
  <2>4. CASE Refetch(r)
    BY <2>4, GoesTo DEF Refetch, At, Ok, Fails
  <2> QED
    BY <2>1, <2>2, <2>3, <2>4
<1>5. HalfDone(r)'
  BY <1>1, <1>2, <1>3, <1>4 DEF LogTells, HalfDone, Provisioning, ProvisionPc, ActionPc, Idle
<1>6. Half(r) => Half(r)' /\ req'[r].id = req[r].id
  BY <1>4 DEF Half, Provisioning
<1> QED
  BY <1>1, <1>2, <1>5, <1>6, TellsStay

LEMMA HandlerTells ==
  ASSUME OneClient, ~Fault, IInv, CheckHolds, NEW r \in Slots, LogTells(r), LogFollows, SlotStep(r)
  PROVE  LogTells(r)'
<1>1. CASE LockSelect(r) \/ SelectIP(r) \/ LockSave(r) \/ SaveAllocatedIP(r)
  BY <1>1, ProvisionTells
<1>2. CASE GetIP(r) \/ Deallocate(r) \/ EnforceLimit(r) \/ Refetch(r)
  BY <1>2, ActionTells
<1>3. CASE CreateServer(r)
  BY <1>3, CreateTells
<1>4. CASE ProvisionLog(r)
  BY <1>4, ProvisionLogTells
<1>5. CASE UpdateStatus(r)
  BY <1>5, UpdateTells
<1>6. CASE AppendLog(r)
  BY <1>6, AppendTells
<1> QED
  BY <1>1, <1>2, <1>3, <1>4, <1>5, <1>6 DEF SlotStep

----------------------------------------------------------------------------
(* The other steps. *)

LEMMA ClientTells ==
  ASSUME IInv, NEW r \in Slots, LogTells(r), LogFollows, ClientStep(r)
  PROVE  LogTells(r)'
<1>1. servers' = servers /\ (\A s \in Servers : newest'[s] = newest[s])
  <2>1. servers' = servers
    BY DEF ClientStep, Arrival, ProvisionRequest, ActionRequest, RejectedRequest, storeVars
  <2>2. \A s \in Servers : servers[s].logs \in Nat
    BY DEF IInv, TypeOK, ServerRow
  <2> QED
    BY <2>1, <2>2, NewestStays
<1>2. CASE req' = req
  <2>1. req[r].pc \in {"enforce", "update"} => req[r].id \in Servers
    BY DEF IInv, ActsOnRow, ActionPc
  <2>2. HalfDone(r)'
    BY <1>1, <1>2, <2>1 DEF LogTells, HalfDone, Provisioning
  <2>3. Half(r) => Half(r)' /\ req'[r].id = req[r].id
    BY <1>2 DEF Half, Provisioning
  <2> QED
    BY <1>1, <2>2, <2>3, TellsStay
<1>3. CASE req' # req
  <2>1. /\ req[r].pc = "idle"
        /\ \/ req'[r].pc = "lockSelect" /\ req'[r].op = "provision"
           \/ req'[r].op \in Ops /\ req'[r].pc = FirstPc(req'[r].op)
    BY <1>3 DEF ClientStep, Arrival, ProvisionRequest, ActionRequest, RejectedRequest, At,
                serviceVars, IInv, TypeOK
  <2>2. HalfDone(r)'
    BY <2>1 DEF HalfDone, Provisioning, ProvisionPc, ActionPc, FirstPc, Ops
  <2>3. ~Half(r)
    BY <2>1 DEF Half, Provisioning
  <2> QED
    BY <1>1, <2>2, <2>3, TellsStay
<1> QED
  BY <1>2, <1>3

\* A start leaves no server whose status the log would have to tell.
LEMMA ServeTells ==
  ASSUME faults = 0, RequestsEnd, StartupDone, MainStep, Running'
  PROVE  \A r \in Slots : LogTells(r)'
<1>1. Serve /\ ~Running /\ req' = req
  BY DEF MainStep, BootStep, Launch, Start, Connect, TerminateAll, Truncate, Populate, SchemaMissing,
         Done, Flawed, Serve, Running, serviceVars
<1>2. \A s \in Servers : servers'[s].status \notin Live
  BY <1>1 DEF Serve, StartupDone, storeVars
<1>3. \A r \in Slots : req'[r].pc = "idle"
  BY <1>1 DEF RequestsEnd, Idle
<1> QED
  BY <1>2, <1>3 DEF LogTells, HalfDone, Provisioning, ProvisionPc, ActionPc, Tells

\* A step that changes no request, no status and no log.
LEMMA NothingTold ==
  ASSUME IInv, LogFollows, NEW r \in Slots, LogTells(r), req' = req,
         \A s \in Servers : /\ servers'[s].status = servers[s].status
                            /\ servers'[s].logs = servers[s].logs
  PROVE  LogTells(r)'
<1>1. \A s \in Servers : newest'[s] = newest[s]
  <2>1. \A s \in Servers : servers[s].logs \in Nat
    BY DEF IInv, TypeOK, ServerRow
  <2> QED
    BY <2>1, NewestStays
<1>2. Provisioning(r) \/ req[r].pc \in ActionPc => req[r].id \in Servers
  BY DEF IInv, ActsOnRow, Provisioning
<1>3. HalfDone(r)'
  BY <1>1, <1>2 DEF LogTells, HalfDone, Provisioning, ActionPc
<1>4. Half(r) => Half(r)' /\ req'[r].id = req[r].id
  BY DEF Half, Provisioning
<1> QED
  BY <1>1, <1>3, <1>4, TellsStay

LEMMA TellNext ==
  ASSUME OneClient, ReaperRests, IInv, RequestsEnd, StartupDone, CheckHolds, TellInv,
         [LogNext]_logVars
  PROVE  TellInv'
<1>1. CASE UNCHANGED logVars
  BY <1>1 DEF logVars, vars, storeVars, serviceVars, startupVars, TellInv, Running, LogTells,
              HalfDone, Provisioning, Half, Tells, Told
<1>2. CASE Next /\ LogFollows
  <2> SUFFICES ASSUME faults' = 0, Running'
               PROVE  \A r \in Slots : LogTells(r)'
    BY DEF TellInv
  <2>1. faults = 0 /\ ~Fault
    BY <1>2, NoFaultYet DEF Fault, IInv, TypeOK
  <2>2. ASSUME NEW r \in Slots, HandlerStep(r)
        PROVE  \A q \in Slots : LogTells(q)'
    <3>1. LogTells(r) /\ SlotStep(r)
      BY <2>1, <2>2 DEF TellInv, HandlerStep
    <3>2. LogTells(r)'
      BY <1>2, <2>1, <3>1, HandlerTells
    <3> QED
      BY <3>2, OnlySlot
  <2>3. ASSUME NEW r \in Slots, ClientStep(r)
        PROVE  \A q \in Slots : LogTells(q)'
    <3>1. LogTells(r)
      BY <2>1, <2>3 DEF TellInv, ClientStep, Serving, Running
    <3>2. LogTells(r)'
      BY <1>2, <2>3, <3>1, ClientTells
    <3> QED
      BY <3>2, OnlySlot
  <2>4. ASSUME MainStep
        PROVE  \A r \in Slots : LogTells(r)'
    BY <2>1, <2>4, ServeTells
  <2>5. ~(StartedAgain \/ Crash \/ Exit \/ ShutdownTimesOut)
    BY DEF StartedAgain, StartAgain, Start, Crash, Exit, ShutdownTimesOut, Ended, Running
  <2>6. ASSUME DaemonStep \/ ClockStep \/ Signal
        PROVE  \A r \in Slots : LogTells(r)'
    <3>1. /\ req' = req /\ Running
          /\ \A s \in Servers : /\ servers'[s].status = servers[s].status
                                /\ servers'[s].logs = servers[s].logs
      <4>1. CASE Signal
        BY <4>1 DEF Signal, Serving, Running, storeVars, serviceVars
      <4>2. CASE DaemonStep \/ ClockStep
        BY <4>2, OnlyBills DEF Running
      <4> QED
        BY <2>6, <4>1, <4>2
    <3>2. \A r \in Slots : LogTells(r)
      BY <2>1, <3>1 DEF TellInv
    <3> QED
      BY <1>2, <3>1, <3>2, NothingTold
  <2> QED
    BY <1>2, <2>2, <2>3, <2>4, <2>5, <2>6 DEF Next
<1> QED
  BY <1>1, <1>2 DEF LogNext

\* Whenever nothing is in flight and nothing has failed the newest entry of the
\* log tells the status of every live server, for any number of servers,
\* seconds, crashes and signals, as long as nothing is reaped: a reaped server
\* has no entry that says so.
THEOREM StatusTold ==
  ASSUME OneClient
  PROVE  LogSpec /\ []ReaperRests => []LogTellsStatus
<1> DEFINE Inv == IInv /\ LogInv /\ StartupDone /\ OneClientInv /\ TellInv
<1>1. LogInit => Inv
  <2>1. LogInit => TellInv
    BY DEF LogInit, Init, StartupInit, TellInv, Running
  <2> QED
    BY <2>1, InitInv, LogInvInit, StartupInitDone, OneClientInit DEF LogInit
<1>2. ReaperRests /\ Inv /\ [LogNext]_logVars => Inv'
  <2> SUFFICES ASSUME ReaperRests, Inv, [LogNext]_logVars
               PROVE  Inv'
    OBVIOUS
  <2>1. [Next]_vars
    BY DEF LogNext, logVars
  <2>2. TellInv'
    BY TellNext DEF LogInv, OneClientInv
  <2> QED
    BY <2>1, <2>2, NextInv, LogNextInv, StartupNext, OneClientNext DEF LogInv
<1>3. Inv => LogTellsStatus
  <2> SUFFICES ASSUME Inv, faults = 0, Quiet, NEW s \in Servers, servers[s].status \in Live
               PROVE  servers[s].status = Told(newest[s])
    BY DEF LogTellsStatus, Told
  <2>1. PICK r \in Slots : req[r].pc = "idle" /\ Running
    BY DEF OneClient, Quiet, At, Serving, Running
  <2>2. Tells(s)
    BY <2>1 DEF TellInv, LogTells, Half, Provisioning
  <2> QED
    BY <2>2 DEF Tells
<1> QED
  BY <1>1, <1>2, <1>3, PTL DEF LogSpec
=============================================================================
