---------------------------- MODULE RecentProofs ----------------------------
(***************************************************************************)
(* Proof that a lifecycle log is a window on the most recent events        *)
(* (LogIsRecent), for any number of handlers, servers, failing statements, *)
(* crashes and shutdowns.  The case to exclude is an entry written or cut  *)
(* after the one of a restart, which alone stands at the end: from then on *)
(* the server is terminated and nobody works on it (ResetEntry).           *)
(***************************************************************************)
EXTENDS LifecycleLog, LogProofs, SequenceTheorems

\* A row that has not been inserted has no log.
AbsentEmpty == \A s \in Servers : servers[s].status = "absent" => servers[s].logs = 0

\* The array of s is as long as System says, and either in order or followed by
\* the entry of a restart.
Recent(s) ==
  \/ log[s] = NewestFirst(servers[s].logs)
  \/ /\ newest[s] = "reset"
     /\ ResetEntry(s) = 0
     /\ servers[s].logs > 0
     /\ log[s] = Appended(NewestFirst(servers[s].logs - 1))

RecentInv == AbsentEmpty /\ \A s \in Servers : Recent(s)

----------------------------------------------------------------------------
(* The operators on arrays. *)

LEMMA NewestFirstSeq ==
  ASSUME NEW n \in Nat
  PROVE  /\ NewestFirst(n) \in Seq(Nat)
         /\ Len(NewestFirst(n)) = n
         /\ \A k \in 1 .. n : NewestFirst(n)[k] = k - 1
<1>1. NewestFirst(n) \in [1 .. n -> Nat]
  BY DEF NewestFirst
<1>2. NewestFirst(n) \in Seq(Nat)
  BY <1>1, SeqDef
<1> QED
  BY <1>1, <1>2, LenProperties DEF NewestFirst

LEMMA OlderSeq ==
  ASSUME NEW n \in Nat
  PROVE  /\ Older(NewestFirst(n)) \in Seq(Nat)
         /\ Len(Older(NewestFirst(n))) = n
         /\ \A k \in 1 .. n : Older(NewestFirst(n))[k] = k
<1>1. /\ DOMAIN NewestFirst(n) = 1 .. n
      /\ \A k \in 1 .. n : NewestFirst(n)[k] = k - 1
  BY DEF NewestFirst
<1>2. Older(NewestFirst(n)) = [k \in 1 .. n |-> k]
  BY <1>1 DEF Older
<1>3. Older(NewestFirst(n)) \in [1 .. n -> Nat]
  BY <1>2
<1>4. Older(NewestFirst(n)) \in Seq(Nat)
  BY <1>3, SeqDef
<1> QED
  BY <1>2, <1>3, <1>4, LenProperties

One == <<0>>

LEMMA OneSeq == One \in Seq(Nat) /\ Len(One) = 1 /\ One[1] = 0
BY DEF One

\* An entry put in front keeps the array in order.
LEMMA PrependedInOrder ==
  ASSUME NEW n \in Nat
  PROVE  Prepended(NewestFirst(n)) = NewestFirst(n + 1)
<1> DEFINE old == Older(NewestFirst(n))
           all == One \o old
<1>1. /\ old \in Seq(Nat) /\ Len(old) = n
      /\ \A k \in 1 .. n : old[k] = k
  BY OlderSeq
<1> HIDE DEF old
<1>2. /\ all \in Seq(Nat)
      /\ Len(all) = Len(One) + Len(old)
      /\ \A i \in 1 .. Len(One) + Len(old) :
           all[i] = IF i <= Len(One) THEN One[i] ELSE old[i - Len(One)]
  BY <1>1, OneSeq, ConcatProperties
<1> HIDE DEF all
<1>3. /\ NewestFirst(n + 1) \in Seq(Nat)
      /\ Len(NewestFirst(n + 1)) = n + 1
      /\ \A k \in 1 .. n + 1 : NewestFirst(n + 1)[k] = k - 1
  BY NewestFirstSeq
<1>4. Len(all) = n + 1
  BY <1>1, <1>2, OneSeq
<1>5. ASSUME NEW i \in 1 .. n + 1
      PROVE  all[i] = NewestFirst(n + 1)[i]
  BY <1>1, <1>2, <1>3, OneSeq
<1>6. all = NewestFirst(n + 1)
  BY <1>2, <1>3, <1>4, <1>5, SeqEqual
<1> QED
  BY <1>6 DEF Prepended, all, old, One

LEMMA AppendedLength ==
  ASSUME NEW n \in Nat
  PROVE  Len(Appended(NewestFirst(n))) = n + 1
<1> DEFINE old == Older(NewestFirst(n))
<1>1. old \in Seq(Nat) /\ Len(old) = n
  BY OlderSeq
<1> HIDE DEF old
<1>2. Len(old \o One) = Len(old) + Len(One)
  BY <1>1, OneSeq, ConcatProperties
<1> QED
  BY <1>1, <1>2, OneSeq DEF Appended, old, One

\* The limit keeps the front.
LEMMA KeptInOrder ==
  ASSUME NEW n \in Nat, LogKeep <= n
  PROVE  Kept(NewestFirst(n)) = NewestFirst(LogKeep)
<1> DEFINE kept == SubSeq(NewestFirst(n), 1, LogKeep)
<1>1. LogKeep \in Nat
  BY StoreAssumption
<1>2. /\ NewestFirst(n) \in Seq(Nat)
      /\ \A k \in 1 .. n : NewestFirst(n)[k] = k - 1
  BY NewestFirstSeq
<1>3. \A k \in 1 .. LogKeep : NewestFirst(n)[k] \in Nat
  BY <1>1, <1>2
<1>4. /\ kept \in Seq(Nat)
      /\ Len(kept) = IF 1 <= LogKeep THEN LogKeep - 1 + 1 ELSE 0
      /\ \A k \in 1 .. LogKeep - 1 + 1 : kept[k] = NewestFirst(n)[1 + k - 1]
  BY <1>1, <1>3, SubSeqProperties
<1> HIDE DEF kept
<1>5. /\ NewestFirst(LogKeep) \in Seq(Nat)
      /\ Len(NewestFirst(LogKeep)) = LogKeep
      /\ \A k \in 1 .. LogKeep : NewestFirst(LogKeep)[k] = k - 1
  BY <1>1, NewestFirstSeq
<1>6. Len(kept) = LogKeep
  BY <1>1, <1>4
<1>7. ASSUME NEW k \in 1 .. LogKeep
      PROVE  kept[k] = NewestFirst(LogKeep)[k]
  BY <1>1, <1>2, <1>4, <1>5, <1>7
<1>8. kept = NewestFirst(LogKeep)
  BY <1>4, <1>5, <1>6, <1>7, SeqEqual
<1> QED
  BY <1>8 DEF Kept, kept

----------------------------------------------------------------------------
(* What a step does to the number of entries of server s. *)

NoEntry(s) == servers'[s].logs = servers[s].logs

EntryWritten(s) == servers'[s].logs = servers[s].logs + 1 /\ Writers(s) # {}

ResetWritten(s) ==
  /\ servers'[s].logs = servers[s].logs + 1
  /\ Writers(s) = {}
  /\ servers[s].status \in Live
  /\ ResetEntry(s)' = 0

Cut(s) == servers[s].logs > LogLimit /\ servers'[s].logs = LogKeep /\ Working(s) # {}

LogMoves(s) == NoEntry(s) \/ EntryWritten(s) \/ ResetWritten(s) \/ Cut(s)

\* The statement of a request that adds an entry is the one whose writer it is.
LEMMA AppendMoves ==
  ASSUME IInv, NEW r \in Slots, req[r].pc \in {"append", "provLog"}, req'[r].pc # req[r].pc,
         servers' \in {servers, AppendServerLifecycleLog(req[r].id)}, NEW s \in Servers
  PROVE  LogMoves(s)
<1>1. CASE servers' = servers
  BY <1>1 DEF LogMoves, NoEntry
<1>2. CASE servers' = AppendServerLifecycleLog(req[r].id) /\ s # req[r].id
  BY <1>2 DEF AppendServerLifecycleLog, LogMoves, NoEntry, IInv, TypeOK, ServerRow
<1>3. CASE servers' = AppendServerLifecycleLog(req[r].id) /\ s = req[r].id
  <2>1. servers'[s].logs = servers[s].logs + 1
    BY <1>3 DEF AppendServerLifecycleLog, IInv, TypeOK, ServerRow
  <2>2. r \in Writers(s)
    BY <1>3 DEF Writers
  <2> QED
    BY <2>1, <2>2 DEF LogMoves, EntryWritten
<1> QED
  BY <1>1, <1>2, <1>3

LEMMA SlotLogMoves ==
  ASSUME IInv, AbsentEmpty, NEW r \in Slots, SlotStep(r), NEW s \in Servers
  PROVE  LogMoves(s)
<1>1. CASE AppendLog(r)
  <2>1. req'[r].pc # req[r].pc /\ req[r].pc = "append"
    BY <1>1 DEF AppendLog, At, Ok, Fails, Goto, AfterLog, Idle, IInv, TypeOK, Request
  <2>2. servers' \in {servers, AppendServerLifecycleLog(req[r].id)}
    BY <1>1 DEF AppendLog
  <2> QED
    BY <2>1, <2>2, AppendMoves
<1>2. CASE ProvisionLog(r)
  <2>1. req'[r].pc # req[r].pc /\ req[r].pc = "provLog"
    BY <1>2 DEF ProvisionLog, At, Ok, Fails, Goto, Idle, IInv, TypeOK, Request
  <2>2. servers' \in {servers, AppendServerLifecycleLog(req[r].id)}
    BY <1>2 DEF ProvisionLog
  <2> QED
    BY <2>1, <2>2, AppendMoves
<1>3. CASE EnforceLimit(r)
  <2>1. servers' \in {servers, EnforceLifecycleLogsLimit(req[r].id)} /\ At(r, "enforce")
    BY <1>3 DEF EnforceLimit
  <2>2. CASE servers' = EnforceLifecycleLogsLimit(req[r].id) /\ s = req[r].id
    <3>1. r \in Working(s)
      BY <2>2 DEF Working
    <3>2. servers'[s].logs = IF servers[s].logs > LogLimit THEN LogKeep ELSE servers[s].logs
      BY <2>2 DEF EnforceLifecycleLogsLimit, IInv, TypeOK, ServerRow
    <3> QED
      BY <3>1, <3>2 DEF LogMoves, NoEntry, Cut
  <2>3. CASE servers' = servers \/ s # req[r].id
    BY <2>1, <2>3 DEF EnforceLifecycleLogsLimit, LogMoves, NoEntry, IInv, TypeOK
  <2> QED
    BY <2>1, <2>2, <2>3
<1>4. CASE CreateServer(r)
  <2>1. PICK t \in Servers : NextId(t) /\ servers' \in {servers, CreateNewServer(t, req[r].ip)}
    BY <1>4 DEF CreateServer
  <2>2. servers[t].logs = 0
    BY <2>1 DEF NextId, AbsentEmpty
  <2> QED
    BY <2>1, <2>2 DEF CreateNewServer, Inserted, LogMoves, NoEntry, IInv, TypeOK
<1>5. CASE UpdateStatus(r)
  BY <1>5 DEF UpdateStatus, UpdateServerStatus, LogMoves, NoEntry, IInv, TypeOK, ServerRow
<1>6. CASE LockSelect(r) \/ SelectIP(r) \/ LockSave(r) \/ SaveAllocatedIP(r) \/ GetIP(r)
           \/ Deallocate(r) \/ Refetch(r)
  BY <1>6 DEF LockSelect, SelectIP, LockSave, SaveAllocatedIP, GetIP, Deallocate, Refetch,
              storeVars, LogMoves, NoEntry
<1> QED
  BY <1>1, <1>2, <1>3, <1>4, <1>5, <1>6 DEF SlotStep

LEMMA DaemonLogMoves ==
  ASSUME IInv, DaemonStep, NEW s \in Servers
  PROVE  LogMoves(s)
<1>1. CASE StartPass \/ ListRunning
  BY <1>1 DEF StartPass, ListRunning, storeVars, LogMoves, NoEntry
<1>2. CASE BillServer
  BY <1>2 DEF BillServer, UpdateServerUptime, LogMoves, NoEntry, IInv, TypeOK, ServerRow
<1>3. CASE ReapServer
  BY <1>3 DEF ReapServer, UpdateServerStatus, LogMoves, NoEntry, IInv, TypeOK, ServerRow
<1> QED
  BY <1>1, <1>2, <1>3 DEF DaemonStep, DaemonNext, PassStep

\* The entry of a restart is written when no request is there.
LEMMA MainLogMoves ==
  ASSUME IInv, RequestsEnd, MainStep, NEW s \in Servers
  PROVE  LogMoves(s)
<1>1. /\ ~Running
      /\ req' = req
      /\ servers' \in {servers, TerminateAllServers}
  BY DEF MainStep, BootStep, Launch, Start, Connect, TerminateAll, Truncate, Populate, Serve, SchemaMissing,
         Running, serviceVars, storeVars
<1>2. CASE servers' = servers \/ servers[s].status \notin Live
  BY <1>1, <1>2 DEF TerminateAllServers, LogMoves, NoEntry
<1>3. CASE servers' = TerminateAllServers /\ servers[s].status \in Live
  <2>1. servers'[s].status = "terminated" /\ servers'[s].logs = servers[s].logs + 1
    BY <1>3 DEF TerminateAllServers, IInv, TypeOK, ServerRow
  <2>2. Working(s)' = {}
    BY <1>1, StoreConstants DEF RequestsEnd, Working, Idle
  <2>3. Writers(s) = {}
    BY <1>1 DEF Writers
  <2> QED
    BY <1>3, <2>1, <2>2, <2>3 DEF LogMoves, ResetWritten, ResetEntry
<1> QED
  BY <1>1, <1>2, <1>3

LEMMA NextLogMoves ==
  ASSUME IInv, LogInv, AbsentEmpty, [Next]_vars, NEW s \in Servers
  PROVE  LogMoves(s)
<1>1. ASSUME NEW r \in Slots, ClientStep(r)
      PROVE  LogMoves(s)
  BY <1>1 DEF ClientStep, Arrival, ProvisionRequest, ActionRequest, RejectedRequest, storeVars,
              LogMoves, NoEntry
<1>2. ASSUME NEW r \in Slots, HandlerStep(r)
      PROVE  LogMoves(s)
  BY <1>2, SlotLogMoves DEF HandlerStep
<1>3. CASE ClockStep
  BY <1>3 DEF ClockStep, Tick, LogMoves, NoEntry
<1>4. CASE StartedAgain \/ Crash \/ Signal \/ Exit \/ ShutdownTimesOut \/ UNCHANGED vars
  BY <1>4 DEF StartedAgain, StartAgain, Start, Crash, Signal, Exit, ShutdownTimesOut, Ended, vars, storeVars,
              LogMoves, NoEntry
<1> QED
  BY <1>1, <1>2, <1>3, <1>4, DaemonLogMoves, MainLogMoves DEF Next, LogInv

----------------------------------------------------------------------------
(* The invariant. *)

\* A row that is there stays.
LEMMA RowsStay ==
  ASSUME IInv, [Next]_vars, NEW s \in Servers, servers[s].status # "absent"
  PROVE  servers'[s].status # "absent"
<1>1. /\ shownTable[s].status = servers[s].status
      /\ shownTable'[s].status = servers'[s].status
  BY DEF shownTable, Shown
<1>2. [Table!TableNext]_shownTable
  BY NextTable
<1>3. CASE shownTable' = shownTable
  BY <1>1, <1>3
<1>4. CASE Table!Reset
  <2>1. shownTable' = [t \in Servers |->
          IF shownTable[t].status \in Table!Live THEN [shownTable[t] EXCEPT !.status = "terminated"]
                                                 ELSE shownTable[t]]
    BY <1>4 DEF Table!Reset, shownTable
  <2>2. shownTable[s] = Shown(s)
    BY DEF shownTable
  <2> QED
    BY <1>1, <2>1, <2>2 DEF Shown
<1>5. ASSUME NEW i \in Servers, Table!Write(i)
      PROVE  servers'[s].status # "absent"
  <2>1. CASE i # s
    BY <1>1, <1>5, <2>1 DEF Table!Write, shownTable
  <2>2. CASE i = s
    BY <1>1, <1>5, <2>2 DEF Table!Write, Table!Insert, Table!ChangeStatus, Table!Charge,
                            Table!Status, shownTable
  <2> QED
    BY <2>1, <2>2
<1> QED
  BY <1>2, <1>3, <1>4, <1>5 DEF Table!TableNext

LEMMA AbsentStaysEmpty ==
  ASSUME IInv, LogInv, AbsentEmpty, [Next]_vars
  PROVE  AbsentEmpty'
<1> SUFFICES ASSUME NEW s \in Servers, servers'[s].status = "absent"
             PROVE  servers'[s].logs = 0
  BY DEF AbsentEmpty
<1>1. servers[s].status = "absent" /\ servers[s].logs = 0
  BY RowsStay DEF AbsentEmpty
<1>2. Writers(s) = {}
  BY <1>1 DEF Writers, IInv, ActsOnRow, ActionPc
<1>3. servers[s].status \notin Live /\ ~(servers[s].logs > LogLimit)
  BY <1>1, StoreAssumption DEF Live
<1> QED
  BY <1>1, <1>2, <1>3, NextLogMoves DEF LogMoves, NoEntry, EntryWritten, ResetWritten, Cut

\* After the entry of a restart nothing is written and nothing is cut.
LEMMA NothingAfterReset ==
  ASSUME IInv, LogInv, AbsentEmpty, [Next]_vars, NEW s \in Servers, ResetEntry(s) = 0
  PROVE  NoEntry(s) /\ ResetEntry(s)' = 0
<1>1. servers[s].status = "terminated" /\ Working(s) = {}
  BY DEF ResetEntry
<1>2. Writers(s) = {}
  BY <1>1 DEF Writers, Working
<1>3. servers[s].status \notin Live
  BY <1>1 DEF Live
<1>4. NoEntry(s)
  BY <1>1, <1>2, <1>3, NextLogMoves DEF LogMoves, EntryWritten, ResetWritten, Cut
<1>5. ResetEntry(s)' \in {0, 1} /\ ResetEntry(s)' <= 0
  BY ResetOnce DEF ResetEntry
<1> QED
  BY <1>4, <1>5

LEMMA RecentMoves ==
  ASSUME IInv, LogInv, RecentInv, [LogNext]_logVars, NEW s \in Servers
  PROVE  Recent(s)'
<1>1. [Next]_vars
  BY DEF LogNext, logVars
<1>2. servers[s].logs \in Nat /\ Recent(s) /\ AbsentEmpty
  BY DEF RecentInv, IInv, TypeOK, ServerRow
<1>3. CASE UNCHANGED logVars
  BY <1>2, <1>3 DEF logVars, vars, storeVars, serviceVars, Recent, ResetEntry, Working
<1>4. CASE LogNext
  <2> DEFINE n == servers[s].logs
             m == servers'[s].logs
  <2>1. /\ log'[s] = CASE m > n -> IF Writers(s) = {} THEN Appended(log[s]) ELSE Prepended(log[s])
                       [] m < n -> Kept(log[s])
                       [] OTHER -> log[s]
        /\ newest'[s] = IF m > n THEN Recorded(s) ELSE newest[s]
    BY <1>4 DEF LogNext, LogFollows
  <2>2. CASE ResetEntry(s) = 0
    <3>1. m = n /\ ResetEntry(s)' = 0
      BY <1>1, <1>2, <2>2, NothingAfterReset DEF NoEntry
    <3>2. log'[s] = log[s] /\ newest'[s] = newest[s]
      BY <1>2, <2>1, <3>1
    <3> QED
      BY <1>2, <3>1, <3>2 DEF Recent
  <2>3. CASE ResetEntry(s) # 0
    <3>1. log[s] = NewestFirst(n)
      BY <1>2, <2>3 DEF Recent
    <3>2. CASE NoEntry(s)
      BY <1>2, <2>1, <3>1, <3>2 DEF NoEntry, Recent
    <3>3. CASE EntryWritten(s)
      <4>1. log'[s] = Prepended(NewestFirst(n)) /\ m = n + 1
        BY <1>2, <2>1, <3>1, <3>3 DEF EntryWritten
      <4> QED
        BY <1>2, <4>1, PrependedInOrder DEF Recent
    <3>4. CASE ResetWritten(s)
      <4>1. /\ log'[s] = Appended(NewestFirst(n)) /\ m = n + 1
            /\ newest'[s] = "reset" /\ ResetEntry(s)' = 0
        BY <1>2, <2>1, <3>1, <3>4 DEF ResetWritten, Recorded
      <4>2. m > 0 /\ m - 1 = n
        BY <1>2, <4>1
      <4> QED
        BY <4>1, <4>2 DEF Recent
    <3>5. CASE Cut(s)
      <4>1. m < n /\ LogKeep <= n
        BY <1>2, <3>5, StoreAssumption DEF Cut
      <4>2. log'[s] = Kept(NewestFirst(n)) /\ m = LogKeep
        BY <1>2, <2>1, <3>1, <3>5, <4>1, StoreAssumption DEF Cut
      <4> QED
        BY <1>2, <4>1, <4>2, KeptInOrder DEF Recent
    <3> QED
      BY <1>1, <1>2, <3>2, <3>3, <3>4, <3>5, NextLogMoves DEF LogMoves
  <2> QED
    BY <2>2, <2>3
<1> QED
  BY <1>3, <1>4

\* The specification of the logs only watches the system.
LEMMA LogSpecIsSpec == LogSpec => Spec
<1>1. LogInit => Init
  BY DEF LogInit
<1>2. [LogNext]_logVars => [Next]_vars
  BY DEF LogNext, logVars
<1> QED
  BY <1>1, <1>2, PTL DEF LogSpec, Spec

\* Whatever is cut, whatever fails and wherever the program dies, a log is a
\* window on the most recent events, without a gap and newest first, followed
\* at most by the entry of a restart.
THEOREM RecentLogs == LogSpec => []LogIsRecent
<1>1. LogInit => LogInv /\ RecentInv
  <2> SUFFICES ASSUME LogInit
               PROVE  LogInv /\ RecentInv
    OBVIOUS
  <2>1. LogInv /\ AbsentEmpty
    BY LogInvInit DEF LogInit, AbsentEmpty, Init, StoreInit, NoRow
  <2>2. ASSUME NEW s \in Servers
        PROVE  log[s] = NewestFirst(servers[s].logs)
    <3>1. log[s] = <<>> /\ servers[s].logs = 0
      BY DEF LogInit, Init, StoreInit, NoRow
    <3>2. /\ NewestFirst(0) \in Seq(Nat) /\ Len(NewestFirst(0)) = 0
      BY NewestFirstSeq
    <3>3. NewestFirst(0) = <<>>
      BY <3>2, EmptySeq
    <3> QED
      BY <3>1, <3>3
  <2> QED
    BY <2>1, <2>2 DEF RecentInv, Recent
<1>2. IInv /\ LogInv /\ RecentInv /\ [LogNext]_logVars => LogInv' /\ RecentInv'
  <2> SUFFICES ASSUME IInv, LogInv, RecentInv, [LogNext]_logVars
               PROVE  LogInv' /\ RecentInv'
    OBVIOUS
  <2>1. [Next]_vars
    BY DEF LogNext, logVars
  <2>2. LogInv' /\ AbsentEmpty'
    BY <2>1, LogNextInv, AbsentStaysEmpty DEF RecentInv
  <2> QED
    BY <2>2, RecentMoves DEF RecentInv
<1>3. IInv /\ RecentInv => LogIsRecent
  <2> SUFFICES ASSUME IInv, RecentInv, NEW s \in Servers
               PROVE  \/ log[s] = NewestFirst(Len(log[s]))
                      \/ /\ newest[s] = "reset"
                         /\ servers[s].status = "terminated"
                         /\ log[s] = Appended(NewestFirst(Len(log[s]) - 1))
    BY DEF LogIsRecent
  <2>1. servers[s].logs \in Nat
    BY DEF IInv, TypeOK, ServerRow
  <2>2. CASE log[s] = NewestFirst(servers[s].logs)
    <3>1. Len(log[s]) = servers[s].logs
      BY <2>1, <2>2, NewestFirstSeq
    <3> QED
      BY <2>2, <3>1
  <2>3. CASE log[s] # NewestFirst(servers[s].logs)
    <3> DEFINE k == servers[s].logs - 1
    <3>1. /\ newest[s] = "reset" /\ ResetEntry(s) = 0 /\ servers[s].logs > 0
          /\ log[s] = Appended(NewestFirst(k))
      BY <2>3 DEF RecentInv, Recent
    <3>2. k \in Nat
      BY <2>1, <3>1
    <3> HIDE DEF k
    <3>3. Len(log[s]) - 1 = k
      <4>1. Len(log[s]) = k + 1
        BY <3>1, <3>2, AppendedLength
      <4> QED
        BY <3>2, <4>1
    <3>4. servers[s].status = "terminated"
      BY <3>1 DEF ResetEntry
    <3>5. log[s] = Appended(NewestFirst(Len(log[s]) - 1))
      BY <3>1, <3>3
    <3> QED
      BY <3>1, <3>4, <3>5
  <2> QED
    BY <2>2, <2>3
<1> QED
  BY Invariant, LogSpecIsSpec, <1>1, <1>2, <1>3, PTL DEF LogSpec
=============================================================================
