--------------------------- MODULE StartupProofs ---------------------------
(***************************************************************************)
(* What the startup promises, for any number of handlers, servers and      *)
(* addresses, wherever the run before it died and whatever had failed in   *)
(* it: when no statement of the startup itself fails, it leaves no live    *)
(* server and a complete pool.  The invariant StartupDone says how far it  *)
(* has come after each statement.                                          *)
(***************************************************************************)
EXTENDS SystemProofs

\* A statement that has failed stays counted.
LEMMA FaultsCount ==
  ASSUME [Next]_vars
  PROVE  faults' = faults \/ Fault
BY DEF Next, ClientStep, Arrival, ProvisionRequest, ActionRequest, RejectedRequest,
       HandlerStep, SlotStep, LockSelect, SelectIP, CreateServer, LockSave, SaveAllocatedIP,
       ProvisionLog, UpdateStatus, GetIP, Deallocate, AppendLog, EnforceLimit, Refetch,
       Ok, Fails, DaemonStep, DaemonNext, PassStep, StartPass, ListRunning, BillServer,
       ReapServer, MainStep, BootStep, Launch, Start, Connect, TerminateAll, Truncate, Populate,
       Serve, Done, Flawed, SchemaMissing, StartedAgain, StartAgain, ClockStep, Tick, Crash,
       Exit, ShutdownTimesOut, Ended, Signal, vars, storeVars

LEMMA NoFaultYet ==
  ASSUME IInv, [Next]_vars, faults' = 0
  PROVE  faults = 0
BY FaultsCount DEF Fault, IInv, TypeOK

----------------------------------------------------------------------------
(* The startup. *)

\* No step of main undoes what the statements before it have done, and one whose
\* statement fails says so.
LEMMA BootDone ==
  ASSUME IInv, StartupDone, MainStep
  PROVE  StartupDone'
<1>1. flawed' => faults' > 0
  <2>1. flawed' => flawed \/ Fault
    BY DEF MainStep, BootStep, Launch, Start, Connect, TerminateAll, Truncate, Populate, Serve,
           Done, Flawed, SchemaMissing
  <2>2. faults' = faults \/ Fault
    BY FaultsCount DEF Next
  <2>3. flawed => faults > 0
    BY DEF StartupDone
  <2> QED
    BY <2>1, <2>2, <2>3 DEF Fault, IInv, TypeOK
<1> SUFFICES ASSUME ~flawed'
             PROVE  StartupDone'
  BY <1>1 DEF StartupDone
<1>2. CASE Launch \/ Connect \/ Serve
  BY <1>1, <1>2 DEF Launch, Start, Connect, Serve, StartupDone
<1>3. CASE TerminateAll
  <2>1. CASE phase' = "down"
    BY <1>1, <2>1 DEF StartupDone
  <2>2. CASE servers' = TerminateAllServers /\ phase' = "truncate"
    <3>1. \A s \in Servers : servers'[s].status \notin Live
      BY <2>2 DEF TerminateAllServers, Live, IInv, TypeOK, ServerRow
    <3> QED
      BY <1>1, <2>2, <3>1 DEF StartupDone
  <2> QED
    BY <1>3, <2>1, <2>2 DEF TerminateAll, SchemaMissing, Done, Flawed
<1>4. CASE Truncate
  <2>1. CASE phase' = "down"
    BY <1>1, <2>1 DEF StartupDone
  <2>2. CASE ips' = TruncateIPAddresses /\ phase' = "populate" /\ ~flawed
    <3>1. /\ phase = "truncate" /\ cursor' = 0
          /\ servers' = servers
          /\ \A a \in Addrs : ips'[a] = NoIp
      BY <1>4, <2>2 DEF Truncate, TruncateIPAddresses
    <3>2. \A a \in Addrs : ~(a < cursor')
      BY <3>1, StoreConstants
    <3> QED
      BY <1>1, <2>2, <3>1, <3>2 DEF StartupDone
  <2> QED
    BY <1>4, <2>1, <2>2 DEF Truncate, SchemaMissing, Done, Flawed
<1>5. CASE Populate
  <2>1. /\ phase = "populate" /\ phase' = phase /\ ~flawed
        /\ servers' = servers
        /\ cursor \in Addrs /\ cursor' = cursor + 1
        /\ ips' = IF cursor \in Usable THEN CreateIPAddress(cursor) ELSE ips
    BY <1>5 DEF Populate, NextAddr, Done, Flawed
  <2>2. ips[cursor] = NoIp
    BY <2>1, StoreConstants DEF StartupDone
  <2>3. ips' = IF cursor \in Usable THEN [ips EXCEPT ![cursor] = FreeIp] ELSE ips
    BY <2>1, <2>2 DEF CreateIPAddress, NoIp
  <2>4. \A a \in Addrs : a < cursor' <=> a < cursor \/ a = cursor
    BY <2>1, StoreConstants
  <2>5. \A a \in Addrs : ips'[a] = IF a \in Usable /\ a < cursor' THEN FreeIp ELSE NoIp
    BY <2>1, <2>2, <2>3, <2>4 DEF StartupDone, IInv, TypeOK
  <2> QED
    BY <1>1, <2>1, <2>5 DEF StartupDone
<1> QED
  BY <1>2, <1>3, <1>4, <1>5 DEF MainStep, BootStep

\* Whoever else moves leaves the startup alone, or ends it.
LEMMA StartupNext ==
  ASSUME IInv, StartupDone, [Next]_vars
  PROVE  StartupDone'
<1>1. CASE MainStep
  BY <1>1, BootDone
<1>2. flawed /\ faults > 0 => faults' > 0
  BY FaultsCount DEF Fault, IInv, TypeOK
<1>3. CASE UNCHANGED <<servers, ips, phase, cursor, flawed>>
  BY <1>2, <1>3 DEF StartupDone
<1>4. CASE phase' \notin {"truncate", "populate"} /\ (~flawed' \/ flawed' = flawed)
  BY <1>2, <1>4 DEF StartupDone
<1>5. ASSUME (\E r \in Slots : ClientStep(r) \/ HandlerStep(r)) \/ DaemonStep
      PROVE  phase' \notin {"truncate", "populate"} /\ flawed' = flawed
  BY <1>5 DEF ClientStep, HandlerStep, DaemonStep, Serving, Running, startupVars
<1>6. ASSUME ClockStep \/ UNCHANGED vars
      PROVE  UNCHANGED <<servers, ips, phase, cursor, flawed>>
  BY <1>6 DEF ClockStep, Tick, vars, storeVars, startupVars
<1>7. ASSUME Crash \/ Exit \/ ShutdownTimesOut
      PROVE  phase' \notin {"truncate", "populate"} /\ ~flawed'
  BY <1>7 DEF Crash, Exit, ShutdownTimesOut, Ended
<1>8. ASSUME Signal \/ StartedAgain
      PROVE  phase' \notin {"truncate", "populate"} /\ flawed' = flawed
  BY <1>8 DEF Signal, StartedAgain, StartAgain, Start
<1> QED
  BY <1>1, <1>3, <1>4, <1>5, <1>6, <1>7, <1>8 DEF Next

LEMMA StartupInitDone ==
  ASSUME Init
  PROVE  StartupDone
BY DEF Init, StartupInit, StartupDone

\* When none of its own statements fails, a startup lets the program serve with
\* every server terminated and with exactly the usable addresses in the pool, all
\* free, whatever the runs before it left behind and whatever failed in them.
THEOREM StartIsClean == Spec => CleanStart
<1>1. Init => StartupDone
  BY StartupInitDone
<1>2. IInv /\ StartupDone /\ [Next]_vars => StartupDone'
  BY StartupNext
<1>3. IInv /\ StartupDone /\ [Next]_vars =>
        [~Running /\ Serving' /\ ~flawed =>
           /\ \A s \in Servers : servers'[s].status \notin Live
           /\ \A a \in Addrs : ips'[a] = IF a \in Usable THEN FreeIp ELSE NoIp]_vars
  <2> SUFFICES ASSUME IInv, StartupDone, [Next]_vars, ~Running, Serving', ~flawed
               PROVE  /\ \A s \in Servers : servers'[s].status \notin Live
                      /\ \A a \in Addrs : ips'[a] = IF a \in Usable THEN FreeIp ELSE NoIp
    OBVIOUS
  <2>1. Serve
    BY DEF Running, Serving, Next, ClientStep, HandlerStep, DaemonStep, MainStep, BootStep,
           Launch, StartedAgain, StartAgain, Start, Connect, TerminateAll, Truncate, Populate,
           Done, Flawed, SchemaMissing, ClockStep, Tick, Crash, Signal, Exit, ShutdownTimesOut,
           Ended, vars, startupVars, IInv, TypeOK, Phase
  <2>2. \A a \in Addrs : a < cursor
    BY <2>1, StoreAssumption DEF Serve, Addrs, IInv, TypeOK
  <2> QED
    BY <2>1, <2>2 DEF Serve, StartupDone, storeVars
<1> QED
  BY Invariant, <1>1, <1>2, <1>3, PTL DEF Spec, CleanStart
=============================================================================
