----------------------------- MODULE LogProofs -----------------------------
(***************************************************************************)
(* The logs stay bounded, whatever fails and wherever the process ends.    *)
(* The invariant counts: an entry above the limit is either one whose      *)
(* enforcement is still to come, or is paid for by a failed statement, by  *)
(* an end of the process, or by one of the two entries after which nobody  *)
(* enforces the limit, each of which a server gets only once.              *)
(***************************************************************************)
EXTENDS TableProofs, FiniteSetTheorems

----------------------------------------------------------------------------
(* Counting. *)

LEMMA SlotsFinite == IsFiniteSet(Slots) /\ Cardinality(Slots) \in Nat
BY ServiceAssumption, FS_CardinalityType

LEMMA PendingFinite ==
  ASSUME NEW s \in Servers
  PROVE  /\ IsFiniteSet(LimitPending(s))
         /\ Cardinality(LimitPending(s)) \in Nat
         /\ Cardinality(LimitPending(s)) <= Cardinality(Slots)
<1>1. LimitPending(s) \in SUBSET Slots
  BY DEF LimitPending
<1> QED
  BY <1>1, SlotsFinite, FS_Subset, FS_CardinalityType

\* What a step did to the entries of s that the invariant counts: it paid for
\* them, or cut the log.
Counted(s) ==
  \/ servers'[s].logs <= LogLimit
  \/ servers'[s].logs + FirstEntry(s)' + ResetEntry(s)' + Cardinality(LimitPending(s))
       + faults + Ends * Cardinality(Slots)
     <= servers[s].logs + FirstEntry(s) + ResetEntry(s) + Cardinality(LimitPending(s)')
          + faults' + Ends' * Cardinality(Slots)

LEMMA CountsAreNumbers ==
  ASSUME IInv, EntriesCounted, NEW s \in Servers
  PROVE  /\ servers[s].logs \in Nat
         /\ FirstEntry(s) \in 0 .. 1
         /\ ResetEntry(s) \in 0 .. 1
         /\ Cardinality(LimitPending(s)) \in Nat
         /\ faults \in Nat
         /\ Ends \in Nat
         /\ Ends * Cardinality(Slots) \in Nat
<1>1. servers[s].logs \in Nat /\ faults \in Nat /\ Ends \in Nat
  BY DEF IInv, TypeOK, ServerRow, EntriesCounted, Ends
<1>2. Ends * Cardinality(Slots) \in Nat
  <2>1. \A m, n \in Nat : m * n \in Nat
    OBVIOUS
  <2> QED
    BY <1>1, <2>1, SlotsFinite
<1> QED
  BY <1>1, <1>2, PendingFinite DEF FirstEntry, ResetEntry

LEMMA CountedKeeps ==
  ASSUME IInv, IInv', EntriesCounted,
         phase' = "draining" => crashes' > 0,
         \A s \in Servers : Counted(s)
  PROVE  EntriesCounted'
<1> SUFFICES ASSUME NEW s \in Servers
             PROVE  servers'[s].logs + FirstEntry(s)' + ResetEntry(s)'
                      <= LogLimit + Cardinality(LimitPending(s)') + faults'
                           + Ends' * Cardinality(Slots) + 2
  BY DEF EntriesCounted
<1>1. /\ servers'[s].logs \in Nat
      /\ FirstEntry(s)' \in 0 .. 1
      /\ ResetEntry(s)' \in 0 .. 1
      /\ faults' \in Nat
      /\ Ends' \in Nat
  <2>1. servers'[s].logs \in Nat /\ faults' \in Nat /\ crashes' \in Nat
    BY DEF IInv, TypeOK, ServerRow
  <2>2. Ends' \in Nat
    <3>1. \A c \in Nat : c > 0 => c - 1 \in Nat
      OBVIOUS
    <3> QED
      BY <2>1, <3>1 DEF Ends
  <2>3. FirstEntry(s)' \in 0 .. 1 /\ ResetEntry(s)' \in 0 .. 1
    BY DEF FirstEntry, ResetEntry
  <2> QED
    BY <2>1, <2>2, <2>3
<1>2. Ends' * Cardinality(Slots) \in Nat
  <2>1. \A m, n \in Nat : m * n \in Nat
    OBVIOUS
  <2> QED
    BY <1>1, <2>1, SlotsFinite
<1>3. Cardinality(LimitPending(s)') \in Nat
  <2>1. LimitPending(s)' \in SUBSET Slots
    BY DEF LimitPending
  <2> QED
    BY <2>1, SlotsFinite, FS_Subset, FS_CardinalityType
<1>4. servers[s].logs + FirstEntry(s) + ResetEntry(s)
        <= LogLimit + Cardinality(LimitPending(s)) + faults + Ends * Cardinality(Slots) + 2
  BY DEF EntriesCounted
<1>5. CASE servers'[s].logs <= LogLimit
  BY <1>1, <1>2, <1>3, <1>5, StoreAssumption
<1>6. CASE servers'[s].logs > LogLimit
  <2>1. servers'[s].logs + FirstEntry(s)' + ResetEntry(s)' + Cardinality(LimitPending(s))
          + faults + Ends * Cardinality(Slots)
        <= servers[s].logs + FirstEntry(s) + ResetEntry(s) + Cardinality(LimitPending(s)')
             + faults' + Ends' * Cardinality(Slots)
    BY <1>1, <1>6, StoreAssumption DEF Counted
  <2> QED
    BY <1>1, <1>2, <1>3, <1>4, <2>1, CountsAreNumbers, StoreAssumption
<1> QED
  BY <1>1, <1>5, <1>6, StoreAssumption

\* A step that adds no entry and takes no enforcement back.
LEMMA SameCounts ==
  ASSUME IInv, IInv', EntriesCounted, NEW s \in Servers,
         servers'[s].logs <= servers[s].logs \/ servers'[s].logs <= LogLimit,
         FirstEntry(s)' <= FirstEntry(s),
         ResetEntry(s)' <= ResetEntry(s),
         LimitPending(s)' = LimitPending(s),
         faults' >= faults,
         Ends' = Ends
  PROVE  Counted(s)
<1>1. /\ servers'[s].logs \in Nat
      /\ FirstEntry(s)' \in 0 .. 1
      /\ ResetEntry(s)' \in 0 .. 1
      /\ faults' \in Nat
  BY DEF IInv, TypeOK, ServerRow, FirstEntry, ResetEntry
<1> QED
  BY <1>1, CountsAreNumbers DEF Counted

----------------------------------------------------------------------------
(* The requests. *)

\* The entry of a restart comes once.
LEMMA ResetOnce ==
  ASSUME IInv, [Next]_vars, NEW s \in Servers
  PROVE  ResetEntry(s)' <= ResetEntry(s)
<1>1. CASE servers[s].status = "terminated" /\ Working(s) = {}
  <2>1. IdsMove
    BY NextIds DEF IInv
  <2>2. Working(s)' = {}
    BY <1>1, <2>1, StoreConstants DEF IdsMove, Working
  <2>3. servers'[s].status = "terminated"
    BY <1>1, RevivedByRequest DEF Working
  <2> QED
    BY <1>1, <2>2, <2>3 DEF ResetEntry
<1>2. CASE ~(servers[s].status = "terminated" /\ Working(s) = {})
  BY <1>2 DEF ResetEntry
<1> QED
  BY <1>1, <1>2

\* Only the step that inserts a row lets its first entry be expected.
LEMMA FirstOnce ==
  ASSUME NEW r \in Slots, NEW s \in Servers,
         \A q \in Slots \ {r} : req'[q] = req[q],
         Provisioning(r)' /\ req'[r].id = s => Provisioning(r) /\ req[r].id = s
  PROVE  FirstEntry(s)' <= FirstEntry(s)
<1>1. ASSUME NEW q \in Slots, Provisioning(q)', req'[q].id = s
      PROVE  Provisioning(q) /\ req[q].id = s
  BY <1>1 DEF Provisioning
<1> QED
  BY <1>1 DEF FirstEntry

LEMMA PendingSame ==
  ASSUME NEW r \in Slots, NEW s \in Servers,
         \A q \in Slots \ {r} : req'[q] = req[q],
         req[r].pc # "enforce", req'[r].pc # "enforce"
  PROVE  LimitPending(s)' = LimitPending(s)
BY DEF LimitPending, At

\* Where a step of a request leads.
LEMMA SlotMoves ==
  ASSUME IInv, NEW r \in Slots, SlotStep(r), ~CreateServer(r)
  PROVE  /\ \A q \in Slots \ {r} : req'[q] = req[q]
         /\ Provisioning(r)' => Provisioning(r) /\ req'[r].id = req[r].id
         /\ req'[r].pc = "enforce" => AppendLog(r) /\ Ok(r, "enforce")
         /\ faults' = faults \/ Fault
<1>1. ASSUME NEW pc, Goto(r, pc)
      PROVE  /\ \A q \in Slots \ {r} : req'[q] = req[q]
             /\ req'[r].pc = pc
             /\ pc # "idle" => req'[r].id = req[r].id
  BY <1>1 DEF Goto, Idle, IInv, TypeOK, Request
<1>2. CASE LockSelect(r)
  BY <1>1, <1>2 DEF LockSelect, Provisioning, storeVars
<1>3. CASE SelectIP(r) \/ GetIP(r)
  <2>1. CASE Goto(r, "idle")
    BY <1>1, <1>3, <2>1 DEF Provisioning, SelectIP, GetIP, Ok, Fails
  <2>2. CASE \E a \in Addrs : req' \in {[req EXCEPT ![r].pc = "create", ![r].ip = a],
                                      [req EXCEPT ![r].pc = "dealloc", ![r].ip = a]}
    <3>1. (\A q \in Slots \ {r} : req'[q] = req[q]) /\ req'[r].pc \in {"create", "dealloc"}
      BY <2>2 DEF IInv, TypeOK, Request
    <3> QED
      BY <1>3, <3>1 DEF Provisioning, SelectIP, GetIP, Ok, Fails
  <2> QED
    BY <1>3, <2>1, <2>2 DEF SelectIP, GetIP, GetIPAddressByServerID, Ok, Fails
<1>4. CASE LockSave(r) \/ SaveAllocatedIP(r)
  BY <1>1, <1>4 DEF LockSave, SaveAllocatedIP, At, Provisioning, Ok, Fails, storeVars
<1>5. CASE ProvisionLog(r) \/ Deallocate(r) \/ Refetch(r)
  BY <1>1, <1>5 DEF ProvisionLog, Deallocate, Refetch, Provisioning, Ok, Fails
<1>6. CASE UpdateStatus(r)
  BY <1>1, <1>6 DEF UpdateStatus, AfterUpdate, Provisioning, Ok, Fails
<1>7. CASE AppendLog(r) \/ EnforceLimit(r)
  BY <1>1, <1>7 DEF AppendLog, EnforceLimit, AfterLog, Provisioning, Ok, Fails
<1> QED
  BY <1>2, <1>3, <1>4, <1>5, <1>6, <1>7 DEF SlotStep

LEMMA CreateCounted ==
  ASSUME IInv, IInv', EntriesCounted, [Next]_vars, NEW r \in Slots, CreateServer(r),
         UNCHANGED <<phase, crashes>>, NEW s \in Servers
  PROVE  Counted(s)
<1>1. PICK t \in Servers :
        /\ \/ /\ servers' = CreateNewServer(t, req[r].ip)
              /\ req' = [req EXCEPT ![r].pc = "lockSave", ![r].id = t]
              /\ UNCHANGED faults
           \/ /\ servers' \in {servers, CreateNewServer(t, req[r].ip)}
              /\ Goto(r, "idle") /\ Fault
  BY DEF CreateServer, Fails
<1>2. CASE s = t /\ servers' = CreateNewServer(t, req[r].ip)
  <2>1. servers'[s].logs = 0
    BY <1>2 DEF CreateNewServer, Inserted, IInv, TypeOK
  <2> QED
    BY <2>1, StoreAssumption DEF Counted
<1>3. CASE s # t \/ servers' = servers
  <2>1. servers'[s].logs <= servers[s].logs
    BY <1>1, <1>3 DEF CreateNewServer, IInv, TypeOK, ServerRow
  <2>2. /\ \A q \in Slots \ {r} : req'[q] = req[q]
        /\ req[r].pc # "enforce" /\ req'[r].pc # "enforce"
        /\ Provisioning(r)' => req'[r].id = t /\ servers' = CreateNewServer(t, req[r].ip)
    BY <1>1 DEF CreateServer, At, Goto, Idle, Provisioning, IInv, TypeOK, Request
  <2>3. faults' >= faults
    BY <1>1 DEF Fault, IInv, TypeOK
  <2>4. FirstEntry(s)' <= FirstEntry(s)
    <3>1. CASE s # t
      BY <2>2, <3>1, FirstOnce
    <3>2. CASE servers' = servers /\ s = t
      <4>1. ~Provisioning(r)'
        BY <1>1, <3>2 DEF CreateServer, Goto, Idle, Provisioning, CreateNewServer, Inserted,
                          NextId, Fails, IInv, TypeOK
      <4> QED
        BY <2>2, <4>1, FirstOnce
    <3> QED
      BY <1>3, <3>1, <3>2
  <2>5. LimitPending(s)' = LimitPending(s) /\ Ends' = Ends
    BY <2>2, PendingSame DEF Ends
  <2> QED
    BY <2>1, <2>3, <2>4, <2>5, ResetOnce, SameCounts
<1> QED
  BY <1>1, <1>2, <1>3

LEMMA AppendCounted ==
  ASSUME IInv, IInv', EntriesCounted, [Next]_vars, NEW r \in Slots, AppendLog(r),
         UNCHANGED <<phase, crashes>>, NEW s \in Servers
  PROVE  Counted(s)
<1>1. /\ \A q \in Slots \ {r} : req'[q] = req[q]
      /\ FirstEntry(s)' <= FirstEntry(s)
      /\ ResetEntry(s)' <= ResetEntry(s)
      /\ Ends' = Ends
  <2>1. ~CreateServer(r)
    BY DEF AppendLog, CreateServer, At
  <2>2. SlotStep(r)
    BY DEF SlotStep
  <2> QED
    BY <2>1, <2>2, SlotMoves, FirstOnce, ResetOnce DEF Ends
<1>2. servers'[s].logs <= servers[s].logs + 1 /\ (s # req[r].id => servers'[s].logs = servers[s].logs)
  BY DEF AppendLog, AppendServerLifecycleLog, IInv, TypeOK, ServerRow
<1>3. /\ servers'[s].logs \in Nat /\ faults' \in Nat
      /\ FirstEntry(s)' \in 0 .. 1 /\ ResetEntry(s)' \in 0 .. 1
  BY DEF IInv, TypeOK, ServerRow, FirstEntry, ResetEntry
<1>4. CASE Ok(r, "enforce") /\ s = req[r].id
  <2>1. req'[r].pc = "enforce" /\ req'[r].id = s /\ r \notin LimitPending(s)
    BY <1>4 DEF AppendLog, LimitPending, At, Ok, Goto, IInv, TypeOK, Request
  <2>2. LimitPending(s)' = LimitPending(s) \cup {r}
    BY <1>1, <2>1 DEF LimitPending, At
  <2>3. Cardinality(LimitPending(s)') = Cardinality(LimitPending(s)) + 1
    BY <2>1, <2>2, PendingFinite, FS_AddElement
  <2>4. faults' = faults
    BY <1>4 DEF Ok
  <2> QED
    BY <1>1, <1>2, <1>3, <2>3, <2>4, CountsAreNumbers DEF Counted
<1>5. CASE Ok(r, "enforce") /\ s # req[r].id
  <2>1. LimitPending(s)' = LimitPending(s)
    BY <1>1, <1>5 DEF LimitPending, At, Ok, Goto, IInv, TypeOK, Request
  <2>2. faults' = faults
    BY <1>5 DEF Ok
  <2> QED
    BY <1>1, <1>2, <1>3, <1>5, <2>1, <2>2, CountsAreNumbers, SameCounts
<1>6. CASE Fails(r, AfterLog(req[r].op))
  <2>1. LimitPending(s)' = LimitPending(s)
    <3>1. req[r].pc # "enforce" /\ req'[r].pc # "enforce"
      BY <1>6 DEF AppendLog, At, Fails, Goto, AfterLog, Idle, IInv, TypeOK, Request
    <3> QED
      BY <1>1, <3>1, PendingSame
  <2>2. faults' = faults + 1
    BY <1>6 DEF Fails, Fault
  <2> QED
    BY <1>1, <1>2, <1>3, <2>1, <2>2, CountsAreNumbers DEF Counted
<1> QED
  BY <1>4, <1>5, <1>6 DEF AppendLog

LEMMA EnforceCounted ==
  ASSUME IInv, IInv', EntriesCounted, [Next]_vars, NEW r \in Slots, EnforceLimit(r),
         UNCHANGED <<phase, crashes>>, NEW s \in Servers
  PROVE  Counted(s)
<1>1. /\ \A q \in Slots \ {r} : req'[q] = req[q]
      /\ req'[r].pc # "enforce"
      /\ FirstEntry(s)' <= FirstEntry(s)
      /\ ResetEntry(s)' <= ResetEntry(s)
      /\ Ends' = Ends
  <2>1. ~CreateServer(r) /\ ~AppendLog(r)
    BY DEF EnforceLimit, CreateServer, AppendLog, At
  <2>2. SlotStep(r)
    BY DEF SlotStep
  <2> QED
    BY <2>1, <2>2, SlotMoves, FirstOnce, ResetOnce DEF Ends
<1>2. /\ servers'[s].logs <= servers[s].logs \/ servers'[s].logs <= LogLimit
      /\ servers' = EnforceLifecycleLogsLimit(req[r].id) /\ s = req[r].id => servers'[s].logs <= LogLimit
  BY StoreAssumption DEF EnforceLimit, EnforceLifecycleLogsLimit, IInv, TypeOK, ServerRow
<1>3. /\ servers'[s].logs \in Nat /\ faults' \in Nat
      /\ FirstEntry(s)' \in 0 .. 1 /\ ResetEntry(s)' \in 0 .. 1
  BY DEF IInv, TypeOK, ServerRow, FirstEntry, ResetEntry
<1>4. CASE s # req[r].id
  <2>1. LimitPending(s)' = LimitPending(s)
    BY <1>1, <1>4 DEF LimitPending, At
  <2>2. faults' >= faults
    BY DEF EnforceLimit, Ok, Fails, Fault, IInv, TypeOK
  <2> QED
    BY <1>1, <1>2, <2>1, <2>2, SameCounts
<1>5. CASE s = req[r].id /\ Ok(r, AfterLog(req[r].op)) /\ servers' = EnforceLifecycleLogsLimit(req[r].id)
  BY <1>2, <1>5 DEF Counted
<1>6. CASE s = req[r].id /\ Fails(r, AfterLog(req[r].op))
  <2>1. LimitPending(s)' = LimitPending(s) \ {r} /\ r \in LimitPending(s)
    BY <1>1, <1>6 DEF LimitPending, EnforceLimit, At
  <2>2. Cardinality(LimitPending(s)') = Cardinality(LimitPending(s)) - 1
    BY <2>1, PendingFinite, FS_RemoveElement
  <2>3. faults' = faults + 1
    BY <1>6 DEF Fails, Fault
  <2> QED
    BY <1>1, <1>2, <1>3, <2>2, <2>3, CountsAreNumbers DEF Counted
<1> QED
  BY <1>4, <1>5, <1>6 DEF EnforceLimit

\* The first entry is written: it is expected no longer.
LEMMA ProvisionLogCounted ==
  ASSUME IInv, IInv', ProvisioningApart, EntriesCounted, [Next]_vars, NEW r \in Slots,
         ProvisionLog(r), UNCHANGED <<phase, crashes>>, NEW s \in Servers
  PROVE  Counted(s)
<1>1. /\ \A q \in Slots \ {r} : req'[q] = req[q]
      /\ req[r].pc = "provLog" /\ req'[r] = Idle
      /\ faults' >= faults
  BY DEF ProvisionLog, At, Ok, Fails, Goto, Fault, IInv, TypeOK
<1>2. /\ ResetEntry(s)' <= ResetEntry(s)
      /\ Ends' = Ends
      /\ LimitPending(s)' = LimitPending(s)
  BY <1>1, ResetOnce, PendingSame DEF Ends, Idle
<1>3. CASE s # req[r].id
  <2>1. servers'[s].logs = servers[s].logs
    BY <1>3 DEF ProvisionLog, AppendServerLifecycleLog, IInv, TypeOK, ServerRow
  <2>2. FirstEntry(s)' <= FirstEntry(s)
    BY <1>1, FirstOnce DEF Provisioning, Idle
  <2> QED
    BY <1>1, <1>2, <2>1, <2>2, CountsAreNumbers, SameCounts
<1>4. CASE s = req[r].id
  <2>1. servers'[s].logs <= servers[s].logs + 1
    BY DEF ProvisionLog, AppendServerLifecycleLog, IInv, TypeOK, ServerRow
  <2>2. FirstEntry(s) = 1
    BY <1>1, <1>4 DEF FirstEntry, Provisioning
  <2>3. FirstEntry(s)' = 0
    <3>1. ASSUME NEW q \in Slots, Provisioning(q)', req'[q].id = s
          PROVE  FALSE
      BY <1>1, <1>4, <3>1 DEF ProvisioningApart, Provisioning, Idle
    <3> QED
      BY <3>1 DEF FirstEntry
  <2>4. /\ servers'[s].logs \in Nat /\ faults' \in Nat
        /\ ResetEntry(s)' \in 0 .. 1
    BY DEF IInv, TypeOK, ServerRow, ResetEntry
  <2> QED
    BY <1>1, <1>2, <2>1, <2>2, <2>3, <2>4, CountsAreNumbers DEF Counted
<1> QED
  BY <1>3, <1>4

LEMMA OtherStepCounted ==
  ASSUME IInv, IInv', EntriesCounted, [Next]_vars, NEW r \in Slots, SlotStep(r),
         ~CreateServer(r), ~AppendLog(r), ~EnforceLimit(r), ~ProvisionLog(r),
         UNCHANGED <<phase, crashes>>, NEW s \in Servers
  PROVE  Counted(s)
<1>1. /\ \A q \in Slots \ {r} : req'[q] = req[q]
      /\ Provisioning(r)' => Provisioning(r) /\ req'[r].id = req[r].id
      /\ req'[r].pc # "enforce"
      /\ faults' >= faults
  BY SlotMoves DEF Fault, IInv, TypeOK
<1>2. req[r].pc # "enforce"
  BY DEF SlotStep, LockSelect, SelectIP, LockSave, SaveAllocatedIP, UpdateStatus, GetIP,
         Deallocate, Refetch, At
<1>3. servers'[s].logs = servers[s].logs
  BY DEF SlotStep, LockSelect, SelectIP, LockSave, SaveAllocatedIP, UpdateStatus, GetIP,
         Deallocate, Refetch, UpdateServerStatus, storeVars, IInv, TypeOK, ServerRow
<1>4. /\ FirstEntry(s)' <= FirstEntry(s)
      /\ LimitPending(s)' = LimitPending(s)
      /\ Ends' = Ends
  BY <1>1, <1>2, FirstOnce, PendingSame DEF Ends
<1> QED
  BY <1>1, <1>3, <1>4, CountsAreNumbers, ResetOnce, SameCounts

LEMMA HandlerLogInv ==
  ASSUME IInv, IInv', LogInv, [Next]_vars, NEW r \in Slots, HandlerStep(r)
  PROVE  LogInv'
<1>1. SlotStep(r) /\ Running /\ UNCHANGED <<phase, crashes>>
  BY DEF HandlerStep, startupVars
<1>2. RequestsEnd'
  BY <1>1 DEF RequestsEnd, Running
<1>3. ProvisioningApart'
  <2>1. CASE CreateServer(r)
    <3>1. ASSUME NEW q \in Slots \ {r}, Provisioning(q)', Provisioning(r)'
          PROVE  req'[q].id # req'[r].id
      <4>1. /\ req'[q] = req[q]
            /\ servers[req'[r].id].status = "absent"
        BY <2>1, <3>1 DEF CreateServer, NextId, Fails, Goto, Idle, Provisioning, IInv, TypeOK, Request
      <4> QED
        BY <3>1, <4>1 DEF Provisioning, IInv, ActsOnRow
    <3>2. \A q \in Slots \ {r} : req'[q] = req[q]
      BY <2>1 DEF CreateServer, Fails, Goto, IInv, TypeOK
    <3> QED
      BY <3>1, <3>2 DEF LogInv, ProvisioningApart, Provisioning
  <2>2. CASE ~CreateServer(r)
    BY <1>1, <2>2, SlotMoves DEF LogInv, ProvisioningApart, Provisioning
  <2> QED
    BY <2>1, <2>2
<1>4. ASSUME NEW s \in Servers
      PROVE  Counted(s)
  BY <1>1, CreateCounted, AppendCounted, EnforceCounted, ProvisionLogCounted, OtherStepCounted
     DEF LogInv
<1>5. EntriesCounted'
  BY <1>1, <1>4, CountedKeeps DEF LogInv, EntriesCounted
<1> QED
  BY <1>2, <1>3, <1>5 DEF LogInv

\* A new request expects nothing yet.
LEMMA ClientLogInv ==
  ASSUME IInv, IInv', LogInv, [Next]_vars, NEW r \in Slots, ClientStep(r)
  PROVE  LogInv'
<1>1. Serving /\ UNCHANGED <<servers, faults, phase, crashes>>
  BY DEF ClientStep, Arrival, ProvisionRequest, ActionRequest, RejectedRequest, storeVars, startupVars
<1>2. /\ \A q \in Slots \ {r} : req'[q] = req[q]
      /\ ~Provisioning(r)' /\ req[r].pc # "enforce" /\ req'[r].pc # "enforce"
  BY DEF ClientStep, Arrival, ProvisionRequest, ActionRequest, RejectedRequest, At, FirstPc,
         Provisioning, serviceVars, IInv, TypeOK
<1>3. RequestsEnd' /\ ProvisioningApart'
  BY <1>1, <1>2 DEF Serving, Running, RequestsEnd, LogInv, ProvisioningApart, Provisioning
<1>4. ASSUME NEW s \in Servers
      PROVE  Counted(s)
  <2>1. /\ FirstEntry(s)' <= FirstEntry(s)
        /\ LimitPending(s)' = LimitPending(s)
        /\ Ends' = Ends
    BY <1>1, <1>2, FirstOnce, PendingSame DEF Ends
  <2> QED
    BY <1>1, <2>1, CountsAreNumbers, ResetOnce, SameCounts DEF LogInv
<1> QED
  BY <1>1, <1>3, <1>4, CountedKeeps DEF LogInv, EntriesCounted

----------------------------------------------------------------------------
(* The daemon, the clock and main. *)

\* A step of somebody else than a request that writes no entry.
LEMMA BesideRequests ==
  ASSUME IInv, IInv', LogInv, [Next]_vars, req' = req, faults' = faults \/ Fault,
         \A s \in Servers : servers'[s].logs = servers[s].logs,
         Ends' = Ends,
         phase' = "draining" => crashes' > 0,
         Running => Running'
  PROVE  LogInv'
<1>1. RequestsEnd' /\ ProvisioningApart'
  BY DEF LogInv, RequestsEnd, ProvisioningApart, Provisioning
<1>2. ASSUME NEW s \in Servers
      PROVE  Counted(s)
  <2>1. FirstEntry(s)' = FirstEntry(s) /\ LimitPending(s)' = LimitPending(s)
    BY DEF FirstEntry, Provisioning, LimitPending, At
  <2>2. faults' >= faults
    BY DEF Fault, IInv, TypeOK
  <2> QED
    BY <2>1, <2>2, CountsAreNumbers, ResetOnce, SameCounts DEF LogInv
<1> QED
  BY <1>1, <1>2, CountedKeeps DEF LogInv

LEMMA DaemonLogInv ==
  ASSUME IInv, IInv', LogInv, [Next]_vars, DaemonStep
  PROVE  LogInv'
<1>1. UNCHANGED <<req, phase, crashes>>
  BY DEF DaemonStep, serviceVars, startupVars
<1>2. \A s \in Servers : servers'[s].logs = servers[s].logs
  <2>1. CASE StartPass \/ ListRunning
    BY <2>1 DEF StartPass, ListRunning, storeVars
  <2>2. CASE BillServer
    BY <2>2 DEF BillServer, UpdateServerUptime, IInv, TypeOK, ServerRow
  <2>3. CASE ReapServer
    BY <2>3 DEF ReapServer, UpdateServerStatus, IInv, TypeOK, ServerRow
  <2> QED
    BY <2>1, <2>2, <2>3 DEF DaemonStep, DaemonNext, PassStep
<1>3. faults' = faults \/ Fault
  BY DEF DaemonStep, DaemonNext, PassStep, StartPass, ListRunning, BillServer, ReapServer, storeVars
<1> QED
  BY <1>1, <1>2, <1>3, BesideRequests DEF Ends, Running, LogInv, EntriesCounted

\* While main starts up no request is there; the entry of the restart is written.
LEMMA MainLogInv ==
  ASSUME IInv, IInv', LogInv, [Next]_vars, MainStep
  PROVE  LogInv'
<1>1. /\ ~Running /\ phase' # "draining"
      /\ Ends' = Ends
      /\ req' = req
      /\ faults' = faults \/ Fault
      /\ servers' \in {servers, TerminateAllServers}
  BY DEF MainStep, BootStep, Launch, Start, Connect, TerminateAll, Truncate, Populate, Serve,
         Done, Flawed, SchemaMissing, Running, Ends, serviceVars, storeVars
<1>2. \A r \in Slots : req[r] = Idle
  BY <1>1 DEF LogInv, RequestsEnd
<1>3. CASE servers' = servers
  BY <1>1, <1>3, BesideRequests
<1>4. CASE servers' = TerminateAllServers
  <2>1. RequestsEnd' /\ ProvisioningApart'
    BY <1>1, <1>2 DEF RequestsEnd, ProvisioningApart, Provisioning, Idle
  <2>2. ASSUME NEW s \in Servers
        PROVE  Counted(s)
    <3>1. FirstEntry(s)' = FirstEntry(s) /\ LimitPending(s)' = LimitPending(s)
      BY <1>1 DEF FirstEntry, Provisioning, LimitPending, At
    <3>2. faults' >= faults
      BY <1>1 DEF Fault, IInv, TypeOK
    <3>3. CASE servers[s].status \notin Live
      <4>1. servers'[s].logs = servers[s].logs
        BY <1>4, <3>3 DEF TerminateAllServers
      <4> QED
        BY <1>1, <3>1, <3>2, <4>1, CountsAreNumbers, ResetOnce, SameCounts DEF LogInv
    <3>4. CASE servers[s].status \in Live
      <4>1. servers'[s].status = "terminated" /\ servers'[s].logs = servers[s].logs + 1
        BY <1>4, <3>4 DEF TerminateAllServers, IInv, TypeOK, ServerRow
      <4>2. ResetEntry(s) = 1 /\ ResetEntry(s)' = 0
        BY <1>1, <1>2, <3>4, <4>1, StoreConstants DEF ResetEntry, Working, Idle, Live
      <4>3. faults' \in Nat
        BY DEF IInv, TypeOK
      <4> QED
        BY <1>1, <3>1, <3>2, <4>1, <4>2, <4>3, CountsAreNumbers DEF Counted, LogInv
    <3> QED
      BY <3>3, <3>4
  <2> QED
    BY <1>1, <2>1, <2>2, CountedKeeps DEF LogInv
<1> QED
  BY <1>1, <1>3, <1>4

\* The end of the process prevents at most one enforcement per request.
LEMMA EndLogInv ==
  ASSUME IInv, IInv', LogInv, [Next]_vars, Crash \/ Exit \/ ShutdownTimesOut
  PROVE  LogInv'
<1>1. PICK as \in {"down", "stopped"} : Ended(as)
  BY DEF Crash, Exit, ShutdownTimesOut
<1>2. \A r \in Slots : req'[r] = Idle
  BY <1>1 DEF Ended
<1>3. RequestsEnd' /\ ProvisioningApart'
  BY <1>2 DEF RequestsEnd, ProvisioningApart, Provisioning, Idle
<1>4. Ends \in Nat /\ Ends' \in Nat /\ Ends' >= Ends + 1
  <2>1. crashes \in Nat /\ Ends' = crashes' /\ (phase = "draining" => crashes > 0)
    BY <1>1 DEF Ended, Ends, LogInv, EntriesCounted, IInv, TypeOK
  <2>2. \A c \in Nat : c > 0 => c - 1 \in Nat
    OBVIOUS
  <2>3. CASE phase = "draining"
    BY <2>1, <2>2, <2>3 DEF Ends, Crash, Exit, ShutdownTimesOut
  <2>4. CASE phase # "draining"
    BY <2>1, <2>4 DEF Ends, Crash, Exit, ShutdownTimesOut
  <2> QED
    BY <2>3, <2>4
<1>5. Ends' * Cardinality(Slots) >= Ends * Cardinality(Slots) + Cardinality(Slots)
  <2>1. \A k, m, n \in Nat : m >= k + 1 => m * n >= k * n + n
    OBVIOUS
  <2> QED
    BY <1>4, <2>1, SlotsFinite
<1>6. Ends' * Cardinality(Slots) \in Nat
  <2>1. \A m, n \in Nat : m * n \in Nat
    OBVIOUS
  <2> QED
    BY <1>4, <2>1, SlotsFinite
<1>7. ASSUME NEW s \in Servers
      PROVE  Counted(s)
  <2>1. servers'[s] = servers[s] /\ faults' = faults
    BY <1>1 DEF Ended, storeVars
  <2>2. FirstEntry(s)' = 0
    BY <1>2 DEF FirstEntry, Provisioning, Idle
  <2>3. Cardinality(LimitPending(s)') = 0
    <3>1. LimitPending(s)' = {}
      BY <1>2 DEF LimitPending, At, Idle
    <3> QED
      BY <3>1, FS_EmptySet
  <2>4. ResetEntry(s)' <= ResetEntry(s) /\ ResetEntry(s)' \in 0 .. 1
    BY ResetOnce DEF ResetEntry
  <2> QED
    BY <1>5, <1>6, <2>1, <2>2, <2>3, <2>4, CountsAreNumbers, PendingFinite, SlotsFinite
       DEF Counted, LogInv
<1> QED
  BY <1>1, <1>3, <1>7, CountedKeeps DEF Ended, LogInv

LEMMA LogNextInv ==
  ASSUME IInv, LogInv, [Next]_vars
  PROVE  LogInv'
<1>1. IInv'
  BY NextInv
<1>2. ASSUME ClockStep \/ UNCHANGED vars
      PROVE  LogInv'
  <2>1. UNCHANGED <<servers, faults, req, phase, crashes>>
    BY <1>2 DEF ClockStep, Tick, vars, storeVars, serviceVars, startupVars
  <2> QED
    BY <1>1, <2>1, BesideRequests DEF Ends, Running, LogInv, EntriesCounted
<1>3. CASE StartedAgain
  <2>1. /\ UNCHANGED <<servers, faults, req, crashes>>
        /\ phase = "stopped" /\ phase' = "connect"
    BY <1>3 DEF StartedAgain, StartAgain, Start, storeVars, serviceVars
  <2> QED
    BY <1>1, <2>1, BesideRequests DEF Ends, Running
<1>4. CASE Signal
  <2>1. /\ UNCHANGED <<servers, faults, req>>
        /\ phase = "serving" /\ phase' = "draining" /\ crashes' = crashes + 1
    BY <1>4 DEF Signal, Serving, storeVars, serviceVars
  <2>2. crashes \in Nat
    BY DEF IInv, TypeOK
  <2>3. Ends' = Ends /\ crashes' > 0
    BY <2>1, <2>2 DEF Ends
  <2> QED
    BY <1>1, <2>1, <2>3, BesideRequests DEF Running
<1> QED
  BY <1>1, <1>2, <1>3, <1>4, ClientLogInv, HandlerLogInv, DaemonLogInv, MainLogInv, EndLogInv
     DEF Next

LEMMA LogInvInit ==
  ASSUME Init
  PROVE  LogInv
<1>1. \A r \in Slots : req[r] = Idle
  BY DEF Init, ServiceInit
<1>2. RequestsEnd /\ ProvisioningApart
  BY <1>1 DEF RequestsEnd, ProvisioningApart, Provisioning, Idle
<1>3. EntriesCounted
  <2> SUFFICES ASSUME NEW s \in Servers
               PROVE  servers[s].logs + FirstEntry(s) + ResetEntry(s)
                        <= LogLimit + Cardinality(LimitPending(s)) + faults
                             + Ends * Cardinality(Slots) + 2
    BY DEF EntriesCounted, Init, StartupInit
  <2>1. servers[s].logs = 0 /\ faults = 0 /\ Ends = 0
    BY DEF Init, StoreInit, StartupInit, NoRow, Ends
  <2>2. FirstEntry(s) \in 0 .. 1 /\ ResetEntry(s) \in 0 .. 1
    BY DEF FirstEntry, ResetEntry
  <2>3. Ends * Cardinality(Slots) = 0
    BY <2>1, SlotsFinite
  <2> QED
    BY <2>1, <2>2, <2>3, PendingFinite, StoreAssumption
<1> QED
  BY <1>2, <1>3 DEF LogInv

\* A log outgrows its limit only by entries whose enforcement is still to come
\* or was lost to a failed statement or an end of the process, and by two more,
\* for any number of handlers.
THEOREM LogsBounded == Spec => []LogBounded
<1>1. Init => LogInv
  BY LogInvInit
<1>2. IInv /\ LogInv /\ [Next]_vars => LogInv'
  BY LogNextInv
<1>3. IInv /\ LogInv => LogBounded
  <2> SUFFICES ASSUME IInv, LogInv, NEW s \in Servers
               PROVE  servers[s].logs <= LogLimit + Cardinality(LimitPending(s))
                                          + faults + crashes * Cardinality(Slots) + 2
    BY DEF LogBounded
  <2>1. servers[s].logs + FirstEntry(s) + ResetEntry(s)
          <= LogLimit + Cardinality(LimitPending(s)) + faults + Ends * Cardinality(Slots) + 2
    BY DEF LogInv, EntriesCounted
  <2>2. Ends \in Nat /\ crashes \in Nat /\ Ends <= crashes
    BY CountsAreNumbers DEF LogInv, Ends, IInv, TypeOK
  <2>3. \A k, m, n \in Nat : k <= m => k * n <= m * n /\ k * n \in Nat /\ m * n \in Nat
    OBVIOUS
  <2>4. /\ Ends * Cardinality(Slots) <= crashes * Cardinality(Slots)
        /\ crashes * Cardinality(Slots) \in Nat
    BY <2>2, <2>3, SlotsFinite
  <2> QED
    BY <2>1, <2>4, CountsAreNumbers, StoreAssumption DEF LogInv
<1> QED
  BY Invariant, <1>1, <1>2, <1>3, PTL DEF Spec
=============================================================================
