---------------------------- MODULE BillingFloor ----------------------------
(***************************************************************************)
(* The system with a note, which the program does not see, of what the     *)
(* pass of the daemon has found and in which statements it has failed:     *)
(* BillingAudit compares the bill with what is due from above, this module *)
(* from below.                                                             *)
(***************************************************************************)
EXTENDS SystemRefinement

VARIABLE note   \* what is to be known of the pass in progress

floorVars == <<vars, note>>

\* When the servers were listed; the uptime each of them had reached by then,
\* if it was running; those the pass has failed to charge and to terminate.
Note == [listed: Nat, due: [Servers -> Nat],
         unbilled: SUBSET Servers, unreaped: SUBSET Servers]

NoNote == [listed |-> 0, due |-> [s \in Servers |-> 0], unbilled |-> {}, unreaped |-> {}]

FloorInit == Init /\ note = NoNote

\* The uptime of a server up to now: what it was charged, and the time since.
Reached(s) ==
  IF servers[s].status = "running"
    THEN servers[s].uptime + (now - servers[s].lastStatusUpdate)
    ELSE 0

ListedAt == IF daemon.pc = "list" THEN now ELSE note.listed

Due == IF daemon.pc = "list" THEN [s \in Servers |-> Reached(s)] ELSE note.due

\* A statement of the daemon fails, for the servers it is about.
FailsFor(s) ==
  /\ faults' # faults /\ daemon' # daemon
  /\ daemon.pc = "list" \/ Current(s)

Unbilled == note.unbilled \cup {s \in Servers : FailsFor(s) /\ daemon.pc # "reap"}

Unreaped == note.unreaped \cup {s \in Servers : FailsFor(s) /\ daemon.pc # "bill"}

PassNoted ==
  note' = IF daemon'.pc \in {"idle", "list"} THEN NoNote
            ELSE [listed |-> ListedAt, due |-> Due,
                  unbilled |-> Unbilled, unreaped |-> Unreaped]

FloorNext == Next /\ PassNoted

FloorSpec == FloorInit /\ [][FloorNext]_floorVars

FairFloorSpec == FloorSpec /\ Fairness

\* The pass comes to its end and not the process.
PassDone == daemon.pc # "idle" /\ daemon'.pc = "idle" /\ Running'

\* A pass of processBilling leaves every server that was running when it
\* listed them charged at least for the time until then, whoever has stopped,
\* started, rebooted or terminated it meanwhile, whoever had to be reaped or
\* could not be charged before it in the list, and whatever became of earlier
\* passes.  Only a server whose own UPDATE has failed is left out.
PassCharges ==
  [][PassDone => \A s \in Servers \ Unbilled : servers'[s].uptime >= Due[s]]_floorVars

\* A pass leaves nobody running with an uptime above the limit but servers that
\* have got there by a status written after they were listed, and those whose
\* own termination has failed: the reaper decides on a sum of what was listed,
\* which may never have been written, and yet misses nobody.
PassReaps ==
  [][PassDone =>
       \A s \in Servers \ Unreaped :
         servers'[s].status = "running" /\ servers'[s].uptime > ReapAfter
           => servers'[s].lastStatusUpdate >= ListedAt]_floorVars
=============================================================================
