---------------------------- MODULE ServerTable ----------------------------
(***************************************************************************)
(* What the table servers promises those who only read it: rows appear one *)
(* after the other and never disappear, an uptime never shrinks, a server  *)
(* that has not been started is neither charged nor stopped and none       *)
(* returns to "provisioning"; one row changes at a time, except when the   *)
(* program starts.  Abstract specification: SystemRefinement shows that    *)
(* the program implements it, and the readers (Metrics, Paging) are        *)
(* checked against a table that may do all of it.                          *)
(***************************************************************************)
EXTENDS Fsm, Integers, FiniteSets

CONSTANTS
  Ids,       \* ids of the rows, numbered in the order of created_at
  Uptimes    \* what the column uptime_seconds may hold

ASSUME TableAssumption == Ids \subseteq Nat /\ Uptimes \subseteq Nat /\ 0 \in Uptimes

VARIABLE table   \* the row of every id: what readers look at

Row == [status: Status \cup {"absent"}, uptime: Uptimes]

TableInit == table = [i \in Ids |-> [status |-> "absent", uptime |-> 0]]

Present == {i \in Ids : table[i].status # "absent"}

Insert(i) ==
  /\ i \notin Present
  /\ \A j \in Ids : j < i => j \in Present
  /\ table'[i] = [status |-> "provisioning", uptime |-> 0]

ChangeStatus(i) ==
  /\ i \in Present
  /\ table'[i].status \in Status \ {"provisioning"}
  /\ table[i].status = "provisioning" => table'[i].status # "stopped"
  /\ table'[i].uptime = table[i].uptime

Charge(i) ==
  /\ table[i].status \notin {"absent", "provisioning"}
  /\ table'[i].status = table[i].status
  /\ table'[i].uptime >= table[i].uptime

Write(i) ==
  /\ table' \in [Ids -> Row]
  /\ Insert(i) \/ ChangeStatus(i) \/ Charge(i)
  /\ \A j \in Ids \ {i} : table'[j] = table[j]

\* The program starts.
Reset ==
  table' = [i \in Ids |-> IF table[i].status \in Live
                            THEN [table[i] EXCEPT !.status = "terminated"]
                            ELSE table[i]]

TableNext == Reset \/ \E i \in Ids : Write(i)

TableSpec == TableInit /\ [][TableNext]_table
=============================================================================
