------------------------------ MODULE Metrics ------------------------------
(***************************************************************************)
(* The metrics updater (internal/services/metrics.go): a goroutine that    *)
(* every 30 seconds reads the table servers, empties its three vectors and *)
(* fills them again, one child after the other.  Prometheus (external)     *)
(* collects the vectors whenever it likes, one at a time; each call on a   *)
(* vector is atomic, nothing spans two calls.                              *)
(*                                                                         *)
(* The children are labelled with the column name, which is not unique.    *)
(* The counter of the hourly cost counts the servers that were added to    *)
(* it: what one of them adds is data.                                      *)
(***************************************************************************)
EXTENDS ServerTable, FiniteSetsExt

VARIABLES
  name,      \* the column name, as the first server that has it
  updater,   \* the pass in progress: its next call, its row, the rows left
  export,    \* the vectors, as functions on their children, and the gauge
  scraped    \* labels Prometheus has seen in the vector of the statuses

metricsVars == <<updater, export, scraped>>

Vectors == {"status", "uptime", "cost"}

\* A vector after Reset, and before the first pass.
NoChildren == [l \in {} |-> 0]

NoExport == [total |-> 0, status |-> NoChildren, uptime |-> NoChildren, cost |-> NoChildren]

NoWork == [pc |-> "idle", row |-> 0, left |-> {}, rows |-> NoChildren]

MetricsInit ==
  /\ name \in {f \in [Ids -> Ids] : \A i \in Ids : f[i] <= i /\ f[f[i]] = f[i]}
  /\ updater = NoWork
  /\ export = NoExport
  /\ scraped = {}

\* getStatusNumber
StatusNumber(status) ==
  CASE status = "running"    -> 1
    [] status = "stopped"    -> 2
    [] status = "terminated" -> 3
    [] OTHER                 -> 0

SelectAllServers_Live == {i \in Ids : table[i].status \in Live}

SelectAllServers == Present

\* The ticker ticks and updateMetrics reads all rows, in no particular order.
Select ==
  /\ updater.pc = "idle"
  /\ updater' = [pc |-> "resetStatus", row |-> 0, left |-> SelectAllServers,
                 rows |-> [i \in SelectAllServers |-> table[i]]]
  /\ UNCHANGED <<export, scraped>>

\* When the SELECT fails the vectors stay what they were.
SelectFails == updater.pc = "idle" /\ UNCHANGED metricsVars

ResetOf == [resetStatus |-> "status", resetUptime |-> "uptime", resetCost |-> "cost"]

AfterReset_SkipsCost(pc) == IF pc = "resetStatus" THEN "resetUptime" ELSE "total"

AfterReset(pc) ==
  CASE pc = "resetStatus" -> "resetUptime"
    [] pc = "resetUptime" -> "resetCost"
    [] pc = "resetCost"   -> "total"

\* Each Reset drops the children of one vector.
ResetVector ==
  /\ updater.pc \in DOMAIN ResetOf
  /\ export' = [export EXCEPT ![ResetOf[updater.pc]] = NoChildren]
  /\ updater' = [updater EXCEPT !.pc = AfterReset(@)]
  /\ UNCHANGED scraped

\* The loop goes on with one of the rows left, or the pass ends.
NextRow(left) ==
  IF left = {}
    THEN updater' = NoWork
    ELSE \E i \in left :
           updater' = [pc |-> "status", row |-> i, left |-> left \ {i},
                       rows |-> [j \in left |-> updater.rows[j]]]

SetTotal ==
  /\ updater.pc = "total"
  /\ export' = [export EXCEPT !.total = Cardinality(DOMAIN updater.rows)]
  /\ NextRow(updater.left)
  /\ UNCHANGED scraped

\* The vector gets the value x for the label l.
With(vector, l, x) == [k \in DOMAIN vector \cup {l} |-> IF k = l THEN x ELSE vector[k]]

Value_Accumulates(v, old, row) ==
  CASE v = "status" -> StatusNumber(row.status)
    [] v = "cost"   -> old + 1
    [] v = "uptime" -> old + row.uptime

\* What the child is set to, or for the cost comes to.
Value(v, old, row) ==
  CASE v = "status" -> StatusNumber(row.status)
    [] v = "cost"   -> old + 1
    [] v = "uptime" -> row.uptime

\* WithLabelValues, which creates a child of value 0 for a new label, and Set or
\* Add.
SetValue(v) ==
  LET l == name[updater.row]
      old == IF l \in DOMAIN export[v] THEN export[v][l] ELSE 0
  IN
  /\ updater.pc = v
  /\ export' = [export EXCEPT ![v] = With(@, l, Value(v, old, updater.rows[updater.row]))]
  /\ CASE v = "status" -> updater' = [updater EXCEPT !.pc = "cost"]
       [] v = "cost"   -> updater' = [updater EXCEPT !.pc = "uptime"]
       [] v = "uptime" -> NextRow(updater.left)
  /\ UNCHANGED scraped

UpdaterStep ==
  Select \/ ResetVector \/ SetTotal \/ \E v \in Vectors : SetValue(v)

\* Prometheus collects the vector of the statuses, wherever the pass is.
Collect ==
  /\ scraped' = scraped \cup DOMAIN export.status
  /\ UNCHANGED <<updater, export>>

----------------------------------------------------------------------------
\* The cost of a name never counts a server twice, nor one that does not have
\* the name, wherever a pass is and whoever shares it; and when a pass is over
\* the costs account for all the servers the gauge counts.
CostsFit ==
  /\ \A l \in DOMAIN export.cost :
       export.cost[l] <= Cardinality({i \in Present : name[i] = l})
  /\ updater.pc = "idle" =>
       export.total = MapThenSumSet(LAMBDA l : export.cost[l], DOMAIN export.cost)

\* An exported uptime is never ahead of the table, in the middle of a pass and
\* with names that collide as well: some server of that name has at least it.
ExportedUptimePast ==
  \A l \in DOMAIN export.uptime :
    \E i \in Present : name[i] = l /\ export.uptime[l] <= table[i].uptime

\* The rows whose status the pass is still to export.
Coming == updater.left \cup (IF updater.pc = "status" THEN {updater.row} ELSE {})

\* Resetting the vector of the statuses, which shows terminated servers as 3,
\* loses nobody for longer than a pass: a name that Prometheus has seen in it is
\* there, or the pass is about to put it there again.
NoLabelVanishes == scraped \subseteq DOMAIN export.status \cup {name[i] : i \in Coming}
=============================================================================
