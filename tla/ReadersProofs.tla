---------------------------- MODULE ReadersProofs ----------------------------
(***************************************************************************)
(* Proofs about the readers for any number of rows.                        *)
(*                                                                         *)
(* The metrics: what is exported never runs ahead of the table, the total  *)
(* never shrinks while the process lives, and a name that has been scraped *)
(* among the statuses is there or to come.  The last rests on what every   *)
(* vector will have at the end of the pass: the children it has now and    *)
(* the names of the rows it still gets.                                    *)
(*                                                                         *)
(* No cost counts a server twice, since the rows a pass is still to count  *)
(* have not been counted yet (CostsPast), and at the end of a pass the     *)
(* costs account for the whole total: each row of the pass is counted in   *)
(* the cost of its name or is still to come (CostsCounted).  Sums over a   *)
(* set are turned into numbers of pairs, whose cardinalities the provers   *)
(* know (SumIsUnits); Smallest stands in for an induction over finite      *)
(* sets.                                                                   *)
(*                                                                         *)
(* The walk through the list, for any length of a page: it misses no more  *)
(* rows than parted and repeats no more than joined.  Both rest on one     *)
(* fact about two lists (Shift): when one changes into the other, no more  *)
(* rows come to stand past a place than have joined.                       *)
(***************************************************************************)
EXTENDS Readers, FiniteSetTheorems, WellFoundedInduction, TLAPS

\* The pass has not come to its loop over the rows.
Resetting == {"resetStatus", "resetUptime", "resetCost", "total"}

\* What a pass works on: rows it has read, of servers that exist.
UpdaterTyped ==
  /\ table \in [Ids -> Row]
  /\ name \in [Ids -> Ids]
  /\ updater = [pc |-> updater.pc, row |-> updater.row, left |-> updater.left, rows |-> updater.rows]
  /\ export = [total |-> export.total, status |-> export.status,
               uptime |-> export.uptime, cost |-> export.cost]
  /\ updater.pc \in {"idle"} \cup Resetting \cup Vectors
  /\ updater.left \subseteq DOMAIN updater.rows
  /\ DOMAIN updater.rows \subseteq Present
  /\ updater.pc = "idle" => updater.left = {}
  /\ updater.pc \in Vectors => updater.row \in DOMAIN updater.rows

\* No uptime that was read, and none that is exported, is ahead of the table.
RowsPast ==
  \A i \in DOMAIN updater.rows :
    updater.rows[i].uptime \in Nat /\ updater.rows[i].uptime <= table[i].uptime

UptimesPast ==
  \A l \in DOMAIN export.uptime :
    /\ export.uptime[l] \in Nat
    /\ \E i \in Present : name[i] = l /\ export.uptime[l] <= table[i].uptime

TotalPast ==
  /\ export.total \in Nat
  /\ export.total <= Cardinality(Present)
  /\ updater.pc \in Resetting => export.total <= Cardinality(DOMAIN updater.rows)

Names(rows) == {name[i] : i \in rows}

\* The pass sets the vectors in this order.
NotYet(v) ==
  CASE v = "status" -> {"status"}
    [] v = "cost"   -> {"status", "cost"}
    [] v = "uptime" -> {"status", "cost", "uptime"}

Pending(v) == updater.left \cup (IF updater.pc \in NotYet(v) THEN {updater.row} ELSE {})

Promised(v) == DOMAIN export[v] \cup Names(Pending(v))

NamesKept ==
  /\ \A v \in Vectors : DOMAIN export[v] \subseteq Names(Present)
  /\ \A v, w \in Vectors : Promised(v) = Promised(w)
  /\ \A v \in Vectors : scraped \subseteq Promised(v)
  /\ updater.pc \in Resetting =>
       \A v \in Vectors : DOMAIN export[v] \subseteq Names(updater.left)

ReadersInv == UpdaterTyped /\ RowsPast /\ UptimesPast /\ TotalPast /\ NamesKept

----------------------------------------------------------------------------
\* Whatever the writers do, rows stay and uptimes do not shrink.
LEMMA TableForward ==
  ASSUME table \in [Ids -> Row], WriterStep \/ Restart
  PROVE  /\ table' \in [Ids -> Row]
         /\ Present \subseteq Present'
         /\ \A i \in Present : /\ table[i].uptime \in Nat /\ table'[i].uptime \in Nat
                               /\ table[i].uptime <= table'[i].uptime
<1>1. CASE WriterStep
  <2>1. PICK i \in Ids : Write(i)
    BY <1>1 DEF WriterStep
  <2>2. table' \in [Ids -> Row] /\ \A j \in Ids \ {i} : table'[j] = table[j]
    BY <2>1 DEF Write
  <2>3. \A j \in Ids : /\ table[j].uptime \in Nat /\ table'[j].uptime \in Nat
                       /\ table[j].status # "absent" => table'[j].status # "absent"
                       /\ table[j].status # "absent" => table[j].uptime <= table'[j].uptime
    <3>1. \A j \in Ids : table[j].uptime \in Nat /\ table'[j].uptime \in Nat
      BY <2>2, TableAssumption DEF Row
    <3>2. table[i].status # "absent" => /\ table'[i].status # "absent"
                                        /\ table[i].uptime <= table'[i].uptime
      BY <2>1, <3>1 DEF Write, Insert, ChangeStatus, Charge, Present, Status
    <3> QED
      BY <2>2, <3>1, <3>2
  <2> QED
    BY <2>2, <2>3 DEF Present
<1>2. CASE Restart
  <2>1. \A i \in Ids : /\ table'[i] \in Row /\ table[i].uptime \in Nat
                       /\ table'[i].uptime = table[i].uptime
                       /\ table[i].status # "absent" => table'[i].status # "absent"
    BY <1>2, TableAssumption DEF Restart, Reset, Row, Status, Live
  <2>2. table' \in [Ids -> Row]
    BY <1>2, <2>1 DEF Restart, Reset
  <2> QED
    BY <2>1, <2>2 DEF Present
<1> QED
  BY <1>1, <1>2

LEMMA CountPresent ==
  ASSUME NEW S, S \subseteq Ids, NEW T, T \subseteq S
  PROVE  /\ Cardinality(T) \in Nat /\ Cardinality(S) \in Nat
         /\ Cardinality(T) <= Cardinality(S)
<1>1. IsFiniteSet(S)
  BY FS_Subset, ReadersAssumption
<1> QED
  BY <1>1, FS_Subset, FS_CardinalityType

\* A statement of a writer.
LEMMA TableMoves ==
  ASSUME ReadersInv, WriterStep
  PROVE  ReadersInv'
<1>1. UNCHANGED <<name, updater, export, scraped>>
  BY DEF WriterStep, metricsVars
<1>2. /\ table' \in [Ids -> Row]
      /\ Present \subseteq Present'
      /\ \A i \in Present : /\ table[i].uptime \in Nat /\ table'[i].uptime \in Nat
                            /\ table[i].uptime <= table'[i].uptime
  BY TableForward DEF ReadersInv, UpdaterTyped
<1>3. UpdaterTyped'
  BY <1>1, <1>2 DEF ReadersInv, UpdaterTyped
<1>4. RowsPast'
  BY <1>1, <1>2 DEF ReadersInv, UpdaterTyped, RowsPast
<1>5. UptimesPast'
  <2> SUFFICES ASSUME NEW l \in DOMAIN export.uptime
               PROVE  /\ export.uptime[l] \in Nat
                      /\ \E i \in Present' : name[i] = l /\ export.uptime[l] <= table'[i].uptime
    BY <1>1 DEF UptimesPast
  <2>1. PICK i \in Present : name[i] = l /\ export.uptime[l] <= table[i].uptime
    BY DEF ReadersInv, UptimesPast
  <2>2. export.uptime[l] \in Nat
    BY DEF ReadersInv, UptimesPast
  <2> QED
    BY <1>2, <2>1, <2>2
<1>6. TotalPast'
  <2>1. Present' \subseteq Ids
    BY DEF Present
  <2>2. Cardinality(Present) <= Cardinality(Present)'
        /\ Cardinality(Present) \in Nat /\ Cardinality(Present)' \in Nat
    BY <1>2, <2>1, CountPresent
  <2> QED
    BY <1>1, <2>2 DEF ReadersInv, TotalPast
<1>7. NamesKept'
  <2>1. Names(Present) \subseteq Names(Present)'
    BY <1>1, <1>2 DEF Names
  <2>2. /\ \A v \in Vectors : Promised(v)' = Promised(v)
        /\ Names(updater.left)' = Names(updater.left)
    BY <1>1 DEF Promised, Pending, Names
  <2> QED
    BY <1>1, <2>1, <2>2 DEF ReadersInv, NamesKept
<1> QED
  BY <1>3, <1>4, <1>5, <1>6, <1>7 DEF ReadersInv

----------------------------------------------------------------------------
(* The steps of a pass. *)

LEMMA SelectKeeps ==
  ASSUME ReadersInv, Select, table' = table, name' = name
  PROVE  ReadersInv'
<1>1. /\ updater.pc = "idle" /\ export' = export /\ scraped' = scraped
      /\ updater' = [pc |-> "resetStatus", row |-> 0, left |-> Present,
                     rows |-> [i \in Present |-> table[i]]]
      /\ Present' = Present
  BY DEF Select, SelectAllServers, Present
<1>2. UpdaterTyped'
  BY <1>1 DEF ReadersInv, UpdaterTyped, Resetting, Vectors
<1>3. RowsPast'
  BY <1>1, TableAssumption DEF ReadersInv, UpdaterTyped, RowsPast, Present, Row
<1>4. UptimesPast'
  BY <1>1 DEF ReadersInv, UptimesPast
<1>5. TotalPast'
  BY <1>1 DEF ReadersInv, TotalPast
<1>6. NamesKept'
  <2>1. \A v \in Vectors : Pending(v)' = Present /\ Pending(v) = {}
    BY <1>1 DEF Pending, NotYet, Vectors, ReadersInv, UpdaterTyped
  <2>2. Names(Present)' = Names(Present) /\ Names(updater.left)' = Names(Present)
    BY <1>1 DEF Names
  <2>3. \A v \in Vectors : /\ Promised(v)' = Names(Present)
                           /\ Promised(v) = DOMAIN export[v]
    BY <1>1, <2>1, <2>2 DEF Promised, Names, ReadersInv, NamesKept
  <2>4. \A v \in Vectors : scraped \subseteq Names(Present)
    BY <2>3 DEF ReadersInv, NamesKept
  <2> QED
    BY <1>1, <2>2, <2>3, <2>4 DEF ReadersInv, NamesKept
<1> QED
  BY <1>2, <1>3, <1>4, <1>5, <1>6 DEF ReadersInv

LEMMA ResetKeeps ==
  ASSUME ReadersInv, ResetVector, table' = table, name' = name
  PROVE  ReadersInv'
<1>1. PICK v \in Vectors :
        /\ updater.pc \in {"resetStatus", "resetUptime", "resetCost"}
        /\ export' = [export EXCEPT ![v] = NoChildren]
        /\ updater' = [updater EXCEPT !.pc = AfterReset(updater.pc)]
        /\ scraped' = scraped
  <2>1. updater.pc \in {"resetStatus", "resetUptime", "resetCost"}
    BY DEF ResetVector, ResetOf
  <2>2. ResetOf[updater.pc] \in Vectors
    BY <2>1 DEF ResetOf, Vectors
  <2> QED
    BY <2>1, <2>2 DEF ResetVector
<1>2. Present' = Present
  BY DEF Present
<1>3. AfterReset(updater.pc) \in Resetting /\ updater.pc \in Resetting
  BY <1>1 DEF AfterReset, Resetting
<1>4. /\ updater'.pc = AfterReset(updater.pc) /\ updater'.row = updater.row
      /\ updater'.left = updater.left /\ updater'.rows = updater.rows
      /\ updater' = [pc |-> updater'.pc, row |-> updater.row, left |-> updater.left,
                     rows |-> updater.rows]
  BY <1>1 DEF ReadersInv, UpdaterTyped
<1>5. /\ export'.total = export.total
      /\ \A w \in Vectors : export'[w] = IF w = v THEN NoChildren ELSE export[w]
      /\ export' = [total |-> export'.total, status |-> export'.status,
                    uptime |-> export'.uptime, cost |-> export'.cost]
  BY <1>1 DEF ReadersInv, UpdaterTyped, Vectors
<1>6. UpdaterTyped'
  BY <1>2, <1>3, <1>4, <1>5 DEF ReadersInv, UpdaterTyped, Resetting, Vectors
<1>7. RowsPast'
  BY <1>4 DEF ReadersInv, RowsPast
<1>8. UptimesPast'
  BY <1>2, <1>5 DEF ReadersInv, UptimesPast, NoChildren, Vectors
<1>9. TotalPast'
  BY <1>2, <1>3, <1>4, <1>5 DEF ReadersInv, TotalPast
<1>10. NamesKept'
  <2>1. \A w \in Vectors : Pending(w) = updater.left /\ Pending(w)' = updater.left
    BY <1>1, <1>3, <1>4 DEF Pending, NotYet, Vectors, Resetting, ReadersInv, UpdaterTyped
  <2>2. /\ Names(Present)' = Names(Present) /\ Names(updater.left)' = Names(updater.left)
        /\ \A w \in Vectors : Names(Pending(w)) = Names(updater.left)
                             /\ Names(Pending(w))' = Names(updater.left)
    BY <1>2, <1>4, <2>1 DEF Names
  <2>3. \A w \in Vectors : DOMAIN export'[w] \subseteq DOMAIN export[w]
    BY <1>5 DEF NoChildren
  <2>4. \A w \in Vectors : DOMAIN export[w] \subseteq Names(updater.left)
    BY <1>3 DEF ReadersInv, NamesKept
  <2>5. \A w \in Vectors : /\ Promised(w)' = Names(updater.left)
                           /\ Promised(w) = Names(updater.left)
    BY <2>2, <2>3, <2>4 DEF Promised
  <2>6. /\ \A w \in Vectors : DOMAIN export[w] \subseteq Names(Present)
        /\ scraped \subseteq Names(updater.left)
    BY <2>5 DEF ReadersInv, NamesKept, Vectors
  <2> QED
    BY <1>1, <2>2, <2>3, <2>4, <2>5, <2>6 DEF NamesKept
<1> QED
  BY <1>6, <1>7, <1>8, <1>9, <1>10 DEF ReadersInv

\* The loop goes on or ends: what is still to be set are the rows that were left.
LEMMA LoopMoves ==
  ASSUME UpdaterTyped, NextRow(updater.left)
  PROVE  /\ updater' = [pc |-> updater'.pc, row |-> updater'.row, left |-> updater'.left,
                        rows |-> updater'.rows]
         /\ updater'.pc \in {"idle", "status"}
         /\ updater'.left \subseteq DOMAIN updater'.rows
         /\ DOMAIN updater'.rows \subseteq DOMAIN updater.rows
         /\ \A i \in DOMAIN updater'.rows : updater'.rows[i] = updater.rows[i]
         /\ updater'.pc = "idle" => updater'.left = {}
         /\ updater'.pc = "status" => updater'.row \in DOMAIN updater'.rows
         /\ \A v \in Vectors : Pending(v)' = updater.left
<1>1. CASE updater.left = {}
  BY <1>1 DEF NextRow, NoWork, NoChildren, Pending, NotYet, Vectors
<1>2. CASE updater.left # {}
  <2>1. PICK i \in updater.left :
          updater' = [pc |-> "status", row |-> i, left |-> updater.left \ {i},
                      rows |-> [j \in updater.left |-> updater.rows[j]]]
    BY <1>2 DEF NextRow
  <2>2. \A v \in Vectors : Pending(v)' = updater.left
    BY <2>1 DEF Pending, NotYet, Vectors
  <2> QED
    BY <2>1, <2>2 DEF UpdaterTyped
<1> QED
  BY <1>1, <1>2

LEMMA SetTotalKeeps ==
  ASSUME ReadersInv, SetTotal, table' = table, name' = name
  PROVE  ReadersInv' /\ export'.total >= export.total
<1>1. /\ updater.pc = "total" /\ NextRow(updater.left)
      /\ export'.total = Cardinality(DOMAIN updater.rows)
      /\ \A v \in Vectors : export'[v] = export[v]
      /\ export' = [total |-> export'.total, status |-> export'.status,
                    uptime |-> export'.uptime, cost |-> export'.cost]
      /\ scraped' = scraped /\ Present' = Present
  BY DEF SetTotal, ReadersInv, UpdaterTyped, Vectors, Present
<1>2. /\ Cardinality(DOMAIN updater.rows) \in Nat
      /\ Cardinality(DOMAIN updater.rows) <= Cardinality(Present)
  BY CountPresent DEF ReadersInv, UpdaterTyped, Present
<1>3. UpdaterTyped'
  BY <1>1, <1>2, LoopMoves DEF ReadersInv, UpdaterTyped, Resetting, Vectors
<1>4. RowsPast'
  BY <1>1, LoopMoves DEF ReadersInv, RowsPast
<1>5. UptimesPast'
  BY <1>1 DEF ReadersInv, UptimesPast, Vectors
<1>6. TotalPast'
  BY <1>1, <1>2, LoopMoves DEF ReadersInv, TotalPast, Resetting
<1>7. NamesKept'
  <2>1. \A v \in Vectors : Pending(v)' = updater.left /\ Pending(v) = updater.left
    <3>1. \A v \in Vectors : Pending(v) = updater.left
      BY <1>1 DEF Pending, NotYet, Vectors
    <3> QED
      BY <1>1, <3>1, LoopMoves DEF ReadersInv
  <2>2. /\ Names(Present)' = Names(Present)
        /\ \A v \in Vectors : Promised(v)' = Promised(v)
    BY <1>1, <2>1 DEF Names, Promised
  <2>3. updater'.pc \notin Resetting
    BY <1>1, LoopMoves DEF ReadersInv, Resetting
  <2> QED
    BY <1>1, <2>2, <2>3 DEF ReadersInv, NamesKept
<1>8. export'.total >= export.total
  BY <1>1, <1>2 DEF ReadersInv, TotalPast, Resetting
<1> QED
  BY <1>3, <1>4, <1>5, <1>6, <1>7, <1>8 DEF ReadersInv

\* A child is created or set: its name moves from what is pending to what is there.
LEMMA SetValueKeeps ==
  ASSUME ReadersInv, NEW u \in Vectors, SetValue(u), table' = table, name' = name
  PROVE  ReadersInv'
<1> DEFINE l == name[updater.row]
           row == updater.rows[updater.row]
<1>1. /\ updater.pc = u /\ scraped' = scraped /\ Present' = Present
      /\ updater.row \in DOMAIN updater.rows /\ updater.row \in Present
  BY DEF SetValue, Present, ReadersInv, UpdaterTyped
<1>2. /\ export'.total = export.total
      /\ \A v \in Vectors : DOMAIN export'[v] = DOMAIN export[v] \cup (IF v = u THEN {l} ELSE {})
      /\ export' = [total |-> export'.total, status |-> export'.status,
                    uptime |-> export'.uptime, cost |-> export'.cost]
  BY DEF SetValue, With, ReadersInv, UpdaterTyped, Vectors
<1>3. /\ updater' = [pc |-> updater'.pc, row |-> updater'.row, left |-> updater'.left,
                     rows |-> updater'.rows]
      /\ updater'.pc \in {"idle"} \cup Vectors
      /\ updater'.left \subseteq DOMAIN updater'.rows
      /\ DOMAIN updater'.rows \subseteq DOMAIN updater.rows
      /\ \A i \in DOMAIN updater'.rows : updater'.rows[i] = updater.rows[i]
      /\ updater'.pc = "idle" => updater'.left = {}
      /\ updater'.pc \in Vectors => updater'.row \in DOMAIN updater'.rows
      /\ \A v \in Vectors : Names(Pending(v)) =
            Names(Pending(v)') \cup (IF v = u THEN {l} ELSE {})
  <2>1. CASE u = "uptime"
    <3>1. NextRow(updater.left)
      BY <2>1 DEF SetValue
    <3>2. \A v \in Vectors : Pending(v) = updater.left \cup (IF v = u THEN {updater.row} ELSE {})
      BY <1>1, <2>1 DEF Pending, NotYet, Vectors
    <3>3. \A v \in Vectors : Pending(v)' = updater.left
      BY <3>1, LoopMoves DEF ReadersInv
    <3>4. \A v \in Vectors : Names(Pending(v)) =
            Names(Pending(v)') \cup (IF v = u THEN {l} ELSE {})
      BY <3>2, <3>3 DEF Names
    <3> QED
      BY <3>1, <3>4, LoopMoves DEF ReadersInv, Vectors
  <2>2. CASE u # "uptime"
    <3>1. /\ updater' = [updater EXCEPT !.pc = IF u = "status" THEN "cost" ELSE "uptime"]
          /\ u \in {"status", "cost"}
      BY <2>2 DEF SetValue, Vectors
    <3>2. \A v \in Vectors : Pending(v) = Pending(v)' \cup (IF v = u THEN {updater.row} ELSE {})
      BY <1>1, <3>1 DEF Pending, NotYet, Vectors, ReadersInv, UpdaterTyped
    <3>3. \A v \in Vectors : Names(Pending(v)) =
            Names(Pending(v)') \cup (IF v = u THEN {l} ELSE {})
      BY <3>2 DEF Names
    <3> QED
      BY <1>1, <3>1, <3>3 DEF ReadersInv, UpdaterTyped, Vectors
  <2> QED
    BY <2>1, <2>2
<1>4. UpdaterTyped'
  BY <1>1, <1>2, <1>3 DEF ReadersInv, UpdaterTyped
<1>5. RowsPast'
  BY <1>3 DEF ReadersInv, RowsPast
<1>6. UptimesPast'
  <2>1. CASE u # "uptime"
    BY <1>1, <2>1 DEF SetValue, ReadersInv, UpdaterTyped, UptimesPast
  <2>2. CASE u = "uptime"
    <3>1. \A k \in DOMAIN export'.uptime :
            /\ k = l \/ k \in DOMAIN export.uptime
            /\ export'.uptime[k] = IF k = l THEN row.uptime ELSE export.uptime[k]
      BY <2>2 DEF SetValue, With, Value, ReadersInv, UpdaterTyped
    <3>2. row.uptime \in Nat /\ row.uptime <= table[updater.row].uptime
      BY <1>1 DEF ReadersInv, RowsPast
    <3>3. ASSUME NEW k \in DOMAIN export'.uptime
          PROVE  /\ export'.uptime[k] \in Nat
                 /\ \E i \in Present : name[i] = k /\ export'.uptime[k] <= table[i].uptime
      <4>1. CASE k = l
        BY <1>1, <3>1, <3>2, <4>1
      <4>2. CASE k # l
        BY <3>1, <4>2 DEF ReadersInv, UptimesPast
      <4> QED
        BY <4>1, <4>2
    <3> QED
      BY <1>1, <3>3 DEF UptimesPast
  <2> QED
    BY <2>1, <2>2
<1>7. TotalPast'
  BY <1>1, <1>2, <1>3 DEF ReadersInv, TotalPast, Resetting, Vectors
<1>8. NamesKept'
  <2>1. \A v \in Vectors : Names(Pending(v)') = Names(Pending(v))'
    BY DEF Names
  <2>2. \A v \in Vectors : Promised(v)' = Promised(v)
    BY <1>2, <1>3, <2>1 DEF Promised
  <2>3. Names(Present)' = Names(Present) /\ l \in Names(Present)
    BY <1>1 DEF Names
  <2>4. updater'.pc \notin Resetting
    BY <1>3 DEF Resetting, Vectors
  <2> QED
    BY <1>1, <1>2, <2>2, <2>3, <2>4 DEF ReadersInv, NamesKept
<1> QED
  BY <1>4, <1>5, <1>6, <1>7, <1>8 DEF ReadersInv

\* Prometheus sees only what is there already.
LEMMA CollectKeeps ==
  ASSUME ReadersInv, Collect, table' = table, name' = name
  PROVE  ReadersInv'
<1>1. scraped' = scraped \cup DOMAIN export.status /\ updater' = updater /\ export' = export
      /\ Present' = Present
  BY DEF Collect, Present
<1>2. UpdaterTyped' /\ RowsPast' /\ UptimesPast' /\ TotalPast'
  BY <1>1 DEF ReadersInv, UpdaterTyped, RowsPast, UptimesPast, TotalPast
<1>3. NamesKept'
  <2>1. /\ \A w \in Vectors : Promised(w)' = Promised(w)
        /\ Names(Present)' = Names(Present) /\ Names(updater.left)' = Names(updater.left)
    BY <1>1 DEF Promised, Pending, Names
  <2>2. DOMAIN export["status"] \subseteq Promised("status") /\ "status" \in Vectors
    BY DEF Promised, Vectors
  <2>3. \A w \in Vectors : DOMAIN export.status \subseteq Promised(w)
    BY <2>2 DEF ReadersInv, NamesKept
  <2> QED
    BY <1>1, <2>1, <2>3 DEF ReadersInv, NamesKept
<1> QED
  BY <1>2, <1>3 DEF ReadersInv

\* The table is the other thing that moves; the rest is out of sight.
LEMMA UnseenKeeps ==
  ASSUME ReadersInv, UNCHANGED <<table, name, metricsVars>>
  PROVE  ReadersInv'
<1>1. UNCHANGED <<table, name, updater, export, scraped, Present>>
  BY DEF metricsVars, Present
<1>2. UpdaterTyped' /\ RowsPast' /\ UptimesPast' /\ TotalPast'
  BY <1>1 DEF ReadersInv, UpdaterTyped, RowsPast, UptimesPast, TotalPast
<1>3. NamesKept'
  BY <1>1 DEF ReadersInv, NamesKept, Promised, Pending, Names
<1> QED
  BY <1>2, <1>3 DEF ReadersInv

\* A process that has just been started.
Fresh ==
  /\ table \in [Ids -> Row]
  /\ name \in [Ids -> Ids]
  /\ updater = NoWork
  /\ export = NoExport
  /\ scraped = {}

LEMMA FreshReaders == Fresh => ReadersInv
<1> SUFFICES ASSUME Fresh
             PROVE  ReadersInv
  OBVIOUS
<1>1. UpdaterTyped
  <2>1. /\ updater = [pc |-> updater.pc, row |-> updater.row, left |-> updater.left,
                      rows |-> updater.rows]
        /\ updater.pc = "idle" /\ updater.left = {} /\ DOMAIN updater.rows = {}
    BY DEF Fresh, NoWork, NoChildren
  <2>2. export = [total |-> export.total, status |-> export.status,
                  uptime |-> export.uptime, cost |-> export.cost]
    BY DEF Fresh, NoExport
  <2> QED
    BY <2>1, <2>2 DEF Fresh, UpdaterTyped, Vectors
<1>2. RowsPast /\ UptimesPast
  BY DEF Fresh, RowsPast, UptimesPast, NoWork, NoExport, NoChildren
<1>3. TotalPast
  <2>1. Cardinality(Present) \in Nat
    BY CountPresent DEF Present
  <2> QED
    BY <2>1 DEF Fresh, TotalPast, NoWork, NoExport, Resetting
<1>4. NamesKept
  <2>1. \A v \in Vectors : DOMAIN export[v] = {} /\ Pending(v) = {}
    BY DEF Fresh, NoExport, NoChildren, NoWork, Pending, NotYet, Vectors
  <2> QED
    BY <2>1 DEF Fresh, NamesKept, Promised, Names, NoWork, Resetting
<1> QED
  BY <1>1, <1>2, <1>3, <1>4 DEF ReadersInv

LEMMA RestartFresh ==
  ASSUME ReadersInv, Restart
  PROVE  Fresh'
<1>1. table' \in [Ids -> Row]
  BY TableForward DEF ReadersInv, UpdaterTyped
<1>2. name' \in [Ids -> Ids]
  BY DEF Restart, ReadersInv, UpdaterTyped
<1> QED
  BY <1>1, <1>2 DEF Fresh, Restart

LEMMA ReadersNextInv ==
  ASSUME ReadersInv, [ReadersNext]_readersVars
  PROVE  ReadersInv' /\ (Restart \/ export'.total >= export.total)
<1>1. export.total \in Nat
  BY DEF ReadersInv, TotalPast
<1>2. CASE WriterStep
  BY <1>1, <1>2, TableMoves DEF WriterStep, metricsVars
<1>3. CASE UNCHANGED <<table, name, metricsVars>>
  BY <1>1, <1>3, UnseenKeeps DEF metricsVars
<1>4. CASE UpdaterGoesOn
  <2>1. table' = table /\ name' = name
    BY <1>4 DEF UpdaterGoesOn
  <2>2. CASE Select
    BY <1>1, <2>1, <2>2, SelectKeeps DEF Select
  <2>3. CASE ResetVector
    <3>1. export'.total = export.total
      BY <2>3 DEF ResetVector, ResetOf, ReadersInv, UpdaterTyped
    <3> QED
      BY <1>1, <2>1, <2>3, <3>1, ResetKeeps
  <2>4. CASE SetTotal
    BY <2>1, <2>4, SetTotalKeeps
  <2>5. ASSUME NEW v \in Vectors, SetValue(v)
        PROVE  ReadersInv' /\ export'.total >= export.total
    <3>1. export'.total = export.total
      BY <2>5 DEF SetValue, Vectors, ReadersInv, UpdaterTyped
    <3> QED
      BY <1>1, <2>1, <2>5, <3>1, SetValueKeeps
  <2> QED
    BY <1>4, <2>2, <2>3, <2>4, <2>5 DEF UpdaterGoesOn, UpdaterStep
<1>5. CASE Scrape
  BY <1>1, <1>5, CollectKeeps DEF Scrape, Collect
<1>6. CASE Restart
  <2>1. Fresh'
    BY <1>6, RestartFresh
  <2>2. Fresh' => ReadersInv'
    BY FreshReaders, PTL
  <2> QED
    BY <1>6, <2>1, <2>2
<1> QED
  BY <1>2, <1>3, <1>4, <1>5, <1>6 DEF ReadersNext, UpdaterFails, SelectFails, ClientReads, readersVars

LEMMA ReadersInitFresh ==
  ASSUME ReadersInit
  PROVE  Fresh
<1>1. PICK k \in MetricsIds \cup {0}, u \in Uptimes : table = Former(k, u)
  BY TableAssumption DEF ReadersInit
<1>2. table \in [Ids -> Row]
  BY <1>1, TableAssumption DEF Former, Row, Status
<1> QED
  BY <1>2 DEF ReadersInit, MetricsInit, Fresh

LEMMA ReadersInitInv ==
  ASSUME ReadersInit
  PROVE  ReadersInv
BY ReadersInitFresh, FreshReaders

----------------------------------------------------------------------------
THEOREM ReadersInvariant == ReadersSpec => []ReadersInv
BY ReadersInitInv, ReadersNextInv, PTL DEF ReadersSpec

\* No exported uptime is ahead of the table, whichever servers share a name and
\* however far the pass has come.
THEOREM UptimeExportsPast == ReadersSpec => []ExportedUptimePast
<1>1. ReadersInv => ExportedUptimePast
  BY DEF ReadersInv, UptimesPast, ExportedUptimePast
<1> QED
  BY <1>1, ReadersInvariant, PTL

\* A name that was scraped among the statuses, in the middle of a pass or not, is
\* there at every later point of the same life of the process, or is that of a
\* row the pass is still to export.
THEOREM LabelsStay == ReadersSpec => []NoLabelVanishes
<1>1. ReadersInv => NoLabelVanishes
  <2>1. Pending("status") = Coming
    BY DEF Pending, NotYet, Coming
  <2> QED
    BY <2>1 DEF NoLabelVanishes, ReadersInv, NamesKept, Vectors, Promised, Names
<1> QED
  BY <1>1, ReadersInvariant, PTL

\* No step but a restart of the process lowers the number of servers that is
\* exported.
THEOREM TotalMonotonic == ReadersSpec => TotalNeverShrinks
<1>1. ReadersInv /\ [ReadersNext]_readersVars
        => [Restart \/ export'.total >= export.total]_readersVars
  BY ReadersNextInv
<1> QED
  BY <1>1, ReadersInvariant, PTL DEF ReadersSpec, TotalNeverShrinks

----------------------------------------------------------------------------
\* Of sets of rows, names or other sets one is smallest.
LEMMA Smallest ==
  ASSUME NEW S, IsFiniteSet(S), NEW T, T \subseteq SUBSET S, T # {}
  PROVE  \E t \in T : \A u \in T : u \subseteq t => u = t
<1>1. T \subseteq FiniteSubsetsOf(S)
  BY FS_FiniteSubsetsOfFinite
<1>2. PICK t \in T : \A u \in T : <<u, t>> \notin StrictSubsetOrdering(S)
  BY <1>1, WFMin, FS_StrictSubsetOrderingWellFounded
<1>3. ASSUME NEW u \in T, u \subseteq t, u # t
      PROVE  FALSE
  BY <1>2, <1>3 DEF StrictSubsetOrdering
<1> QED
  BY <1>3

(* The walk.  Rows are listed from the largest id down. *)

\* A set of rows has a first and a last one in the list.
LEMMA FirstOf ==
  ASSUME NEW S, S \subseteq Ids, S # {}
  PROVE  \E x \in S : \A j \in S : j <= x
<1> DEFINE T == {t \in SUBSET S : t # {} /\ ~(\E x \in t : \A j \in t : j <= x)}
<1>1. IsFiniteSet(S) /\ S \subseteq Nat
  BY FS_Subset, ReadersAssumption, TableAssumption
<1>2. ASSUME T # {}
      PROVE  FALSE
  <2>1. PICK t \in T : \A u \in T : u \subseteq t => u = t
    <3>1. T \subseteq SUBSET S
      OBVIOUS
    <3>2. IsFiniteSet(S)
      BY <1>1
    <3> HIDE DEF T
    <3> QED
      BY <1>2, <3>1, <3>2, Smallest
  <2>2. PICK x \in t : TRUE
    OBVIOUS
  <2>3. t \ {x} \notin T /\ t \subseteq Nat
    BY <1>1, <2>1, <2>2
  <2>4. CASE t \ {x} = {}
    BY <2>1, <2>2, <2>3, <2>4
  <2>5. CASE t \ {x} # {}
    <3>1. PICK y \in t \ {x} : \A j \in t \ {x} : j <= y
      BY <2>1, <2>3, <2>5
    <3>2. \/ \A j \in t : j <= x
          \/ \A j \in t : j <= y
      BY <2>2, <2>3, <3>1
    <3> QED
      BY <2>1, <2>2, <3>1, <3>2
  <2> QED
    BY <2>4, <2>5
<1> QED
  BY <1>2

LEMMA LastOf ==
  ASSUME NEW S, S \subseteq Ids, S # {}
  PROVE  \E x \in S : \A j \in S : x <= j
<1> DEFINE T == {t \in SUBSET S : t # {} /\ ~(\E x \in t : \A j \in t : x <= j)}
<1>1. IsFiniteSet(S) /\ S \subseteq Nat
  BY FS_Subset, ReadersAssumption, TableAssumption
<1>2. ASSUME T # {}
      PROVE  FALSE
  <2>1. PICK t \in T : \A u \in T : u \subseteq t => u = t
    <3>1. T \subseteq SUBSET S
      OBVIOUS
    <3>2. IsFiniteSet(S)
      BY <1>1
    <3> HIDE DEF T
    <3> QED
      BY <1>2, <3>1, <3>2, Smallest
  <2>2. PICK x \in t : TRUE
    OBVIOUS
  <2>3. t \ {x} \notin T /\ t \subseteq Nat
    BY <1>1, <2>1, <2>2
  <2>4. CASE t \ {x} = {}
    BY <2>1, <2>2, <2>3, <2>4
  <2>5. CASE t \ {x} # {}
    <3>1. PICK y \in t \ {x} : \A j \in t \ {x} : y <= j
      BY <2>1, <2>3, <2>5
    <3>2. \/ \A j \in t : x <= j
          \/ \A j \in t : y <= j
      BY <2>2, <2>3, <3>1
    <3> QED
      BY <2>1, <2>2, <3>1, <3>2
  <2> QED
    BY <2>4, <2>5
<1> QED
  BY <1>2

\* The rows of a list before row i, and its place in the list.
Above(L, i) == {j \in L : j > i}

Place(L, i) == Cardinality(Above(L, i))

\* Sets of rows are finite and can be counted.
LEMMA Counts ==
  ASSUME NEW S, S \subseteq Ids
  PROVE  IsFiniteSet(S) /\ Cardinality(S) \in Nat
BY FS_Subset, FS_CardinalityType, ReadersAssumption

LEMMA CountSubset ==
  ASSUME NEW S, S \subseteq Ids, NEW T, T \subseteq S
  PROVE  Cardinality(T) <= Cardinality(S)
BY Counts, FS_Subset

\* Two sets that do not meet, within or around a third.
LEMMA CountTwo ==
  ASSUME NEW S, S \subseteq Ids, NEW T, T \subseteq Ids
  PROVE  /\ Cardinality(S \cup T) <= Cardinality(S) + Cardinality(T)
         /\ Cardinality(S \cup T) = Cardinality(S) + Cardinality(T) - Cardinality(S \cap T)
         /\ S \cap T = {} => Cardinality(S \cup T) = Cardinality(S) + Cardinality(T)
<1>1. Cardinality(S \cup T) = Cardinality(S) + Cardinality(T) - Cardinality(S \cap T)
  BY Counts, FS_Union
<1>2. Cardinality(S) \in Nat /\ Cardinality(T) \in Nat /\ Cardinality(S \cap T) \in Nat
  BY Counts
<1>3. S \cap T = {} => Cardinality(S \cap T) = 0
  BY FS_EmptySet
<1> QED
  BY <1>1, <1>2, <1>3

LEMMA CountOne == \A i \in Ids : Cardinality({i}) = 1
BY FS_Singleton

LEMMA AboveIds ==
  ASSUME NEW L, L \subseteq Ids, NEW i
  PROVE  /\ Above(L, i) \subseteq L /\ Above(L, i) \subseteq Ids
         /\ Place(L, i) \in Nat
BY Counts DEF Above, Place

\* Rows that all stand at place o or later take up places of their own.
LEMMA Spread ==
  ASSUME NEW L, L \subseteq Ids, NEW U, U \subseteq L, NEW m \in U, NEW o \in Nat,
         \A i \in U : Place(L, i) >= o
  PROVE  Place(L, m) >= o + Cardinality(Above(U, m))
<1>1. PICK f \in U : \A j \in U : j <= f
  BY FirstOf
<1>2. U \subseteq Nat /\ L \subseteq Nat
  BY TableAssumption
<1>3. Above(L, f) \cap Above(U, m) = {}
  <2> SUFFICES ASSUME NEW k \in U, k > f
               PROVE  FALSE
    BY DEF Above
  <2>1. k <= f /\ k \in Nat /\ f \in Nat
    BY <1>1, <1>2
  <2> QED
    BY <2>1
<1>4. Above(L, f) \cup Above(U, m) \subseteq Above(L, m)
  <2>1. m <= f /\ m \in Nat /\ f \in Nat
    BY <1>1, <1>2
  <2> SUFFICES ASSUME NEW k \in L, k > f
               PROVE  k > m
    BY DEF Above
  <2>2. k \in Nat
    BY <1>2
  <2> QED
    BY <2>1, <2>2
<1>5. Place(L, f) + Cardinality(Above(U, m)) <= Place(L, m)
  <2>1. Cardinality(Above(L, f) \cup Above(U, m)) = Place(L, f) + Cardinality(Above(U, m))
    BY <1>3, AboveIds, CountTwo DEF Place
  <2>2. Cardinality(Above(L, f) \cup Above(U, m)) <= Place(L, m)
    BY <1>4, AboveIds, CountSubset DEF Place
  <2> QED
    BY <2>1, <2>2
<1>6. Place(L, f) \in Nat /\ Place(L, m) \in Nat /\ Cardinality(Above(U, m)) \in Nat
  BY AboveIds, Counts
<1> QED
  BY <1>5, <1>6

\* Of the rows S those in the list L at place o or later.
Past(S, L, o) == {i \in S \cap L : Place(L, i) >= o}

\* When a list changes from B to A, no more rows come to stand past a place than
\* have joined it.
LEMMA Shift ==
  ASSUME NEW A, A \subseteq Ids, NEW B, B \subseteq Ids, NEW S, NEW o \in Nat
  PROVE  Cardinality(Past(S, A, o)) <= Cardinality(Past(S, B, o)) + Cardinality(A \ B)
<1> DEFINE U == Past(S, A, o) \ Past(S, B, o)
           J == A \ B
<1>1. U \subseteq A /\ U \subseteq Ids /\ J \subseteq Ids /\ A \subseteq Nat
      /\ Past(S, A, o) \subseteq Ids /\ Past(S, B, o) \subseteq Ids
  BY TableAssumption DEF Past
<1>2. Cardinality(U) <= Cardinality(J)
  <2>1. CASE U \cap B = {}
    <3>1. U \subseteq J
      BY <1>1, <2>1
    <3> HIDE DEF U, J
    <3> QED
      BY <1>1, <3>1, CountSubset
  <2>2. CASE U \cap B # {}
    <3>1. PICK m \in U \cap B : \A j \in U \cap B : m <= j
      BY <1>1, <2>2, LastOf
    <3> DEFINE Below == {j \in J : j < m}
    <3>2. m \in Ids /\ m \in Nat
      BY <1>1, <3>1
    <3>3. Place(B, m) \in Nat /\ Place(B, m) < o
      <4>1. Place(B, m) \in Nat
        BY AboveIds
      <4>2. ~(Place(B, m) >= o)
        BY <3>1 DEF Past
      <4> QED
        BY <4>1, <4>2
    <3>4. Place(A, m) >= o + Cardinality(Above(U, m))
      <4>1. \A i \in U : Place(A, i) >= o
        BY DEF Past
      <4> HIDE DEF U
      <4> QED
        BY <1>1, <3>1, <4>1, Spread
    <3>5. Place(A, m) <= Place(B, m) + Cardinality(Above(J, m))
      <4>1. Above(A, m) \subseteq Above(B, m) \cup Above(J, m)
        BY DEF Above
      <4> HIDE DEF J
      <4>2. Above(B, m) \subseteq Ids /\ Above(J, m) \subseteq Ids /\ Above(A, m) \subseteq Ids
        BY <1>1, AboveIds
      <4>3. Cardinality(Above(A, m)) <= Cardinality(Above(B, m) \cup Above(J, m))
        BY <4>1, <4>2, CountSubset
      <4>4. Cardinality(Above(B, m) \cup Above(J, m))
              <= Cardinality(Above(B, m)) + Cardinality(Above(J, m))
        BY <4>2, CountTwo
      <4>5. Cardinality(Above(B, m) \cup Above(J, m)) \in Nat
        BY <4>2, Counts
      <4> QED
        BY <4>2, <4>3, <4>4, <4>5, Counts DEF Place
    <3>6. Cardinality(U) <= Cardinality(Above(U, m)) + 1 + Cardinality(Below)
      <4>1. U \subseteq (Above(U, m) \cup {m}) \cup Below
        <5> SUFFICES ASSUME NEW k \in U, k # m, ~(k > m)
                     PROVE  k \in J /\ k < m
          BY DEF Above
        <5>1. k \in Nat /\ k < m
          BY <1>1, <3>2
        <5>2. k \notin B
          BY <3>1, <3>2, <5>1
        <5> QED
          BY <1>1, <5>1, <5>2
      <4>2. Below \subseteq Ids
        BY <1>1
      <4> HIDE DEF U, J, Below
      <4>3. /\ Above(U, m) \subseteq Ids /\ {m} \subseteq Ids
            /\ (Above(U, m) \cup {m}) \cup Below \subseteq Ids
        BY <1>1, <3>2, <4>2, AboveIds
      <4>4. Cardinality(U) <= Cardinality((Above(U, m) \cup {m}) \cup Below)
        BY <4>1, <4>3, CountSubset
      <4>5. Cardinality((Above(U, m) \cup {m}) \cup Below)
              <= Cardinality(Above(U, m) \cup {m}) + Cardinality(Below)
        BY <4>2, <4>3, CountTwo
      <4>6. Cardinality(Above(U, m) \cup {m}) <= Cardinality(Above(U, m)) + 1
        BY <3>2, <4>3, CountTwo, CountOne
      <4>7. /\ Cardinality(U) \in Nat /\ Cardinality(Below) \in Nat
            /\ Cardinality(Above(U, m)) \in Nat /\ Cardinality(Above(U, m) \cup {m}) \in Nat
            /\ Cardinality((Above(U, m) \cup {m}) \cup Below) \in Nat
        BY <1>1, <4>2, <4>3, Counts
      <4> QED
        BY <4>4, <4>5, <4>6, <4>7
    <3>7. Cardinality(Above(J, m)) + Cardinality(Below) <= Cardinality(J)
      <4>1. /\ Above(J, m) \cup Below \subseteq J /\ Above(J, m) \subseteq Ids
            /\ Below \subseteq Ids
        BY <1>1 DEF Above
      <4>2. Above(J, m) \cap Below = {}
        <5> SUFFICES ASSUME NEW k \in J, k > m, k < m
                     PROVE  FALSE
          BY DEF Above
        <5>1. k \in Nat
          BY <1>1
        <5> QED
          BY <3>2, <5>1
      <4> HIDE DEF J, Below
      <4>3. Cardinality(Above(J, m) \cup Below) = Cardinality(Above(J, m)) + Cardinality(Below)
        BY <4>1, <4>2, CountTwo
      <4>4. Cardinality(Above(J, m) \cup Below) <= Cardinality(J)
        BY <1>1, <4>1, CountSubset
      <4> QED
        BY <4>3, <4>4
    <3>8. /\ Cardinality(U) \in Nat /\ Cardinality(J) \in Nat /\ Cardinality(Below) \in Nat
          /\ Cardinality(Above(U, m)) \in Nat /\ Cardinality(Above(J, m)) \in Nat
          /\ Place(A, m) \in Nat
      <4>1. Below \subseteq Ids
        BY <1>1
      <4> HIDE DEF U, J, Below
      <4> QED
        BY <1>1, <4>1, AboveIds, Counts
    <3> HIDE DEF U, J, Below
    <3> QED
      BY <3>3, <3>4, <3>5, <3>6, <3>7, <3>8
  <2> QED
    BY <2>1, <2>2
<1>3. Cardinality(Past(S, A, o)) <= Cardinality(U) + Cardinality(Past(S, B, o))
  <2>1. Past(S, A, o) \subseteq U \cup Past(S, B, o)
    OBVIOUS
  <2> HIDE DEF U
  <2>2. U \cup Past(S, B, o) \subseteq Ids
    BY <1>1
  <2>3. Cardinality(Past(S, A, o)) <= Cardinality(U \cup Past(S, B, o))
    BY <2>1, <2>2, CountSubset
  <2>4. Cardinality(U \cup Past(S, B, o)) <= Cardinality(U) + Cardinality(Past(S, B, o))
    BY <1>1, CountTwo
  <2> QED
    BY <1>1, <2>2, <2>3, <2>4, Counts
<1> HIDE DEF U, J
<1>4. Cardinality(U) \in Nat /\ Cardinality(J) \in Nat /\ Cardinality(Past(S, B, o)) \in Nat
      /\ Cardinality(Past(S, A, o)) \in Nat
  BY <1>1, Counts
<1> QED
  BY <1>2, <1>3, <1>4 DEF J

----------------------------------------------------------------------------
\* The rows of a list that are on the page with offset o.
OnPage(L, o) == {i \in L : Place(L, i) \in o .. o + Limit - 1}

LEMMA PageIs ==
  ASSUME NEW filter, NEW o
  PROVE  Page(filter, o) = OnPage(Listing(filter), o)
BY DEF Page, OnPage, Rank, Before, Place, Above

\* Every row on the page stands at a place of its own, and after the page comes
\* nothing that stands before its end.
LEMMA PageSpread ==
  ASSUME NEW L, L \subseteq Ids, NEW o \in Nat, OnPage(L, o) # {}
  PROVE  /\ Cardinality(OnPage(L, o)) <= Limit
         /\ o + Cardinality(OnPage(L, o)) <= Cardinality(L)
<1> DEFINE P == OnPage(L, o)
<1>1. P \subseteq L /\ P \subseteq Ids /\ P # {} /\ (\A i \in P : Place(L, i) \in o .. o + Limit - 1)
  BY DEF OnPage
<1>2. PICK m \in P : \A j \in P : m <= j
  BY <1>1, LastOf
<1> HIDE DEF P
<1>3. m \in Nat /\ P \subseteq Nat /\ m \in Ids
  BY <1>1, <1>2, TableAssumption
<1>4. Place(L, m) >= o + Cardinality(Above(P, m))
  <2>1. \A i \in P : Place(L, i) >= o
    BY <1>1, PagingAssumption
  <2> QED
    BY <1>1, <1>2, <2>1, Spread
<1>5. Cardinality(P) <= Cardinality(Above(P, m)) + 1
  <2>1. P \subseteq Above(P, m) \cup {m}
    <3> SUFFICES ASSUME NEW k \in P, k # m
                 PROVE  k > m
      BY DEF Above
    <3> QED
      BY <1>2, <1>3
  <2>2. Above(P, m) \subseteq Ids /\ {m} \subseteq Ids /\ Above(P, m) \cup {m} \subseteq Ids
    BY <1>1, <1>3, AboveIds
  <2>3. Cardinality(P) <= Cardinality(Above(P, m) \cup {m})
    BY <2>1, <2>2, CountSubset
  <2>4. Cardinality(Above(P, m) \cup {m}) <= Cardinality(Above(P, m)) + 1
    BY <1>3, <2>2, CountTwo, CountOne
  <2> QED
    BY <1>1, <2>2, <2>3, <2>4, Counts
<1>6. Place(L, m) + 1 <= Cardinality(L)
  <2>1. Above(L, m) \subseteq Ids /\ {m} \subseteq Ids /\ Above(L, m) \cup {m} \subseteq L
    BY <1>1, <1>2, <1>3, AboveIds
  <2>2. Above(L, m) \cap {m} = {}
    BY <1>3 DEF Above
  <2>3. Cardinality(Above(L, m) \cup {m}) = Place(L, m) + 1
    <3>1. Cardinality({m}) = 1
      BY <1>3, CountOne
    <3>2. Cardinality(Above(L, m) \cup {m}) = Cardinality(Above(L, m)) + Cardinality({m})
      BY <2>1, <2>2, CountTwo
    <3> QED
      BY <3>1, <3>2 DEF Place
  <2>4. Cardinality(Above(L, m) \cup {m}) <= Cardinality(L)
    BY <2>1, CountSubset
  <2> QED
    BY <2>3, <2>4
<1>7. Place(L, m) \in Nat /\ Place(L, m) <= o + Limit - 1
  BY <1>1, <1>2, AboveIds
<1>8. Cardinality(P) \in Nat /\ Cardinality(Above(P, m)) \in Nat /\ Cardinality(L) \in Nat
  BY <1>1, AboveIds, Counts
<1> QED
  BY <1>4, <1>5, <1>6, <1>7, <1>8, PagingAssumption DEF P

\* After a page that is not full nothing comes.
LEMMA ShortPage ==
  ASSUME NEW L, L \subseteq Ids, NEW o \in Nat, Cardinality(OnPage(L, o)) < Limit
  PROVE  \A i \in L : Place(L, i) < o + Limit
<1> DEFINE Behind == {i \in L : Place(L, i) >= o + Limit}
           Front == {i \in L : Place(L, i) < o}
<1>1. \A i \in L : Place(L, i) \in Nat
  BY AboveIds
<1>2. L \subseteq Nat /\ Behind \subseteq Ids /\ Front \subseteq Ids /\ OnPage(L, o) \subseteq Ids
  BY TableAssumption DEF OnPage
<1>3. Cardinality(Front) <= o
  <2>1. CASE Front = {}
    BY <2>1, FS_EmptySet
  <2>2. CASE Front # {}
    <3>1. PICK e \in Front : \A j \in Front : e <= j
      BY <1>2, <2>2, LastOf
    <3>2. e \in L /\ e \in Ids /\ Place(L, e) < o
      OBVIOUS
    <3>3. Front \subseteq Above(L, e) \cup {e}
      <4> SUFFICES ASSUME NEW k \in Front, k # e
                   PROVE  k > e
        BY DEF Above
      <4>1. k \in Nat /\ e \in Nat /\ e <= k
        BY <1>2, <3>1
      <4> QED
        BY <4>1
    <3> HIDE DEF Front
    <3>4. Above(L, e) \subseteq Ids /\ {e} \subseteq Ids /\ Above(L, e) \cup {e} \subseteq Ids
      BY <3>2, AboveIds
    <3>5. Cardinality(Front) <= Cardinality(Above(L, e) \cup {e})
      BY <3>3, <3>4, CountSubset
    <3>6. Cardinality(Above(L, e) \cup {e}) <= Place(L, e) + 1
      BY <3>2, <3>4, CountTwo, CountOne DEF Place
    <3>7. Cardinality(Above(L, e) \cup {e}) \in Nat /\ Cardinality(Front) \in Nat
      BY <1>2, <3>4, Counts
    <3> QED
      BY <1>1, <3>2, <3>5, <3>6, <3>7
  <2> QED
    BY <2>1, <2>2
<1>4. Behind = {}
  <2> SUFFICES ASSUME Behind # {}
               PROVE  FALSE
    OBVIOUS
  <2>1. PICK f \in Behind : \A j \in Behind : j <= f
    BY <1>2, FirstOf
  <2>2. f \in L /\ Place(L, f) >= o + Limit
    OBVIOUS
  <2>3. Above(L, f) \subseteq Front \cup OnPage(L, o)
    <3> SUFFICES ASSUME NEW k \in L, k > f, ~(Place(L, k) < o)
                 PROVE  Place(L, k) \in o .. o + Limit - 1
      BY DEF Above, OnPage
    <3>1. k \notin Behind
      BY <1>2, <2>1
    <3> QED
      BY <1>1, <3>1, PagingAssumption
  <2> HIDE DEF Front, Behind
  <2>4. Place(L, f) <= Cardinality(Front \cup OnPage(L, o))
    BY <1>2, <2>3, CountSubset DEF Place
  <2>5. Cardinality(Front \cup OnPage(L, o)) <= Cardinality(Front) + Cardinality(OnPage(L, o))
    BY <1>2, CountTwo
  <2>6. /\ Cardinality(Front) \in Nat /\ Cardinality(OnPage(L, o)) \in Nat
        /\ Cardinality(Front \cup OnPage(L, o)) \in Nat
    BY <1>2, Counts
  <2> QED
    BY <1>1, <1>3, <2>2, <2>4, <2>5, <2>6, PagingAssumption
<1> QED
  BY <1>1, <1>4, PagingAssumption

----------------------------------------------------------------------------
\* Unseen rows that the walk has passed; they stand before the offset.
Missed(T, L, o) == {i \in T \cap L : Place(L, i) < o}

LEMMA Passed ==
  ASSUME NEW A, A \subseteq Ids, NEW B, B \subseteq Ids, NEW T, T \subseteq B, NEW o \in Nat
  PROVE  Cardinality(Missed(T, A, o)) <= Cardinality(Missed(T, B, o)) + Cardinality(B \ A)
<1>1. Cardinality(Past(T, B, o)) <= Cardinality(Past(T, A, o)) + Cardinality(B \ A)
  BY Shift
<1>2. ASSUME NEW L, L \subseteq Ids
      PROVE  Cardinality(Missed(T, L, o)) + Cardinality(Past(T, L, o)) = Cardinality(T \cap L)
  <2>1. \A i \in L : Place(L, i) \in Nat
    BY <1>2, AboveIds
  <2>2. Missed(T, L, o) \cap Past(T, L, o) = {} /\ Missed(T, L, o) \cup Past(T, L, o) = T \cap L
    BY <2>1 DEF Missed, Past
  <2>3. Missed(T, L, o) \subseteq Ids /\ Past(T, L, o) \subseteq Ids
    BY <1>2 DEF Missed, Past
  <2>4. Cardinality(Missed(T, L, o) \cup Past(T, L, o))
          = Cardinality(Missed(T, L, o)) + Cardinality(Past(T, L, o))
    BY <2>2, <2>3, CountTwo
  <2> QED
    BY <2>2, <2>4
<1>3. Cardinality(T \cap A) <= Cardinality(T \cap B)
  <2>1. T \cap B = T /\ T \cap A \subseteq T /\ T \subseteq Ids
    OBVIOUS
  <2> QED
    BY <2>1, CountSubset
<1>4. /\ Missed(T, A, o) \subseteq Ids /\ Missed(T, B, o) \subseteq Ids
      /\ Past(T, A, o) \subseteq Ids /\ Past(T, B, o) \subseteq Ids
  BY DEF Missed, Past
<1>5. /\ Cardinality(Missed(T, A, o)) \in Nat /\ Cardinality(Missed(T, B, o)) \in Nat
      /\ Cardinality(Past(T, A, o)) \in Nat /\ Cardinality(Past(T, B, o)) \in Nat
      /\ Cardinality(T \cap A) \in Nat /\ Cardinality(T \cap B) \in Nat /\ Cardinality(B \ A) \in Nat
  BY <1>4, Counts
<1>6. /\ Cardinality(Missed(T, A, o)) + Cardinality(Past(T, A, o)) = Cardinality(T \cap A)
      /\ Cardinality(Missed(T, B, o)) + Cardinality(Past(T, B, o)) = Cardinality(T \cap B)
  BY <1>2
<1> QED
  BY <1>1, <1>3, <1>5, <1>6

\* What a walk has passed without seeing is paid for by rows that parted, what it
\* is going to see again by rows that joined; more than all rows is never needed.
Walking ==
  walk.pc = "walking" =>
    /\ walk.stayed \subseteq Listing(walk.filter)
    /\ twice + Cardinality(walk.seen) <= walk.offset
    /\ walk.offset <= Cardinality(Ids)
    /\ Cardinality(Missed(walk.stayed \ walk.seen, Listing(walk.filter), walk.offset)) <= parted
    /\ joined <= Cardinality(Ids) =>
         twice + Cardinality(Past(walk.seen, Listing(walk.filter), walk.offset)) <= joined

WalkTyped ==
  /\ walk \in [pc : {"none", "walking", "done"}, filter : Filters \cup {"any"}, offset : Nat,
               stayed : SUBSET Ids, seen : SUBSET Ids]
  /\ twice \in Nat /\ joined \in Nat /\ parted \in Nat
  /\ walk.pc = "none" => twice = 0 /\ joined = 0 /\ parted = 0

WalkInv ==
  /\ WalkTyped
  /\ Walking
  /\ walk.pc = "done" => MissesBounded /\ RepeatsBounded

LEMMA ListingIds ==
  \A filter : Listing(filter) \subseteq Ids
BY DEF Listing, Matching

\* What a page shows, of a list that did not change before it.
LEMMA PageFacts ==
  ASSUME NEW filter, NEW o \in Nat, NEW page, page = Page(filter, o),
         NEW L, L = Listing(filter)
  PROVE  /\ page = OnPage(L, o) /\ page \subseteq L /\ L \subseteq Ids
         /\ Cardinality(page) \in Nat /\ Cardinality(page) <= Limit
         /\ After(page) \in {"walking", "done"}
         /\ After(page) = "walking" => o + Limit <= Cardinality(Ids)
         /\ After(page) = "done" => \A i \in L : Place(L, i) < o + Limit
<1>1. page = OnPage(L, o) /\ L \subseteq Ids /\ page \subseteq L /\ page \subseteq Ids
  BY PageIs, ListingIds DEF OnPage
<1>2. Cardinality(page) \in Nat /\ Cardinality(L) \in Nat /\ Cardinality(Ids) \in Nat
      /\ Cardinality(L) <= Cardinality(Ids)
  BY <1>1, Counts, CountSubset
<1>3. Cardinality(page) <= Limit
  BY <1>1, FS_EmptySet, PageSpread, PagingAssumption
<1>4. ASSUME After(page) = "walking"
      PROVE  o + Limit <= Cardinality(Ids)
  <2>1. Cardinality(page) >= Limit
    BY <1>2, <1>4, PagingAssumption DEF After
  <2>2. page # {}
    BY <1>2, <2>1, FS_EmptySet, PagingAssumption
  <2>3. o + Cardinality(page) <= Cardinality(L)
    BY <1>1, <2>2, PageSpread
  <2> QED
    BY <1>2, <2>1, <2>3, PagingAssumption
<1>5. ASSUME After(page) = "done"
      PROVE  \A i \in L : Place(L, i) < o + Limit
  <2>1. Cardinality(page) < Limit
    BY <1>5 DEF After
  <2> QED
    BY <1>1, <2>1, ShortPage
<1> QED
  BY <1>1, <1>2, <1>3, <1>4, <1>5 DEF After

\* The first page shows everything that comes before its end.
LEMMA FirstPageKeeps ==
  ASSUME WalkInv, FirstPage, table' = table
  PROVE  WalkInv'
<1>1. PICK filter \in Filters :
        walk' = [pc |-> After(Page(filter, 0)), filter |-> filter, offset |-> Limit,
                 stayed |-> Listing(filter), seen |-> Page(filter, 0)]
  BY DEF FirstPage
<1> DEFINE L == Listing(filter)
           page == Page(filter, 0)
<1>2. /\ page = OnPage(L, 0) /\ page \subseteq L /\ L \subseteq Ids
      /\ Cardinality(page) \in Nat /\ Cardinality(page) <= Limit
      /\ After(page) \in {"walking", "done"}
      /\ After(page) = "walking" => 0 + Limit <= Cardinality(Ids)
      /\ After(page) = "done" => \A i \in L : Place(L, i) < 0 + Limit
  BY PageFacts
<1>3. /\ twice = 0 /\ joined = 0 /\ parted = 0
      /\ twice' = 0 /\ joined' = 0 /\ parted' = 0
      /\ Listing(filter)' = L
  BY DEF FirstPage, WalkInv, WalkTyped, Listing
<1>4. WalkTyped'
  <2>1. page \in SUBSET Ids /\ L \in SUBSET Ids
    BY <1>2
  <2> QED
    BY <1>1, <1>2, <1>3, <2>1, PagingAssumption DEF WalkTyped
<1>5. \A i \in L : Place(L, i) \in Nat
  BY <1>2, AboveIds
<1>6. Missed(L \ page, L, Limit) = {} /\ Past(page, L, Limit) = {}
  BY <1>2, <1>5, PagingAssumption DEF Missed, Past, OnPage
<1>7. Walking'
  <2> SUFFICES ASSUME After(page) = "walking"
               PROVE  /\ L \subseteq L
                      /\ 0 + Cardinality(page) <= Limit
                      /\ Limit <= Cardinality(Ids)
                      /\ Cardinality(Missed(L \ page, L, Limit)) <= 0
                      /\ 0 + Cardinality(Past(page, L, Limit)) <= 0
    BY <1>1, <1>3 DEF Walking, Listing, Missed, Past, Place, Above
  <2>1. Cardinality({}) = 0
    BY FS_EmptySet
  <2> HIDE DEF L, page
  <2> QED
    BY <1>2, <1>6, <2>1, PagingAssumption
<1>8. ASSUME walk'.pc = "done"
      PROVE  MissesBounded' /\ RepeatsBounded'
  <2>1. L \ page = {}
    BY <1>1, <1>2, <1>5, <1>8, PagingAssumption DEF OnPage
  <2> QED
    BY <1>1, <1>3, <2>1, FS_EmptySet DEF MissesBounded, RepeatsBounded
<1> QED
  BY <1>4, <1>7, <1>8 DEF WalkInv

\* Another page, of the table as it is now.
LEMMA NextPageKeeps ==
  ASSUME WalkInv, NextPage, table' = table
  PROVE  WalkInv'
<1> DEFINE L == Listing(walk.filter)
           o == walk.offset
           page == Page(walk.filter, o)
           stayed == walk.stayed
           seen == walk.seen
<1>1. /\ walk.pc = "walking"
      /\ walk' = [pc |-> After(page), filter |-> walk.filter, offset |-> o + Limit,
                  stayed |-> stayed, seen |-> seen \cup page]
      /\ twice' = twice + Cardinality(page \cap seen)
      /\ joined' = joined /\ parted' = parted
  BY DEF NextPage, WalkInv, WalkTyped
<1>2. /\ o \in Nat /\ stayed \subseteq Ids /\ seen \subseteq Ids
      /\ twice \in Nat /\ joined \in Nat /\ parted \in Nat /\ o + Limit \in Nat
      /\ Limit \in Nat
  BY PagingAssumption DEF WalkInv, WalkTyped
<1>3. /\ page = OnPage(L, o) /\ page \subseteq L /\ L \subseteq Ids
      /\ Cardinality(page) \in Nat /\ Cardinality(page) <= Limit
      /\ After(page) \in {"walking", "done"}
      /\ After(page) = "walking" => o + Limit <= Cardinality(Ids)
      /\ After(page) = "done" => \A i \in L : Place(L, i) < o + Limit
  BY <1>2, PageFacts
<1>4. /\ stayed \subseteq L
      /\ twice + Cardinality(seen) <= o
      /\ o <= Cardinality(Ids)
      /\ Cardinality(Missed(stayed \ seen, L, o)) <= parted
      /\ joined <= Cardinality(Ids) => twice + Cardinality(Past(seen, L, o)) <= joined
  BY <1>1 DEF WalkInv, Walking
<1> HIDE DEF L, o, page, stayed, seen
<1>5. Listing(walk.filter)' = L
  BY <1>1 DEF Listing, L
<1>6. /\ Cardinality(page \cap seen) \in Nat /\ Cardinality(seen) \in Nat
      /\ Cardinality(seen \cup page) \in Nat /\ Cardinality(Ids) \in Nat
      /\ Cardinality(page \cap seen) <= Cardinality(seen)
      /\ Cardinality(seen \cup page) = Cardinality(seen) + Cardinality(page) - Cardinality(page \cap seen)
  <2>1. page \subseteq Ids /\ page \cap seen \subseteq seen /\ seen \cap page = page \cap seen
        /\ seen \cup page \subseteq Ids /\ page \cap seen \subseteq Ids
    BY <1>2, <1>3
  <2>2. Cardinality(page \cap seen) <= Cardinality(seen)
    BY <1>2, <2>1, CountSubset
  <2>3. Cardinality(seen \cup page) = Cardinality(seen) + Cardinality(page) - Cardinality(seen \cap page)
    BY <1>2, <2>1, CountTwo
  <2> QED
    BY <1>2, <2>1, <2>2, <2>3, Counts
<1>7. \A i \in L : Place(L, i) \in Nat
  BY <1>3, AboveIds
<1>8. WalkTyped'
  <2>1. walk.filter \in Filters \cup {"any"}
    BY DEF WalkInv, WalkTyped
  <2>2. seen \cup page \in SUBSET Ids /\ stayed \in SUBSET Ids
    BY <1>2, <1>3
  <2>3. twice' \in Nat /\ joined' \in Nat /\ parted' \in Nat
    BY <1>1, <1>2, <1>6
  <2> QED
    BY <1>1, <1>2, <1>3, <2>1, <2>2, <2>3 DEF WalkTyped
\* The page moves on over rows that were passed or that it shows.
<1>9. /\ Cardinality(Missed(stayed \ (seen \cup page), L, o + Limit)) <= parted
      /\ Cardinality(Missed(stayed \ (seen \cup page), L, o + Limit)) \in Nat
  <2>1. Missed(stayed \ (seen \cup page), L, o + Limit) \subseteq Missed(stayed \ seen, L, o)
    <3> SUFFICES ASSUME NEW i \in L, i \notin page, Place(L, i) < o + Limit
                 PROVE  Place(L, i) < o
      BY DEF Missed
    <3> QED
      BY <1>2, <1>3, <1>7 DEF OnPage
  <2>2. Missed(stayed \ seen, L, o) \subseteq Ids
    BY <1>3 DEF Missed
  <2>3. Missed(stayed \ (seen \cup page), L, o + Limit) \subseteq Ids
    BY <2>1, <2>2
  <2>4. Cardinality(Missed(stayed \ (seen \cup page), L, o + Limit))
          <= Cardinality(Missed(stayed \ seen, L, o))
    BY <2>1, <2>2, CountSubset
  <2>5. /\ Cardinality(Missed(stayed \ (seen \cup page), L, o + Limit)) \in Nat
        /\ Cardinality(Missed(stayed \ seen, L, o)) \in Nat
    BY <2>2, <2>3, Counts
  <2> QED
    BY <1>2, <1>4, <2>4, <2>5
\* Rows that are shown again stood past the offset and do so no more.
<1>10. ASSUME joined <= Cardinality(Ids)
       PROVE  /\ twice' + Cardinality(Past(seen \cup page, L, o + Limit)) <= joined
              /\ Cardinality(Past(seen \cup page, L, o + Limit)) \in Nat
  <2>1. /\ Past(seen \cup page, L, o + Limit) \subseteq Past(seen, L, o)
        /\ page \cap seen \subseteq Past(seen, L, o)
        /\ (page \cap seen) \cap Past(seen \cup page, L, o + Limit) = {}
    BY <1>2, <1>3, <1>7 DEF Past, OnPage
  <2>2. Past(seen, L, o) \subseteq Ids
    BY <1>3 DEF Past
  <2> DEFINE again == page \cap seen
             past == Past(seen \cup page, L, o + Limit)
  <2>3. again \subseteq Ids /\ past \subseteq Ids /\ again \cup past \subseteq Past(seen, L, o)
        /\ again \cap past = {}
    BY <2>1, <2>2
  <2> HIDE DEF again, past
  <2>4. Cardinality(again) + Cardinality(past) <= Cardinality(Past(seen, L, o))
    <3>1. Cardinality(again \cup past) = Cardinality(again) + Cardinality(past)
      BY <2>3, CountTwo
    <3>2. Cardinality(again \cup past) <= Cardinality(Past(seen, L, o))
      BY <2>2, <2>3, CountSubset
    <3> QED
      BY <3>1, <3>2
  <2>5. Cardinality(again) \in Nat /\ Cardinality(past) \in Nat
        /\ Cardinality(Past(seen, L, o)) \in Nat
    BY <2>2, <2>3, Counts
  <2>6. twice' = twice + Cardinality(again)
    BY <1>1 DEF again
  <2>7. twice' + Cardinality(past) <= joined
    BY <1>2, <1>4, <1>10, <2>4, <2>5, <2>6
  <2> QED
    BY <2>5, <2>7 DEF past
<1>11. Walking'
  <2> SUFFICES ASSUME After(page) = "walking"
               PROVE  /\ stayed \subseteq L
                      /\ twice' + Cardinality(seen \cup page) <= o + Limit
                      /\ o + Limit <= Cardinality(Ids)
                      /\ Cardinality(Missed(stayed \ (seen \cup page), L, o + Limit)) <= parted
                      /\ joined <= Cardinality(Ids) =>
                           twice' + Cardinality(Past(seen \cup page, L, o + Limit)) <= joined
    BY <1>1, <1>5 DEF Walking, Missed, Past, Place, Above
  <2> QED
    BY <1>1, <1>2, <1>3, <1>4, <1>6, <1>9, <1>10
<1>12. ASSUME walk'.pc = "done"
       PROVE  MissesBounded' /\ RepeatsBounded'
  <2>1. stayed \ (seen \cup page) = Missed(stayed \ (seen \cup page), L, o + Limit)
    BY <1>1, <1>3, <1>4, <1>12 DEF Missed
  <2>2. twice' <= joined
    <3>1. CASE joined <= Cardinality(Ids)
      BY <1>1, <1>2, <1>6, <1>10, <3>1
    <3>2. CASE ~(joined <= Cardinality(Ids))
      BY <1>1, <1>2, <1>4, <1>6, <3>2
    <3> QED
      BY <3>1, <3>2
  <2> QED
    BY <1>1, <1>9, <2>1, <2>2 DEF MissesBounded, RepeatsBounded
<1> QED
  BY <1>8, <1>11, <1>12 DEF WalkInv

\* The table changes in the middle of a walk.
LEMMA TableKeeps ==
  ASSUME WalkInv, WalkWitnesses
  PROVE  WalkInv'
<1>1. CASE walk.pc # "walking"
  BY <1>1 DEF WalkWitnesses, pagingVars, WalkInv, WalkTyped, Walking, MissesBounded, RepeatsBounded
<1>2. CASE walk.pc = "walking"
  <2> DEFINE B == Listing(walk.filter)
             A == Matching(walk.filter, table')
             o == walk.offset
             stayed == walk.stayed
             seen == walk.seen
             limit == Cardinality(Ids)
  <2>1. /\ walk' = [pc |-> "walking", filter |-> walk.filter, offset |-> o,
                    stayed |-> stayed \cap A, seen |-> seen]
        /\ twice' = twice
        /\ joined' = Capped(joined + Cardinality(A \ B))
        /\ parted' = Capped(parted + Cardinality(B \ A))
    BY <1>2 DEF WalkWitnesses, WalkInv, WalkTyped
  <2>2. /\ o \in Nat /\ stayed \subseteq Ids /\ seen \subseteq Ids
        /\ twice \in Nat /\ joined \in Nat /\ parted \in Nat
        /\ walk.filter \in Filters \cup {"any"}
    BY DEF WalkInv, WalkTyped
  <2>3. A \subseteq Ids /\ B \subseteq Ids /\ Listing(walk.filter)' = A
    <3>1. walk'.filter = walk.filter
      BY <2>1
    <3> QED
      BY <3>1 DEF Listing, Matching
  <2>4. /\ stayed \subseteq B
        /\ twice + Cardinality(seen) <= o
        /\ o <= limit
        /\ Cardinality(Missed(stayed \ seen, B, o)) <= parted
        /\ joined <= limit => twice + Cardinality(Past(seen, B, o)) <= joined
    BY <1>2 DEF WalkInv, Walking
  <2> HIDE DEF A, B, o, stayed, seen
  <2>5. /\ limit \in Nat
        /\ Cardinality(A \ B) \in Nat /\ Cardinality(B \ A) \in Nat
    BY <2>3, Counts
  <2> HIDE DEF limit
  <2>6. /\ joined' \in Nat /\ parted' \in Nat
        /\ joined' <= limit => joined <= limit /\ joined' = joined + Cardinality(A \ B)
        /\ parted' = parted + Cardinality(B \ A) \/ parted' = limit + 1
    <3>1. \A n \in Nat : \/ n > limit /\ Capped(n) = limit + 1
                         \/ n <= limit /\ Capped(n) = n
      BY <2>5 DEF Capped, limit
    <3>2. joined + Cardinality(A \ B) \in Nat /\ parted + Cardinality(B \ A) \in Nat
      BY <2>2, <2>5
    <3>3. \/ joined + Cardinality(A \ B) > limit /\ joined' = limit + 1
          \/ joined + Cardinality(A \ B) <= limit /\ joined' = joined + Cardinality(A \ B)
      BY <2>1, <3>1, <3>2
    <3>4. \/ parted + Cardinality(B \ A) > limit /\ parted' = limit + 1
          \/ parted + Cardinality(B \ A) <= limit /\ parted' = parted + Cardinality(B \ A)
      BY <2>1, <3>1, <3>2
    <3> QED
      BY <2>2, <2>5, <3>3, <3>4
  <2>7. WalkTyped'
    <3>1. stayed \cap A \in SUBSET Ids /\ seen \in SUBSET Ids
      BY <2>2
    <3> QED
      BY <2>1, <2>2, <2>6, <3>1 DEF WalkTyped
  \* Rows that no longer match are no loss; the others gained at most a place
  \* for each row that parted.
  <2>8. Cardinality(Missed((stayed \cap A) \ seen, A, o)) <= parted'
    <3> DEFINE T == stayed \ seen
               lost == Missed(T, A, o)
    <3>1. Missed((stayed \cap A) \ seen, A, o) = lost
      BY DEF Missed
    <3>2. Cardinality(lost) <= Cardinality(Missed(T, B, o)) + Cardinality(B \ A)
      BY <2>2, <2>3, <2>4, Passed
    <3>3. lost \subseteq Ids /\ Missed(T, B, o) \subseteq Ids
      BY <2>3 DEF Missed
    <3> HIDE DEF lost, T
    <3>4. /\ Cardinality(lost) \in Nat /\ Cardinality(Missed(T, B, o)) \in Nat
          /\ Cardinality(lost) <= limit
      BY <3>3, Counts, CountSubset DEF limit
    <3>5. Cardinality(lost) <= parted + Cardinality(B \ A)
      BY <2>2, <2>4, <2>5, <3>2, <3>4 DEF T
    <3> QED
      BY <2>2, <2>5, <2>6, <3>1, <3>4, <3>5
  <2>9. ASSUME joined' <= limit
        PROVE  twice' + Cardinality(Past(seen, A, o)) <= joined'
    <3>1. joined <= limit /\ joined' = joined + Cardinality(A \ B)
      BY <2>6, <2>9
    <3>2. Cardinality(Past(seen, A, o)) <= Cardinality(Past(seen, B, o)) + Cardinality(A \ B)
      BY <2>2, <2>3, Shift
    <3>3. Past(seen, A, o) \subseteq Ids /\ Past(seen, B, o) \subseteq Ids
      BY <2>3 DEF Past
    <3>4. Cardinality(Past(seen, A, o)) \in Nat /\ Cardinality(Past(seen, B, o)) \in Nat
      BY <3>3, Counts
    <3> QED
      BY <2>1, <2>2, <2>4, <2>5, <3>1, <3>2, <3>4
  <2>10. Walking'
    <3> SUFFICES /\ stayed \cap A \subseteq A
                 /\ twice' + Cardinality(seen) <= o
                 /\ o <= Cardinality(Ids)
                 /\ Cardinality(Missed((stayed \cap A) \ seen, A, o)) <= parted'
                 /\ joined' <= Cardinality(Ids) =>
                      twice' + Cardinality(Past(seen, A, o)) <= joined'
      BY <2>1, <2>3 DEF Walking, Missed, Past, Place, Above
    <3> QED
      BY <2>1, <2>4, <2>8, <2>9 DEF limit
  <2> QED
    BY <2>1, <2>7, <2>10 DEF WalkInv
<1> QED
  BY <1>1, <1>2

LEMMA WalkUnseen ==
  ASSUME WalkInv, UNCHANGED <<table, pagingVars>>
  PROVE  WalkInv'
BY DEF WalkInv, WalkTyped, Walking, MissesBounded, RepeatsBounded, pagingVars, Listing

\* Whoever takes the step, reader or writer.
LEMMA WalkNextInv ==
  ASSUME WalkInv, [ReadersNext]_readersVars
  PROVE  WalkInv'
<1>1. CASE WriterStep \/ Restart
  BY <1>1, TableKeeps DEF WriterStep, Restart
<1>2. CASE ClientReads
  BY <1>2, FirstPageKeeps, NextPageKeeps DEF ClientReads
<1>3. CASE UNCHANGED <<table, pagingVars>>
  BY <1>3, WalkUnseen
<1> QED
  BY <1>1, <1>2, <1>3 DEF ReadersNext, UpdaterGoesOn, UpdaterFails, Scrape, readersVars

LEMMA WalkInitInv ==
  ASSUME ReadersInit
  PROVE  WalkInv
<1>1. walk = NoWalk /\ twice = 0 /\ joined = 0 /\ parted = 0
  BY DEF ReadersInit, PagingInit
<1> QED
  BY <1>1 DEF NoWalk, WalkInv, WalkTyped, Walking

LEMMA WalkInvariant == ReadersSpec => []WalkInv
BY WalkInitInv, WalkNextInv, PTL DEF ReadersSpec

----------------------------------------------------------------------------
\* A finished walk has missed at most as many of the rows that matched all along
\* as rows have parted, whatever the limit, the filter and the moves of the table.
THEOREM MissesCounted == ReadersSpec => []MissesBounded
<1>1. WalkInv => MissesBounded
  BY DEF WalkInv, MissesBounded
<1> QED
  BY <1>1, WalkInvariant, PTL

\* At no point has the walk shown more rows again than rows have joined.
THEOREM RepeatsCounted == ReadersSpec => []RepeatsBounded
<1>1. WalkInv => RepeatsBounded
  <2> SUFFICES ASSUME WalkInv
               PROVE  RepeatsBounded
    OBVIOUS
  <2>1. CASE walk.pc = "walking"
    <3> DEFINE behind == Past(walk.seen, Listing(walk.filter), walk.offset)
    <3>1. behind \subseteq Ids /\ walk.seen \subseteq Ids
      BY ListingIds DEF Past, WalkInv, WalkTyped
    <3>2. /\ twice + Cardinality(walk.seen) <= walk.offset
          /\ walk.offset <= Cardinality(Ids)
          /\ joined <= Cardinality(Ids) => twice + Cardinality(behind) <= joined
      BY <2>1 DEF WalkInv, Walking
    <3> HIDE DEF behind
    <3>3. /\ Cardinality(behind) \in Nat /\ Cardinality(walk.seen) \in Nat
          /\ Cardinality(Ids) \in Nat
          /\ twice \in Nat /\ joined \in Nat /\ walk.offset \in Nat
      BY <3>1, Counts DEF WalkInv, WalkTyped
    <3> QED
      BY <3>2, <3>3 DEF RepeatsBounded
  <2> QED
    BY <2>1 DEF WalkInv, WalkTyped, RepeatsBounded
<1> QED
  BY <1>1, WalkInvariant, PTL

----------------------------------------------------------------------------
(* The sum of the costs. *)

\* The units a function on finitely many names stands for.
Units(f, S) == UNION {{x} \X (1 .. f[x]) : x \in S}

LEMMA UnitsOf ==
  ASSUME NEW f, NEW x, f[x] \in Nat
  PROVE  /\ IsFiniteSet({x} \X (1 .. f[x]))
         /\ Cardinality({x} \X (1 .. f[x])) = f[x]
<1> DEFINE One == {x}
           Part == 1 .. f[x]
<1>1. IsFiniteSet(Part) /\ Cardinality(Part) = f[x]
  BY FS_Interval
<1>2. IsFiniteSet(One) /\ Cardinality(One) = 1
  BY FS_Singleton
<1> HIDE DEF One, Part
<1>3. IsFiniteSet(One \X Part) /\ Cardinality(One \X Part) = Cardinality(One) * Cardinality(Part)
  BY <1>1, <1>2, FS_Product
<1>4. Cardinality(One \X Part) = f[x]
  BY <1>1, <1>2, <1>3
<1> QED
  BY <1>3, <1>4 DEF One, Part

LEMMA UnitsStep ==
  ASSUME NEW f, NEW S, NEW x \in S, f[x] \in Nat, IsFiniteSet(Units(f, S \ {x}))
  PROVE  /\ IsFiniteSet(Units(f, S))
         /\ Cardinality(Units(f, S)) = f[x] + Cardinality(Units(f, S \ {x}))
<1> DEFINE own == {x} \X (1 .. f[x])
           rest == Units(f, S \ {x})
<1>1. Units(f, S) = own \cup rest
  BY DEF Units
<1>2. own \cap rest = {}
  BY DEF Units
<1>3. IsFiniteSet(own) /\ Cardinality(own) = f[x]
  BY UnitsOf
<1> HIDE DEF own, rest
<1>4. IsFiniteSet(rest) /\ Cardinality(rest) \in Nat
  BY FS_CardinalityType DEF rest
<1>5. Cardinality(own \cup rest) = Cardinality(own) + Cardinality(rest) /\ IsFiniteSet(own \cup rest)
  BY <1>2, <1>3, <1>4, FS_Union, FS_EmptySet
<1> QED
  BY <1>1, <1>3, <1>5 DEF rest

LEMMA UnitsFinite ==
  ASSUME NEW f, NEW S, IsFiniteSet(S), \A x \in S : f[x] \in Nat
  PROVE  IsFiniteSet(Units(f, S)) /\ Cardinality(Units(f, S)) \in Nat
<1> DEFINE T == {t \in SUBSET S : ~IsFiniteSet(Units(f, t))}
<1>1. T = {}
  <2> SUFFICES ASSUME T # {}
               PROVE  FALSE
    OBVIOUS
  <2>1. PICK t \in T : \A u \in T : u \subseteq t => u = t
    <3>1. T \subseteq SUBSET S
      OBVIOUS
    <3> HIDE DEF T
    <3> QED
      BY <3>1, Smallest
  <2>2. t # {}
    BY <2>1, FS_EmptySet DEF Units
  <2>3. PICK x \in t : TRUE
    BY <2>2
  <2>4. IsFiniteSet(Units(f, t \ {x}))
    BY <2>1, <2>3
  <2> QED
    BY <2>1, <2>3, <2>4, UnitsStep
<1> QED
  BY <1>1, FS_CardinalityType

\* The fold the sum is defined by, as a function on the subsets.
Folds(f, S, sum) ==
  sum = [s \in SUBSET S |-> IF s = {} THEN 0 ELSE f[CHOOSE x \in s : TRUE] + sum[s \ {CHOOSE x \in s : TRUE}]]

SumOver(f, S) == MapThenSumSet(LAMBDA x : f[x], S)

LEMMA SumFolds ==
  ASSUME NEW f, NEW S
  PROVE  SumOver(f, S) = (CHOOSE sum : Folds(f, S, sum))[S]
BY DEF SumOver, MapThenSumSet, MapThenFoldSet, Folds

\* The function that counts the units is such a fold, so there is one; and
\* whichever it is, it counts the units.
LEMMA SumIsUnits ==
  ASSUME NEW f, NEW S, IsFiniteSet(S), \A x \in S : f[x] \in Nat
  PROVE  SumOver(f, S) = Cardinality(Units(f, S))
<1> DEFINE First(s) == CHOOSE x \in s : TRUE
           count == [s \in SUBSET S |-> Cardinality(Units(f, s))]
           sum == CHOOSE g : Folds(f, S, g)
<1>1. ASSUME NEW s \in SUBSET S, s # {}
      PROVE  /\ First(s) \in s
             /\ Cardinality(Units(f, s)) = f[First(s)] + Cardinality(Units(f, s \ {First(s)}))
  <2>1. First(s) \in s
    BY <1>1
  <2> DEFINE x == First(s)
  <2>2. x \in s /\ f[x] \in Nat /\ IsFiniteSet(s \ {x}) /\ \A y \in s \ {x} : f[y] \in Nat
    BY <2>1, FS_Subset
  <2> HIDE DEF x
  <2>3. IsFiniteSet(Units(f, s \ {x}))
    BY <2>2, UnitsFinite
  <2>4. Cardinality(Units(f, s)) = f[x] + Cardinality(Units(f, s \ {x}))
    BY <2>2, <2>3, UnitsStep
  <2> QED
    BY <2>1, <2>4 DEF x
<1>2. Cardinality(Units(f, {})) = 0
  BY FS_EmptySet DEF Units
<1>3. Folds(f, S, count)
  <2>1. ASSUME NEW s \in SUBSET S
        PROVE  count[s] = IF s = {} THEN 0 ELSE f[First(s)] + count[s \ {First(s)}]
    BY <1>1, <1>2
  <2> QED
    BY <2>1 DEF Folds
<1>4. Folds(f, S, sum)
  BY <1>3
<1> HIDE DEF sum, count
<1>5. \A s \in SUBSET S : sum[s] = IF s = {} THEN 0 ELSE f[First(s)] + sum[s \ {First(s)}]
  BY <1>4 DEF Folds
<1> DEFINE T == {t \in SUBSET S : sum[t] # Cardinality(Units(f, t))}
<1>6. T = {}
  <2> SUFFICES ASSUME T # {}
               PROVE  FALSE
    OBVIOUS
  <2>1. PICK t \in T : \A u \in T : u \subseteq t => u = t
    <3>1. T \subseteq SUBSET S
      OBVIOUS
    <3> HIDE DEF T
    <3> QED
      BY <3>1, Smallest
  <2>2. t # {}
    BY <1>2, <1>5, <2>1
  <2>3. First(t) \in t /\ t \in SUBSET S
    BY <1>1, <2>1, <2>2
  <2>4. sum[t \ {First(t)}] = Cardinality(Units(f, t \ {First(t)}))
    BY <2>1, <2>3
  <2>5. sum[t] = f[First(t)] + sum[t \ {First(t)}]
    BY <1>5, <2>2, <2>3
  <2>6. Cardinality(Units(f, t)) = f[First(t)] + Cardinality(Units(f, t \ {First(t)}))
    BY <1>1, <2>2, <2>3
  <2>7. sum[t] # Cardinality(Units(f, t))
    BY <2>1
  <2> HIDE DEF First, T
  <2> QED
    BY <2>4, <2>5, <2>6, <2>7
<1> QED
  BY <1>6, SumFolds DEF sum

----------------------------------------------------------------------------
\* Every row of a pass is in one of two places: counted by the cost of its name,
\* or still pending.
CostUnits == Units(export.cost, DOMAIN export.cost)

CostsCounted ==
  /\ \A l \in DOMAIN export.cost : export.cost[l] \in Nat
  /\ updater.pc \in Resetting => updater.left = DOMAIN updater.rows
  /\ updater.pc = "total" => export.cost = NoChildren
  /\ updater.pc \in Vectors => updater.row \notin updater.left
  /\ updater.pc \notin Resetting =>
       export.total = Cardinality(CostUnits) + Cardinality(Pending("cost"))

LEMMA CostNames ==
  ASSUME ReadersInv, CostsCounted
  PROVE  /\ IsFiniteSet(DOMAIN export.cost)
         /\ IsFiniteSet(CostUnits) /\ Cardinality(CostUnits) \in Nat
         /\ \A v \in Vectors : Pending(v) \subseteq Ids
<1>1. DOMAIN export.cost \subseteq Ids
  BY DEF ReadersInv, UpdaterTyped, NamesKept, Names, Present, Vectors
<1>2. IsFiniteSet(DOMAIN export.cost)
  BY <1>1, FS_Subset, ReadersAssumption
<1>3. IsFiniteSet(CostUnits) /\ Cardinality(CostUnits) \in Nat
  BY <1>2, UnitsFinite DEF CostsCounted, CostUnits
<1>4. \A v \in Vectors : Pending(v) \subseteq Ids
  BY DEF ReadersInv, UpdaterTyped, Pending, NotYet, Vectors, Present
<1> QED
  BY <1>2, <1>3, <1>4

LEMMA CostsUnseen ==
  ASSUME CostsCounted, UNCHANGED <<updater, export>>
  PROVE  CostsCounted'
BY DEF CostsCounted, CostUnits, Units, Pending

LEMMA SelectCounts ==
  ASSUME ReadersInv, CostsCounted, Select
  PROVE  CostsCounted'
<1>1. /\ export' = export /\ updater'.pc = "resetStatus"
      /\ updater'.left = DOMAIN updater'.rows
  BY DEF Select
<1> QED
  BY <1>1 DEF CostsCounted, Resetting, Vectors

LEMMA ResetCounts ==
  ASSUME ReadersInv, CostsCounted, ResetVector
  PROVE  CostsCounted'
<1>1. /\ updater.pc \in {"resetStatus", "resetUptime", "resetCost"}
      /\ export' = [export EXCEPT ![ResetOf[updater.pc]] = NoChildren]
      /\ updater' = [updater EXCEPT !.pc = AfterReset(updater.pc)]
  BY DEF ResetVector, ResetOf
<1>2. /\ updater'.pc = AfterReset(updater.pc) /\ updater'.left = updater.left
      /\ updater'.rows = updater.rows
  BY <1>1 DEF ReadersInv, UpdaterTyped
<1>3. export'.cost = IF updater.pc = "resetCost" THEN NoChildren ELSE export.cost
  BY <1>1 DEF ReadersInv, UpdaterTyped, ResetOf
<1> QED
  BY <1>1, <1>2, <1>3 DEF CostsCounted, AfterReset, Resetting, Vectors, NoChildren

\* The pass goes on: the row it takes up is pending as it was.
LEMMA LoopCounts ==
  ASSUME UpdaterTyped, NextRow(updater.left)
  PROVE  /\ updater'.pc \in {"idle", "status"}
         /\ updater'.pc = "status" => updater'.row \notin updater'.left
         /\ Pending("cost")' = updater.left
<1>1. Pending("cost")' = updater.left
  BY LoopMoves DEF Vectors
<1> QED
  BY <1>1 DEF NextRow, NoWork

LEMMA SetTotalCounts ==
  ASSUME ReadersInv, CostsCounted, SetTotal
  PROVE  CostsCounted'
<1>1. /\ updater.pc = "total" /\ NextRow(updater.left)
      /\ export'.total = Cardinality(updater.left)
      /\ export'.cost = NoChildren
  BY DEF SetTotal, CostsCounted, Resetting, ReadersInv, UpdaterTyped
<1>2. /\ updater'.pc \in {"idle", "status"}
      /\ updater'.pc = "status" => updater'.row \notin updater'.left
      /\ Pending("cost")' = updater.left
  BY <1>1, LoopCounts DEF ReadersInv
<1>3. CostUnits' = {}
  BY <1>1 DEF CostUnits, Units, NoChildren
<1>4. Cardinality(updater.left) \in Nat
  <2>1. updater.left \subseteq Ids
    BY DEF ReadersInv, UpdaterTyped, Present
  <2> QED
    BY <2>1, Counts
<1>5. export'.total = Cardinality(CostUnits') + Cardinality(Pending("cost")')
  BY <1>1, <1>2, <1>3, <1>4, FS_EmptySet
<1>6. Cardinality(CostUnits)' = Cardinality(CostUnits')
      /\ Cardinality(Pending("cost"))' = Cardinality(Pending("cost")')
  OBVIOUS
<1> QED
  BY <1>1, <1>2, <1>5, <1>6 DEF CostsCounted, Resetting, Vectors, NoChildren

\* One of the children counts one more.
LEMMA CostGrows ==
  ASSUME NEW f, IsFiniteSet(DOMAIN f), \A x \in DOMAIN f : f[x] \in Nat,
         NEW l, NEW old, old = IF l \in DOMAIN f THEN f[l] ELSE 0
  PROVE  Cardinality(Units(With(f, l, old + 1), DOMAIN With(f, l, old + 1)))
           = Cardinality(Units(f, DOMAIN f)) + 1
<1> DEFINE g == With(f, l, old + 1)
           U == Units(f, DOMAIN f)
<1>1. old \in Nat
  OBVIOUS
<1>2. /\ DOMAIN g = DOMAIN f \cup {l} /\ g[l] = old + 1
      /\ \A x \in DOMAIN f : x # l => g[x] = f[x]
  BY DEF With
<1> HIDE DEF g
<1>3. Units(g, DOMAIN g) = U \cup {<<l, old + 1>>}
  <2>1. ASSUME NEW u \in Units(g, DOMAIN g)
        PROVE  u \in U \cup {<<l, old + 1>>}
    <3>1. PICK x \in DOMAIN g : \E n \in 1 .. g[x] : u = <<x, n>>
      BY <2>1 DEF Units
    <3> PICK n \in 1 .. g[x] : u = <<x, n>>
      BY <3>1
    <3>2. CASE x # l
      BY <1>2, <3>1, <3>2 DEF Units
    <3>3. CASE x = l /\ n = old + 1
      BY <3>1, <3>3
    <3>4. CASE x = l /\ n # old + 1
      <4>1. n \in 1 .. old /\ l \in DOMAIN f /\ f[l] = old
        BY <1>1, <1>2, <3>1, <3>4
      <4> QED
        BY <3>1, <3>4, <4>1 DEF Units
    <3> QED
      BY <3>2, <3>3, <3>4
  <2>2. ASSUME NEW u \in U
        PROVE  u \in Units(g, DOMAIN g)
    <3>1. PICK x \in DOMAIN f : \E n \in 1 .. f[x] : u = <<x, n>>
      BY <2>2 DEF Units
    <3> PICK n \in 1 .. f[x] : u = <<x, n>>
      BY <3>1
    <3>2. x \in DOMAIN g /\ n \in 1 .. g[x]
      BY <1>1, <1>2, <3>1
    <3> QED
      BY <3>1, <3>2 DEF Units
  <2>3. <<l, old + 1>> \in Units(g, DOMAIN g)
    <3>1. l \in DOMAIN g /\ old + 1 \in 1 .. g[l]
      BY <1>1, <1>2
    <3> QED
      BY <3>1 DEF Units
  <2> HIDE DEF U
  <2> QED
    BY <2>1, <2>2, <2>3
<1>4. <<l, old + 1>> \notin U
  <2> SUFFICES ASSUME <<l, old + 1>> \in U
               PROVE  FALSE
    OBVIOUS
  <2>1. l \in DOMAIN f /\ old + 1 \in 1 .. f[l]
    BY DEF Units
  <2> QED
    BY <1>1, <2>1
<1>5. IsFiniteSet(U)
  BY UnitsFinite
<1> HIDE DEF U
<1>6. Cardinality(U \cup {<<l, old + 1>>}) = Cardinality(U) + 1
  BY <1>4, <1>5, FS_AddElement
<1> QED
  BY <1>3, <1>6 DEF g, U

LEMMA SetValueCounts ==
  ASSUME ReadersInv, CostsCounted, NEW v \in Vectors, SetValue(v)
  PROVE  CostsCounted'
<1> DEFINE l == name[updater.row]
           old == IF l \in DOMAIN export.cost THEN export.cost[l] ELSE 0
<1>1. /\ updater.pc = v /\ export'.total = export.total
      /\ export'.cost = IF v = "cost" THEN With(export.cost, l, old + 1) ELSE export.cost
      /\ updater.row \notin updater.left
      /\ export.total = Cardinality(CostUnits) + Cardinality(Pending("cost"))
  BY DEF SetValue, Value, Vectors, CostsCounted, Resetting, ReadersInv, UpdaterTyped
<1>2. /\ IsFiniteSet(DOMAIN export.cost)
      /\ Cardinality(CostUnits) \in Nat
      /\ Pending("cost") \subseteq Ids
  BY CostNames DEF Vectors
<1>3. /\ Cardinality(Pending("cost")) \in Nat
      /\ updater.left \subseteq Ids /\ Cardinality(updater.left) \in Nat
      /\ IsFiniteSet(updater.left)
  BY <1>2, Counts DEF Pending
<1>4. CASE v = "cost"
  <2>1. updater'.pc = "uptime" /\ updater'.row = updater.row /\ updater'.left = updater.left
    BY <1>4 DEF SetValue, ReadersInv, UpdaterTyped
  <2>2. Cardinality(CostUnits') = Cardinality(CostUnits) + 1
    BY <1>1, <1>2, <1>4, CostGrows DEF CostUnits, CostsCounted
  <2>3. Pending("cost") = updater.left \cup {updater.row} /\ Pending("cost")' = updater.left
    BY <1>1, <1>4, <2>1 DEF Pending, NotYet
  <2>4. Cardinality(Pending("cost")) = Cardinality(Pending("cost")') + 1
    BY <1>1, <1>3, <2>3, FS_AddElement
  <2>5. export'.total = Cardinality(CostUnits') + Cardinality(Pending("cost")')
    BY <1>1, <1>2, <1>3, <2>2, <2>3, <2>4
  <2>6. Cardinality(CostUnits)' = Cardinality(CostUnits')
        /\ Cardinality(Pending("cost"))' = Cardinality(Pending("cost")')
    OBVIOUS
  <2>7. \A k \in DOMAIN export'.cost : export'.cost[k] \in Nat
    BY <1>1, <1>4 DEF With, CostsCounted
  <2> QED
    BY <1>1, <2>1, <2>5, <2>6, <2>7 DEF CostsCounted, Resetting, Vectors
<1>5. CASE v # "cost"
  <2>1. CostUnits' = CostUnits
    BY <1>1, <1>5 DEF CostUnits
  <2>2. /\ updater'.pc \in {"idle", "status", "cost"}
        /\ updater'.pc \in Vectors => updater'.row \notin updater'.left
        /\ Pending("cost")' = Pending("cost")
    <3>1. CASE v = "status"
      <4>1. updater'.pc = "cost" /\ updater'.row = updater.row /\ updater'.left = updater.left
        BY <3>1 DEF SetValue, ReadersInv, UpdaterTyped
      <4> QED
        BY <1>1, <3>1, <4>1 DEF Pending, NotYet
    <3>2. CASE v = "uptime"
      <4>1. NextRow(updater.left)
        BY <3>2 DEF SetValue
      <4>2. Pending("cost") = updater.left
        BY <1>1, <3>2 DEF Pending, NotYet
      <4> QED
        BY <4>1, <4>2, LoopCounts DEF ReadersInv, Vectors
    <3> QED
      BY <1>5, <3>1, <3>2 DEF Vectors
  <2>3. Cardinality(CostUnits)' = Cardinality(CostUnits')
        /\ Cardinality(Pending("cost"))' = Cardinality(Pending("cost")')
    OBVIOUS
  <2> QED
    BY <1>1, <1>5, <2>1, <2>2, <2>3 DEF CostsCounted, Resetting
<1> QED
  BY <1>4, <1>5

LEMMA FreshCounts == Fresh => CostsCounted
<1> SUFFICES ASSUME Fresh
             PROVE  CostsCounted
  OBVIOUS
<1>1. CostUnits = {} /\ Pending("cost") = {}
  BY DEF Fresh, CostUnits, Units, Pending, NotYet, NoWork, NoExport, NoChildren
<1>2. Cardinality(CostUnits) = 0 /\ Cardinality(Pending("cost")) = 0
  BY <1>1, FS_EmptySet
<1>3. updater.pc = "idle" /\ export.total = 0 /\ DOMAIN export.cost = {}
  BY DEF Fresh, NoWork, NoExport, NoChildren
<1> QED
  BY <1>2, <1>3 DEF CostsCounted, Resetting, Vectors

LEMMA CostsNext ==
  ASSUME ReadersInv, CostsCounted, [ReadersNext]_readersVars
  PROVE  CostsCounted'
<1>1. CASE UNCHANGED <<updater, export>>
  BY <1>1, CostsUnseen
<1>2. CASE UpdaterGoesOn
  BY <1>2, SelectCounts, ResetCounts, SetTotalCounts, SetValueCounts DEF UpdaterGoesOn, UpdaterStep
<1>3. CASE Restart
  <2>1. Fresh'
    BY <1>3, RestartFresh
  <2>2. Fresh' => CostsCounted'
    BY FreshCounts, PTL
  <2> QED
    BY <2>1, <2>2
<1> QED
  BY <1>1, <1>2, <1>3 DEF ReadersNext, WriterStep, UpdaterFails, SelectFails, Scrape, Collect,
                          ClientReads, metricsVars, readersVars

----------------------------------------------------------------------------
\* What a cost shows and what the pass is still to add to it come to no more than
\* the servers of that name.  The costs of the last pass stay until they are reset.
CostOf(l) == IF l \in DOMAIN export.cost THEN export.cost[l] ELSE 0

Due(l) ==
  IF updater.pc \in {"resetStatus", "resetUptime", "resetCost"}
    THEN {}
    ELSE {i \in Pending("cost") : name[i] = l}

Bearers(l) == {i \in Present : name[i] = l}

CostsPast ==
  \A l \in Ids : CostOf(l) + Cardinality(Due(l)) <= Cardinality(Bearers(l))

LEMMA DueBearers ==
  ASSUME ReadersInv, NEW l \in Ids
  PROVE  /\ Due(l) \subseteq Bearers(l) /\ Bearers(l) \subseteq Ids
         /\ IsFiniteSet(Due(l))
         /\ Cardinality(Due(l)) \in Nat /\ Cardinality(Bearers(l)) \in Nat
         /\ Cardinality(Due(l)) <= Cardinality(Bearers(l))
<1>1. Pending("cost") \subseteq Present
  BY DEF Pending, NotYet, Vectors, ReadersInv, UpdaterTyped
<1>2. Due(l) \subseteq Bearers(l) /\ Bearers(l) \subseteq Ids /\ Due(l) \subseteq Ids
  BY <1>1 DEF Due, Bearers, Present
<1> QED
  BY <1>2, Counts, CountSubset

LEMMA FreshPast == Fresh => CostsPast
<1> SUFFICES ASSUME Fresh, NEW l \in Ids
             PROVE  CostOf(l) + Cardinality(Due(l)) <= Cardinality(Bearers(l))
  BY DEF CostsPast
<1>1. CostOf(l) = 0
  BY DEF Fresh, NoExport, NoChildren, CostOf
<1>2. Cardinality(Due(l)) <= Cardinality(Bearers(l))
      /\ Cardinality(Due(l)) \in Nat /\ Cardinality(Bearers(l)) \in Nat
  BY DueBearers, FreshReaders
<1> QED
  BY <1>1, <1>2

\* No cost grows and nothing more is due, or everything is due and the costs are
\* none.
LEMMA PastStays ==
  ASSUME ReadersInv, ReadersInv', CostsCounted, CostsPast, NEW l \in Ids,
         \/ CostOf(l)' = CostOf(l) /\ Due(l)' \subseteq Due(l) /\ Bearers(l) \subseteq Bearers(l)'
         \/ CostOf(l)' = 0
  PROVE  (CostOf(l) + Cardinality(Due(l)) <= Cardinality(Bearers(l)))'
<1>1. /\ IsFiniteSet(Due(l)) /\ Cardinality(Due(l)) \in Nat /\ Cardinality(Bearers(l)) \in Nat
  BY DueBearers
<1>2. /\ Cardinality(Due(l))' \in Nat /\ Cardinality(Bearers(l))' \in Nat
      /\ Cardinality(Due(l))' <= Cardinality(Bearers(l))'
      /\ Bearers(l)' \subseteq Ids
  <2>1. Pending("cost")' \subseteq Present'
    BY DEF Pending, NotYet, Vectors, ReadersInv, UpdaterTyped
  <2>2. Due(l)' \subseteq Bearers(l)' /\ Bearers(l)' \subseteq Ids /\ Due(l)' \subseteq Ids
    BY <2>1 DEF Due, Bearers, Present
  <2> QED
    BY <2>2, Counts, CountSubset
<1>3. CASE CostOf(l)' = 0
  BY <1>2, <1>3
<1>4. CASE CostOf(l)' = CostOf(l) /\ Due(l)' \subseteq Due(l) /\ Bearers(l) \subseteq Bearers(l)'
  <2>1. CostOf(l) \in Nat
    BY DEF CostsCounted, CostOf
  <2>2. Cardinality(Due(l))' <= Cardinality(Due(l))
    BY <1>1, <1>4, FS_Subset
  <2>3. Cardinality(Bearers(l)) <= Cardinality(Bearers(l))'
    BY <1>2, <1>4, CountSubset
  <2>4. CostOf(l) + Cardinality(Due(l)) <= Cardinality(Bearers(l))
    BY DEF CostsPast
  <2> QED
    BY <1>1, <1>2, <1>4, <2>1, <2>2, <2>3, <2>4
<1> QED
  BY <1>3, <1>4

\* The row whose cost is added was due.
LEMMA CostCharged ==
  ASSUME ReadersInv, CostsCounted, CostsPast, SetValue("cost"), table' = table, name' = name,
         NEW l \in Ids, name[updater.row] = l
  PROVE  (CostOf(l) + Cardinality(Due(l)) <= Cardinality(Bearers(l)))'
<1>1. /\ updater.pc = "cost" /\ updater'.pc = "uptime"
      /\ updater'.row = updater.row /\ updater'.left = updater.left
      /\ export'.cost = With(export.cost, l, CostOf(l) + 1)
      /\ updater.row \notin updater.left
  BY DEF SetValue, Value, CostOf, Vectors, CostsCounted, ReadersInv, UpdaterTyped
<1>2. CostOf(l)' = CostOf(l) + 1 /\ CostOf(l) \in Nat
  BY <1>1 DEF CostOf, With, CostsCounted
<1>3. Due(l) = Due(l)' \cup {updater.row} /\ updater.row \notin Due(l)'
  BY <1>1 DEF Due, Pending, NotYet
<1>4. Bearers(l)' = Bearers(l)
  BY DEF Bearers, Present
<1>5. /\ IsFiniteSet(Due(l)) /\ Cardinality(Due(l)) \in Nat /\ Cardinality(Bearers(l)) \in Nat
  BY DueBearers
<1>6. IsFiniteSet(Due(l)') /\ Cardinality(Due(l)') \in Nat
  BY <1>3, <1>5, FS_Subset, FS_CardinalityType
<1>7. Cardinality(Due(l)) = Cardinality(Due(l)') + 1
  BY <1>3, <1>6, FS_AddElement
<1>8. CostOf(l) + Cardinality(Due(l)) <= Cardinality(Bearers(l))
  BY DEF CostsPast
<1>9. /\ Cardinality(Due(l))' = Cardinality(Due(l)')
      /\ Cardinality(Bearers(l))' = Cardinality(Bearers(l))
  BY <1>4
<1> QED
  BY <1>2, <1>5, <1>6, <1>7, <1>8, <1>9

LEMMA PastNext ==
  ASSUME ReadersInv, CostsCounted, CostsPast, [ReadersNext]_readersVars
  PROVE  CostsPast'
<1>1. ReadersInv'
  BY ReadersNextInv
<1> SUFFICES ASSUME NEW l \in Ids
             PROVE  (CostOf(l) + Cardinality(Due(l)) <= Cardinality(Bearers(l)))'
  BY DEF CostsPast
<1>2. CASE WriterStep \/ UNCHANGED <<table, name, updater, export>>
  <2>1. UNCHANGED <<name, updater, export>> /\ Present \subseteq Present'
    BY <1>2, TableForward DEF WriterStep, metricsVars, Present, ReadersInv, UpdaterTyped
  <2>2. CostOf(l)' = CostOf(l) /\ Due(l)' = Due(l) /\ Bearers(l) \subseteq Bearers(l)'
    BY <2>1 DEF CostOf, Due, Pending, Bearers
  <2> QED
    BY <1>1, <2>2, PastStays
<1>3. CASE UpdaterGoesOn
  <2>1. table' = table /\ name' = name /\ Bearers(l)' = Bearers(l)
    BY <1>3 DEF UpdaterGoesOn, Bearers, Present
  <2>2. CASE Select
    <3>1. CostOf(l)' = CostOf(l) /\ Due(l)' = {}
      BY <2>2 DEF Select, CostOf, Due
    <3> QED
      BY <1>1, <2>1, <3>1, PastStays
  <2>3. CASE ResetVector
    <3>1. /\ updater.pc \in {"resetStatus", "resetUptime", "resetCost"}
          /\ updater'.pc = AfterReset(updater.pc)
          /\ export'.cost = IF updater.pc = "resetCost" THEN NoChildren ELSE export.cost
      BY <2>3 DEF ResetVector, ResetOf, ReadersInv, UpdaterTyped
    <3>2. CASE updater.pc = "resetCost"
      <4>1. CostOf(l)' = 0
        BY <3>1, <3>2 DEF CostOf, NoChildren
      <4> QED
        BY <1>1, <4>1, PastStays
    <3>3. CASE updater.pc # "resetCost"
      <4>1. CostOf(l)' = CostOf(l) /\ Due(l)' = {}
        BY <3>1, <3>3 DEF CostOf, Due, AfterReset
      <4> QED
        BY <1>1, <2>1, <4>1, PastStays
    <3> QED
      BY <3>2, <3>3
  <2>4. CASE SetTotal \/ SetValue("uptime")
    <3>1. /\ updater.pc \in {"total", "uptime"} /\ NextRow(updater.left)
          /\ export'.cost = export.cost
      BY <2>4 DEF SetTotal, SetValue, ReadersInv, UpdaterTyped
    <3>2. Pending("cost")' = updater.left /\ updater'.pc \in {"idle", "status"}
      BY <3>1, LoopMoves DEF ReadersInv, Vectors
    <3>3. Pending("cost") = updater.left
      BY <3>1 DEF Pending, NotYet
    <3>4. CostOf(l)' = CostOf(l) /\ Due(l)' = Due(l)
      BY <2>1, <3>1, <3>2, <3>3 DEF CostOf, Due
    <3> QED
      BY <1>1, <2>1, <3>4, PastStays
  <2>5. CASE SetValue("status")
    <3>1. /\ updater.pc = "status" /\ updater'.pc = "cost" /\ updater'.row = updater.row
          /\ updater'.left = updater.left /\ export'.cost = export.cost
      BY <2>5 DEF SetValue, ReadersInv, UpdaterTyped
    <3>2. CostOf(l)' = CostOf(l) /\ Due(l)' = Due(l)
      BY <2>1, <3>1 DEF CostOf, Due, Pending, NotYet
    <3> QED
      BY <1>1, <2>1, <3>2, PastStays
  <2>6. CASE SetValue("cost")
    <3>1. CASE name[updater.row] = l
      BY <2>1, <2>6, <3>1, CostCharged
    <3>2. CASE name[updater.row] # l
      <4>1. /\ updater.pc = "cost" /\ updater'.pc = "uptime" /\ updater'.row = updater.row
            /\ updater'.left = updater.left
            /\ \E x : export'.cost = With(export.cost, name[updater.row], x)
        BY <2>6 DEF SetValue, ReadersInv, UpdaterTyped
      <4>2. CostOf(l)' = CostOf(l)
        BY <3>2, <4>1 DEF CostOf, With
      <4>3. Due(l)' = Due(l)
        BY <2>1, <3>2, <4>1 DEF Due, Pending, NotYet
      <4> QED
        BY <1>1, <2>1, <4>2, <4>3, PastStays
    <3> QED
      BY <3>1, <3>2
  <2> QED
    BY <1>3, <2>2, <2>3, <2>4, <2>5, <2>6 DEF UpdaterGoesOn, UpdaterStep, Vectors
<1>4. CASE Restart
  <2>1. Fresh'
    BY <1>4, RestartFresh
  <2>2. Fresh' => CostsPast'
    BY FreshPast, PTL
  <2> QED
    BY <2>1, <2>2 DEF CostsPast
<1> QED
  BY <1>2, <1>3, <1>4 DEF ReadersNext, UpdaterFails, SelectFails, Scrape, Collect,
                          ClientReads, metricsVars, readersVars

\* No cost counts a server twice or one without that name, and between two passes
\* the servers behind the costs are as many as the gauge counts, whichever
\* servers share a name.
THEOREM ExportsFit == ReadersSpec => []CostsFit
<1>1. ReadersInit => CostsCounted /\ CostsPast
  BY ReadersInitFresh, FreshCounts, FreshPast
<1>2. ReadersSpec => [](CostsCounted /\ CostsPast)
  BY <1>1, CostsNext, PastNext, ReadersInvariant, PTL DEF ReadersSpec
<1>3. ReadersInv /\ CostsCounted /\ CostsPast => CostsFit
  <2> SUFFICES ASSUME ReadersInv, CostsCounted, CostsPast
               PROVE  CostsFit
    OBVIOUS
  <2>1. ASSUME NEW l \in DOMAIN export.cost
        PROVE  export.cost[l] <= Cardinality({i \in Present : name[i] = l})
    <3>1. l \in Ids
      BY DEF ReadersInv, UpdaterTyped, NamesKept, Names, Present, Vectors
    <3>2. CostOf(l) + Cardinality(Due(l)) <= Cardinality(Bearers(l))
      BY <3>1 DEF CostsPast
    <3>3. CostOf(l) = export.cost[l] /\ export.cost[l] \in Nat
      BY DEF CostOf, CostsCounted
    <3>4. Cardinality(Due(l)) \in Nat /\ Cardinality(Bearers(l)) \in Nat
      BY <3>1, DueBearers
    <3> QED
      BY <3>2, <3>3, <3>4 DEF Bearers
  <2>2. ASSUME updater.pc = "idle"
        PROVE  export.total = SumOver(export.cost, DOMAIN export.cost)
    <3>1. Pending("cost") = {}
      BY <2>2 DEF Pending, NotYet, Vectors, ReadersInv, UpdaterTyped
    <3>2. export.total = Cardinality(CostUnits)
      <4>1. export.total = Cardinality(CostUnits) + Cardinality({})
        BY <2>2, <3>1 DEF CostsCounted, Resetting, Vectors
      <4> QED
        BY <4>1, CostNames, FS_EmptySet
    <3>3. SumOver(export.cost, DOMAIN export.cost) = Cardinality(CostUnits)
      BY CostNames, SumIsUnits DEF CostsCounted, CostUnits
    <3> QED
      BY <3>2, <3>3
  <2> QED
    BY <2>1, <2>2 DEF CostsFit, SumOver
<1> QED
  BY <1>2, <1>3, ReadersInvariant, PTL
=============================================================================
