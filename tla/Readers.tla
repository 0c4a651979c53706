------------------------------ MODULE Readers ------------------------------
(***************************************************************************)
(* The readers beside the table they read.  The writers are whoever the    *)
(* abstract table allows: the handlers and the daemon implement it         *)
(* (TableImplemented).  The metrics updater and a client's walk do not     *)
(* meet, neither in the program nor through the table, so a behaviour has  *)
(* one of them.                                                            *)
(***************************************************************************)
EXTENDS Metrics, Paging

CONSTANT MetricsIds   \* the rows there may be while the updater reads (a bound)

ASSUME ReadersAssumption == MetricsIds \subseteq Ids /\ IsFiniteSet(Ids)

VARIABLE reader   \* the reader of this behaviour

readersVars == <<table, name, metricsVars, pagingVars, reader>>

\* The rows of former lives have been terminated by the time the program serves.
Former(k, uptime) ==
  [i \in Ids |-> IF i <= k THEN [status |-> "terminated", uptime |-> uptime]
                           ELSE [status |-> "absent", uptime |-> 0]]

ReadersInit ==
  /\ reader \in {"metrics", "client"}
  /\ \E k \in MetricsIds \cup {0}, u \in Uptimes :
        table = Former(k, IF reader = "metrics" THEN u ELSE 0)
  /\ MetricsInit
  /\ \A i \in Ids : reader = "client" \/ i \notin MetricsIds => name[i] = i   \* not looked at
  /\ PagingInit

\* The tables one statement away, as far as the reader can tell them apart: a
\* walk depends on no uptime, and on nothing when it is over.
Written ==
  CASE reader = "metrics" -> {[table EXCEPT ![i] = row] : i \in MetricsIds, row \in Row}
    [] walk.pc = "done"   -> {}
    [] OTHER -> {[table EXCEPT ![i].status = status] : i \in Ids, status \in Status}

WriterStep ==
  /\ table' \in Written \ {table}
  /\ \E i \in Ids : Write(i)
  /\ WalkWitnesses
  /\ UNCHANGED <<name, metricsVars, reader>>

UpdaterGoesOn ==
  /\ reader = "metrics"
  /\ UpdaterStep
  /\ UNCHANGED <<table, name, pagingVars, reader>>

UpdaterFails ==
  /\ reader = "metrics"
  /\ SelectFails
  /\ UNCHANGED <<table, name, pagingVars, reader>>

Scrape ==
  /\ reader = "metrics"
  /\ Collect
  /\ UNCHANGED <<table, name, pagingVars, reader>>

ClientReads ==
  /\ reader = "client"
  /\ FirstPage \/ NextPage
  /\ UNCHANGED <<table, name, metricsVars, reader>>

\* The process ends and is started again, with an empty registry of metrics; the
\* startup terminates the servers, unless its statement fails.  The client's walk
\* goes on, and what Prometheus has seen of the former life does not count.
Restart ==
  /\ Reset \/ UNCHANGED table
  /\ updater' = NoWork
  /\ export' = NoExport
  /\ scraped' = {}
  /\ WalkWitnesses
  /\ UNCHANGED <<name, reader>>

ReadersNext ==
  WriterStep \/ UpdaterGoesOn \/ UpdaterFails \/ Scrape \/ ClientReads \/ Restart

\* The ticker ticks again and again, not every SELECT fails, and the goroutine
\* goes on; nothing is assumed of the writers, of Prometheus or of the client.
ReadersSpec ==
  ReadersInit /\ [][ReadersNext]_readersVars /\ WF_readersVars(UpdaterGoesOn)

----------------------------------------------------------------------------
\* As long as the process lives the gauge never shows fewer servers than before,
\* whatever is terminated and whichever rows a pass reads: "total number of
\* servers ever created".
TotalNeverShrinks == [][Restart \/ export'.total >= export.total]_readersVars

\* The vectors catch up: unless the process is restarted for ever, a terminated
\* server is shown as terminated under its name sooner or later, unless it is
\* revived first or the name is another server's as well.
TerminationShown ==
  <>[][~Restart]_readersVars =>
    \A i \in MetricsIds :
      reader = "metrics" /\ table[i].status = "terminated" ~>
        \/ table[i].status # "terminated"
        \/ \E j \in Present \ {i} : name[j] = name[i]
        \/ name[i] \in DOMAIN export.status /\ export.status[name[i]] = StatusNumber("terminated")
=============================================================================
