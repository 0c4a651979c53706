# A TLA+ model of the virtual server lifecycle API

The program (`src/`) is a Go service that simulates a fleet of virtual servers:
clients provision servers and start, stop, reboot and terminate them over HTTP,
a pool of IP addresses is handed out, and a background daemon bills the running
servers and terminates ("reaps") those that have accumulated too much uptime.
All durable state is in two PostgreSQL tables. The program opens **no
transaction**: every SQL statement commits by itself, and each handler is a
sequence of such statements with only one mutex, held for one statement at a
time. What can go wrong is therefore what happens *between* two statements.

This directory holds the TLA+ modules that model it, the TLC configurations
that check them, and TLAPS proofs of all safety properties.
`PROJECT.json` is the index: components, runs, the source lines of every
definition, hazards, findings, theorems.

- [Inventory](#inventory)
- [Modules](#modules)
- [Modelling decisions](#modelling-decisions)
- [Properties and runs](#properties-and-runs)
- [Fairness](#fairness)
- [Where the code differs from its documentation](#where-the-code-differs-from-its-documentation)
- [Proofs](#proofs)
- [Not modelled](#not-modelled)
- [Plan](#plan)

## Inventory

| component | state | operations | what makes it correct |
|---|---|---|---|
| state machine (`internal/util/util.go`) | none | `IsValidTransition` | a status moves only along the table; termination is final |
| store (`internal/database/sqlc`, `migrations/schema.sql`) | tables `servers`, `ip_addresses` | one generated function per statement | the two columns of the pool agree; a guarded UPDATE never takes an owned address |
| server service (`internal/services/server.go`, handlers in `internal/api/api_handler.go`) | one goroutine per request, with the row it has read | provision, start, stop, reboot, terminate, append to the log | neither leaks nor shares an address; respects the state machine; bounds the log |
| IP allocator (`internal/services/ip_allocator.go`) | `ipMutex` | `AllocateIP`, `saveAllocatedIP`, `TerminateAllServers` | one owner per address, one address per owner; the mutex is always released |
| billing and reaper daemon (`internal/services/billing.go`) | a ticker; the list a pass works on | `Start`, `processBilling` | uptime never shrinks, is never charged before the start, covers the running time and is not more than it; a pass misses nobody it should reap; a pass ends |
| startup and shutdown (`cmd/server/main.go`, `internal/database/postgres.go`) | how far `main` has come | connect with retries, terminate all, truncate, fill the pool, serve; on a signal drain and exit | wherever the last run ended, the next one starts from a clean state and does start |
| metrics updater (`internal/services/metrics.go`) | a gauge and three Prometheus vectors | every 30 s: read all rows, reset the vectors, fill them | no cost counts a server twice, no uptime is ahead of the table, no label is lost for longer than a pass, the gauges catch up |
| read API (`GetServer`, `ListServers`, `GetServerLogs`, health) | none; the client keeps an offset | queries only | no row is lost and no uptime goes back; a walk through the pages misses and repeats no more than the list moved; the log is a window on the newest events |
| configuration, logger, router, response models | none that changes after startup | parsing, wiring, formatting | not modelled |

**Interactions.** Handlers and the daemon never call each other; they meet in
the two tables. Handlers share `ipMutex`. The daemon calls
`AppendServerLifecycleLogs` with a nil service, which returns an error nobody
looks at (`billing.go:93`). The metrics updater and the read API only read the
tables. `main` runs the startup alone, before the daemon, the updater and the
HTTP server exist. On SIGINT or SIGTERM it waits for the handlers, at most 30
seconds, and for nobody else. The process may also die at any time. The
container is restarted when the process has ended by itself
(`docker-compose.yml`, `restart: always`), not when somebody has stopped it, and
the tables survive.

**Hard behaviours.** Check-then-act over separate statements (a handler acts on
the row it read; the daemon on a list that may be many statements old);
half-done requests after an error; an error for a statement that committed;
two requests that select the same free address; a death in the middle of the
startup or in a shutdown that nobody waits for; a pool that runs empty under
the mutex; a log limit measured in bytes, and an array that most entries enter
at the front and one at the end; elapsed time added twice; pages cut out of a
list that moves; vectors emptied and filled under the eyes of a scraper. The complete list, each at its line and with the
properties that cover it, is `hazards` in `PROJECT.json`.

## Modules

| module | models | uses |
|---|---|---|
| `Fsm` | statuses, the transition table, what each action checks and writes | |
| `Store` | the tables and every statement the program issues, as operators that return the table left behind; failing statements | `Fsm` |
| `ServerService` | `ProvisionServer` and `PerformServerAction` with all they call; one action per statement of a handler | `Store` |
| `BillingDaemon` | the clock, the ticker with its one-place channel, and `processBilling`; one action per statement | `Store` |
| `Startup` | connect, terminate all, truncate, the loop over the prefix, serve | `Store` |
| `System` | all of it together with crashes and shutdowns; invariants, action properties, fairness, liveness | the three above |
| `LifecycleLog` | the contents of the logs: variables that follow the statements of `System` | `SystemRefinement` |
| `Metrics` | the pass of the metrics updater, one action per call, and the scrapes | `ServerTable` |
| `Paging` | `ListServers` and a client that walks through its pages | `ServerTable` |
| `Readers` | both beside whatever the abstract table allows | the two above |
| `AddressPool` | abstract specification: who owns an address | |
| `Lifecycle` | abstract specification: the state machine of a server | `Fsm` |
| `ServerTable` | abstract specification: what a reader may rely on of the table `servers` | `Fsm` |
| `SystemRefinement` | the refinement mappings to the three; what a quiet system looks like | `System` |
| `SystemInvariant` | the inductive invariants | `SystemRefinement` |
| `SystemProofs`, `TableProofs`, `StartupProofs`, `LogProofs`, `OneClientProofs`, `RecentProofs`, `LogStatusProofs`, `ReadersProofs` | lemmas and theorems (TLAPS), see [Proofs](#proofs) | |
| `MCSystem` | symmetry for TLC | `SystemInvariant` |
| `Claims` | what README and comments say and the code does not do | `System` |
| `BillingAudit` | `System` with a meter: how long each server has really been running | `System` |
| `BillingFloor` | `System` with a note of what the pass in progress has listed and in which statements it has failed; what a finished pass has charged and reaped at least | `SystemRefinement` |

**State.** `servers` is the table `servers`: a function from ids, numbered in
order of insertion (`created_at`), to rows with `status`, `address`,
`lastStatusUpdate`, `uptime` and `logs` (the *number* of entries in
`lifecycle_logs`). `ips` is the table `ip_addresses`: offset in the prefix ->
`state` (absent, free, allocated: whether the row exists and `is_allocated`)
and `server` (`server_id`, `NoServer` for NULL). `req[r]` is handler goroutine
`r`: the statement it issues next and the locals it still needs. `ipMutex` is
the holder of the mutex. `daemon` is the pass in progress with the rows as they
were *listed*. `ticker` is the `time.Ticker`. `phase`, `attempt` and `cursor`
are `main`: `phase = "down"` is a process that has ended by itself, `"stopped"`
one that was told to. `flawed` notes that a statement of the startup in progress
has failed; no step depends on it. `now` is the clock. `faults` and `crashes` count what the
environment did (a signal counts as a crash); they exist to bound it and to
state `LogBounded`.

In `LifecycleLog`, `log[s]` is the array `lifecycle_logs`, each entry
represented by its age (0 for the newest), and `newest[s]` the operation the
newest entry tells. In `Metrics`, `export` holds the vectors as functions from
labels to values, `updater` the pass and the rows it has read, `scraped` the
labels Prometheus has seen in the vector of the statuses. In `BillingFloor`,
`note` holds when the pass listed the servers, the uptime each running one had
reached by then, and the servers whose own statements have failed. In `Paging`, `walk` is what the client knows, and
`joined`, `parted` and `twice` count how the list moved and what it was shown
again.

**Actions and code.** A handler step is named for the code it runs:

| request | steps |
|---|---|
| provision | `ProvisionRequest` (decode and validate), `LockSelect`, `SelectIP` (`AllocateIP`), `CreateServer`, `LockSave`, `SaveAllocatedIP`, `ProvisionLog` |
| start, stop | `ActionRequest` (`GetServer` and the check), `UpdateStatus`, `AppendLog`, `EnforceLimit` |
| reboot | `ActionRequest`, `AppendLog`, `EnforceLimit`, `UpdateStatus`: it logs first |
| terminate | `ActionRequest`, `UpdateStatus`, `GetIP`, `Deallocate`, `AppendLog`, `EnforceLimit`, `Refetch` |
| refused | `RejectedRequest` |

A pass of the daemon is `StartPass`, `ListRunning`, then for every listed
server, newest first, `BillServer` and, above the limit, `ReapServer`.
`main` is `Launch`, `Connect`, `TerminateAll`, `Truncate`, `Populate` (one
round of the loop each), `Serve`; after a `Signal`, `Exit` or
`ShutdownTimesOut`; `StartedAgain` is somebody starting a stopped program. A pass of the updater is `Select`, three times
`ResetVector`, `SetTotal`, then for every row `SetValue` of the status, the cost
and the uptime; `Collect` is a scrape of the statuses at any time.

An operator named `X_Something` next to `X` is a plausible mistake in `X`. No
specification uses it; substituting it for `X` shows which property notices
(`mutants` in `PROJECT.json`).

## Modelling decisions

- **A statement is a step.** In PostgreSQL a single-row UPDATE in its own
  transaction is atomic; the multi-row UPDATE of the startup runs when nobody
  else does. `FOR UPDATE SKIP LOCKED` locks for the duration of the statement
  only, so it protects nothing afterwards. What it skips is modelled: the SELECT
  may pass over any row that a request about to deallocate it may be locking
  (`LockedRows`), so it need not find the oldest free row, nor any.
- **A failing statement** (`Fault`) returns an error, and *may or may not have
  taken effect*: the connection can be lost after the commit, and a client that
  goes away cancels the request's context. An INSERT refused by the database (a
  name longer than its column) is one of these failures. The effect never comes
  later than the error.
- **The read and the check of `PerformServerAction` are one step**
  (`ActionRequest`): the check is a function of the row just read, so nothing
  can come between that matters. Everything after it uses the remembered id and
  looks at the row no more, as in the code.
- **A failed `GetServer`, a refused request or an unknown action** changes
  nothing; `RejectedRequest` stands for them and keeps the system from
  deadlock when all bounds are reached. Deadlock is checked in every run.
- **The lifecycle log is its length** in `System`. `len(updatedLogs) > 100`
  (`server.go:267`) compares *bytes* of JSON; one entry is longer than that,
  so the limit statement runs after every successful append. The statement
  counts entries, and cuts 101 to 15 (`LogLimit`, `LogKeep`). `LifecycleLog`
  adds the contents without changing a step of `System`: a log that has become
  longer got its entry in front, or at the end if it was the startup that wrote
  it; one that has become shorter was cut to its first entries
  (`jsonb_path_query_array` with `$[0 to 14]`).
- **The daemon's log entries do not exist**, because the nil check at
  `server.go:254` refuses them. The mutex of `billing.go` is used by one
  goroutine and is left out.
- **Shutdown in stages.** `Signal` closes the listener: no request is accepted
  any more, handlers and daemon go on. `Exit` is enabled when no handler is left
  and ends the process wherever the daemon is. `ShutdownTimesOut` is the 30
  seconds: the process ends under the handlers that are left.
- **Who starts the process again.** `restart: always` brings back a process that
  ended by itself (`"down"`), not a container that was stopped. So a shutdown
  ends in `"stopped"`, a `Crash` in either (the process dies; or it is killed, or
  signalled before `main` listens to signals, which ends it at once), and from
  `"stopped"` only `StartedAgain` leads on, for which no fairness is assumed. A
  SIGTERM that comes from somewhere else than a stop of the container, after
  which Docker would restart it, is covered by the same step.
- **One clock.** The database's `NOW()` and the process's `time.Now()` are
  assumed equal, monotonic, and are counted in whole seconds as the division in
  `billing.go:70` does. Without it `BillsForward` below would not hold.
- **Startup in the startup only.** `Running` guards handlers and daemon.
  `os.Exit(0)` on a missing schema and `Fatal` after the last connection
  attempt both end in `phase = "down"`, from where the container relaunches.
  Runs with `MaxRetries = 1` and a fault reach the latter.
  An invalid CIDR is a configuration error and is not modelled.
- **Readers against an abstract table.** `ServerTable` says what the handlers,
  the daemon and the startup may do to the rows as far as they are shown;
  `TableImplemented` (checked, and proved for all constants) shows that they do
  no more. `Metrics` and `Paging` are checked against every behaviour of that
  table, which has far fewer states than the program. The updater and a client
  share nothing, so a behaviour of `Readers` has one of the two; writes that
  neither the reader nor a property can tell apart are left out (`Written`). That
  it starts with terminated rows of one uptime (`Former`) restricts nothing: any
  other table is reached by writes before the reader's first query. `Restart` ends the
  process of either reader: the client's walk goes on across it, the registry of
  the metrics starts again empty, and so does what Prometheus is said to have
  seen. The startup terminates the servers then, unless its statement fails.
- **What `BillingFloor` notes.** `PassCharges` and `PassReaps` hold when
  statements fail, so they have to say for whom: a server whose own UPDATE of
  the uptime (of the status) has returned an error in this pass is left out, the
  others are not, and a failed list leaves out everybody. The note is compared
  with the uptime a server has *reached* when it is listed, what it was charged and the
  time since its last change of status, so earlier overcharging hides nothing.
- **A call on a vector is atomic**, as the client library makes it; nothing
  spans two calls. `WithLabelValues` creates a child of value 0 which the `Set`
  or `Add` right after it changes; the two are one step, since a scrape in
  between could only tell a 0 apart. The hourly cost is a count: each `Add` adds
  one server. A pass whose SELECT fails changes nothing. Labels are names, which
  may be shared: `name` maps each server to the first of its name.
- **Pages.** `created_at` is assumed to differ between rows (otherwise the
  order is open and no offset means anything). Region and type never change, so
  of the filters the status is modelled. A client sends `limit` and `offset`:
  when one is missing the query gets an empty string, PostgreSQL refuses it,
  and the answer is 500.

**Bounds** (constants of the configurations; the proofs do not use them):
`MaxServers` rows; addresses `0 .. LastHost` with `Excluded` left out;
`MaxFaults` failing statements; `MaxCrashes`; `MaxRetries` connection attempts;
`MaxTime` where the clock stops; `LogLimit`/`LogKeep` = 3/2 (in the run that
looks at the contents) or 1/1 in place of 100/15 (a log fills up in two or four
appends); `Interval` 1;
`ReapAfter` in place of 1800 s; for the readers `Ids`, `MetricsIds` (rows while
the updater reads), `Uptimes` and a page of `Limit` rows. Two servers and one or two usable addresses are enough for contention
on an address, exhaustion, and re-use after a termination; `concurrent` and
`failures` have two, so that an owner could be given a second address and
several could be freed at once if the code did so; the `NextId` order
makes ids interchangeable with creation order, so a third server adds no new
relation between rows except in `Sequential` and `Readers`, which have three:
an address re-used twice, a row that is missed between two others.

## Properties and runs

| run | configuration | distinct states | properties | question |
|---|---|---|---|---|
| concurrent | 2 handlers, the daemon and its reaper, 2 servers, 2 addresses, time to 1 | 2.2 M | `PoolConsistent`, `StoppedOnlyAfterStart`, `TerminationFinalWhenQuiet` | what do races of requests, with each other and with the daemon, leave intact? |
| failures | 2 handlers, 2 servers, 2 addresses, 1 fault, 2 crashes or signals, 2 attempts to connect | 1.8 M | `LogBounded`, `PoolConsistent`, `PoolImplemented`, `CleanStart` | and failing statements, crashes and shutdowns, of the startup too? |
| daemon | 1 handler and the daemon with its reaper, 2 servers, 2 addresses of which 1 is excluded, 1 fault, 1 crash or signal, 1 attempt to connect, time to 2, fair | 430 k | `TypeOK`, `UnstartedNotBilled`, `UptimeNeverShrinks`, `PassCharges`, `PassReaps`, `CleanStart`, `PassEnds`, `ServesAgain`, `ShutdownEnds`, `TableImplemented` | what does a pass that works on an old list do, whom has it charged and reaped when it ends, does the program stop, come back and repair what the reaper leaked, and what do readers see of it all? |
| sequential | 1 handler and the daemon, which has nothing to reap, 3 servers, 2 addresses, logs cut from 4 to 2, 1 crash or signal, time to 1 | 2.5 M | `LeasesExact`, `LogIsRecent`, `LogTellsStatus`, `LifecycleImplemented` | is the program right when one client waits for its answers, and does the log say so? |
| progress | 2 handlers, 1 address, 1 fault, fair | 240 k | `RequestsAnswered` | is every request answered, also with an empty pool? |
| readers | 3 rows (2 for the updater), pages of 1, filter "running" or none, uptimes 0 and 1, restarts, fair | 270 k | `CostsFit`, `ExportedUptimePast`, `NoLabelVanishes`, `TotalNeverShrinks`, `TerminationShown`, `MissesBounded`, `RepeatsBounded` | what do those see who read while the table moves? |

The six runs named `claim_...` each find a violation; see
[below](#where-the-code-differs-from-its-documentation).

What the properties say:

- `PoolConsistent`: `is_allocated` and `server_id` agree; an owned address
  belongs to an existing server whose row shows that very address. Hence no
  server owns two, and the UNIQUE constraint on `server_id` never fires.
- `PoolImplemented`: the pool refines `AddressPool`, whatever fails. An address
  is given only while the program serves, nobody owns it and its new owner owns
  no other. While the program serves it is freed only by a release that was begun
  when the address was the server's, one at a time; all are freed at once only
  while it does not serve. The abstract pool does *not* promise that the address
  still belongs to whoever began the release: that it need not is
  `claim_frees_own_address`.
- `StoppedOnlyAfterStart`: although `StopServer`'s check may be arbitrarily
  old, a never-started server is never stopped. Nothing leads back to
  "provisioning", which is why the stale check is good enough *here*.
- `TerminationFinalWhenQuiet`: the part of "termination is final" that the code
  does keep. No request begins to work on a terminated server, and once
  nobody works on it, it stays terminated; the daemon, whose list may be old,
  never revives it.
- `LogBounded`: a log exceeds its limit only by the entries whose enforcement
  is pending, was lost to a fault or a crash, or does not exist in the code (the
  first entry and the entry of the restart).
- `UnstartedNotBilled`, `UptimeNeverShrinks`: the daemon writes an absolute
  value computed from an old row, with no guard in the UPDATE; the values still
  only grow, since `last_status_update` never lies in the future and nobody else
  writes the uptime.
- `PassCharges`: whoever stops, starts, reboots and terminates servers while the
  daemon works on its old list, a pass that comes to its end leaves every server
  that was running when it was listed with at least the uptime it had reached by
  then; only a server whose own UPDATE failed is left out, not those behind it in
  the list. It is the lower bound of the bill; the upper bound, `NotOvercharged`,
  does not hold. What no bound covers is the time between a server's last pass
  and a stop or reboot, which is never charged.
- `PassReaps`: a pass that comes to its end leaves nobody running above the limit,
  except servers whose status was written after the list and those whose own
  termination failed. The reaper looks at the sum of the *listed* values, not at
  the column: that is enough although the write may have failed or been delayed.
- `CleanStart`: a start none of whose own statements has failed leaves every
  server terminated and exactly the usable addresses in the pool, all free,
  wherever the last run ended, whatever failed in it, a half-done INSERT or
  termination included, and whatever addresses the reaper had leaked.
- `LifecycleImplemented` (one handler, nothing reaped): without concurrency the
  status follows the state machine of the README, while the daemon bills and
  through crashes and restarts; by `LifecycleRefined` also when statements fail,
  written or not.
- `LeasesExact` (one handler, nothing reaped, as long as no statement failed):
  every live server owns the address it shows, and only live servers own
  addresses. Both fail with two handlers; the claims show how.
- `LogIsRecent`: a log is a window on the newest events, newest first and
  without a gap, whatever is cut and wherever the program ends; only the entry
  of a restart stands at the old end, where the next cut would lose it, and no
  cut follows.
- `LogTellsStatus` (one handler, nothing reaped, as long as no statement failed):
  status and entry are written by
  two statements, in one order by reboot and in the other by the rest, but when
  nothing is in flight the newest entry tells the status of every server that
  is not terminated. Terminated servers are excepted: a start after a death
  between the two statements of a terminate finds the server terminated
  already and writes no entry.
- `TableImplemented`: what readers see of the rows. No row is lost, no
  uptime shrinks, none returns to "provisioning", no server is charged or stopped
  before it was started, and outside a start one row changes at a time. The
  status otherwise moves freely: a terminated server may be shown as running
  again (`claim_terminated_is_final`).
- `CostsFit`: at any point of a pass the cost of a name counts no server twice
  and none without the name; between passes the costs account for every server
  the gauge counts, shared names included.
- `ExportedUptimePast`: at any point of a pass, some server of the name has at
  least the uptime that is exported.
- `NoLabelVanishes`: although the vector of the statuses, which shows terminated
  servers as well (3), is emptied in every pass, a name Prometheus has seen in it
  is there, or the pass is about to put it there again.
- `TotalNeverShrinks`, `TerminationShown`: as long as the process lives,
  `server_total` never falls; unless it is restarted for ever, a terminated
  server is exported as such sooner or later.
- `MissesBounded`, `RepeatsBounded`: a walk through the pages misses no more
  of the rows that matched all along than rows have left the list meanwhile, and
  shows no more rows twice than rows have joined it. In particular a walk without
  a status filter misses nobody, because rows are never deleted.
- `RequestsAnswered`, `PassEnds`, `ServesAgain`, `ShutdownEnds`: see the next
  section.

`LeasesExact` and `LogTellsStatus` are about behaviours in which no statement has
failed yet, and say so (`faults = 0`), because the code logs such an error and
goes on. In the
runs with `MaxTime = 0` the daemon does not run (its first tick never comes):
they isolate the handlers. In `concurrent` and `daemon` it bills and reaps. In
`sequential` it bills, and `ReapAfter` is out of its reach: the reaper, which
never frees an address and writes no entry, would refute the properties.

## Fairness

`FairSpec` adds to `Spec`:

- weak fairness of `HandlerStep(r)`: a goroutine that can run is scheduled, and
  a statement returns or fails;
- strong fairness of `Locking(r)`: a `sync.Mutex` in starvation mode hands
  itself to the waiter that has waited longest (for more than 1 ms), so a
  goroutine is not overtaken for ever;
- weak fairness of `MainStep`: `main` goes on, and `restart: always` relaunches
  a process that ended by itself (`Launch`); weak fairness of `Exit`: a shutdown with no handler left ends;
- weak fairness of `PassGoesOn`: the daemon goes on with a pass.

Nothing is assumed of clients, the clock, crashes or signals, nor that a
shutdown times out, nor that anybody starts a program again that was stopped
(`StartedAgain` is not part of `MainStep`).

- `RequestsAnswered`: every accepted request is answered, if with an error.
- `PassEnds`: a pass of the daemon ends.
- `ServesAgain`: a process that died at whatever statement, or gave up on the
  database and exited, serves again, or somebody stops it on the way. It needs
  the number of crashes and failing statements to be finite, which the bounds
  provide.
- `ShutdownEnds`: a program that is told to stop does stop, without the help of
  the time limit: every handler it waits for gets through.

`ReadersSpec` adds weak fairness of `UpdaterGoesOn`: the ticker ticks again and
not every SELECT fails; `TerminationShown` rests on it, and on restarts that
cease, which is its hypothesis.

## Where the code differs from its documentation

| run | what is said | what happens |
|---|---|---|
| `claim_live_addresses_distinct` | `ip_allocator.go:86`: "AllocateIP attempts to atomically allocate an available IP address." | `AllocateIP` only *reads* the row and releases the mutex; two requests read the same address, both insert a server with it, the second save finds no free row, and its error is only logged |
| `claim_terminated_is_final` | `README.md:17`: "Enforces valid state machine (FSM) transitions" | start passes its check, terminate completes, start writes "running" |
| `claim_frees_own_address` | `server.go:194`: "TerminateServer changes server status to terminated and deallocates IP." | of two requests that terminate one server the slower frees the address by its id after another server has got it; that server lives on with an address the pool considers free |
| `claim_terminated_own_nothing` | the same line | the status is written, the query for the address fails, and the request is answered with the address still allocated; a second terminate is refused with 409 |
| `claim_reaps_stopped_servers` | `README.md:27`: "Automatically terminates servers that have been in a `stopped` state for more than 30 minutes." | the reaper goes by servers it listed as *running* and by their cumulated uptime: it terminates a running server (one stopped after the list was made it terminates too) |
| `claim_not_overcharged` | `README.md:37`: "the cumulative uptime in seconds for each server" | each pass adds the whole time since `last_status_update`, which the uptime UPDATE does not move: after *n* passes a server is charged for 1 + 2 + ... + *n* intervals |

Further disagreements met while modelling, without a run of their own:

- `server_current_status` is a number per *name* (`metrics.go:136`), not "the
  count of servers by their current status" (`README.md:33`); the vectors are
  labelled with the name, not with "the specific server's ID" (`metrics.go:44`).
- `server_uptime_seconds` is said to be of "each running server" (`metrics.go:43`,
  and "running servers" in its help at `metrics.go:48`); every server has a
  child, stopped and terminated ones included (`metrics.go:134`). No property
  demands or forbids it.
- `server_hourly_cost` is a counter that is reset in every pass
  (`metrics.go:130`), so it accumulates nothing (`README.md:35`).
- A log that reaches 101 entries is cut to 15 (`server.sql.go:92`), so
  "the last 100 lifecycle events" (`README.md:21`) may be 15.
- The entry of a restart is appended where all others are prepended, so it
  reads as the oldest event; it stays there, as `LogIsRecent` shows.
- A request without `limit` or `offset` is answered with 500, where
  `api_handler.go:198` documents the default 10, and `total` is the length of
  the page.

## Proofs

All theorems are about every number of handlers, servers, addresses, rows,
faults, crashes and seconds, from the assumptions on the constants alone
(`StoreAssumption`, `ServiceAssumption`, `BillingAssumption`,
`StartupAssumption`, `SystemAssumption`, `TableAssumption`,
`PagingAssumption`, `ReadersAssumption`). They are about `Spec`, `LogSpec`, `FloorSpec` and `ReadersSpec`; safety
needs no fairness.

| module | theorem | establishes |
|---|---|---|
| `SystemProofs` | `Invariant` | `[]IInv` |
| | `TypeCorrect` | `[]TypeOK`; in particular the uptime never becomes negative |
| | `PoolSafe` | `[]PoolConsistent` |
| | `BillingStartsLate` | `[]UnstartedNotBilled` |
| | `StopNeedsStart` | `StoppedOnlyAfterStart` |
| | `UptimeMonotonic` | `UptimeNeverShrinks` |
| | `PoolRefined` | `PoolImplemented` |
| `TableProofs` | `TableRefined` | `TableImplemented` |
| | `TerminationFinal` | `TerminationFinalWhenQuiet` |
| | `PassesCharge` | `PassCharges` |
| | `PassesReap` | `PassReaps` |
| `StartupProofs` | `StartIsClean` | `CleanStart` |
| `LogProofs` | `LogsBounded` | `[]LogBounded` |
| `RecentProofs` | `RecentLogs` | `[]LogIsRecent` |
| `OneClientProofs` | `OneClientInvariant` | `[](IInv /\ OneClientInv)`, if `OneClient` and `[]ReaperRests` |
| | `LeasesHold` | `[]LeasesExact`, under the same |
| | `LifecycleRefined` | `LifecycleImplemented`, under the same |
| `LogStatusProofs` | `StatusTold` | `[]LogTellsStatus`, under the same |
| `ReadersProofs` | `ReadersInvariant` | `[]ReadersInv` |
| | `UptimeExportsPast` | `[]ExportedUptimePast` |
| | `LabelsStay` | `[]NoLabelVanishes` |
| | `TotalMonotonic` | `TotalNeverShrinks` |
| | `MissesCounted` | `[]MissesBounded` |
| | `RepeatsCounted` | `[]RepeatsBounded` |
| | `ExportsFit` | `[]CostsFit` |

`OneClient` (in `SystemInvariant`) says that there is one handler, and
`ReaperRests` that the reaper is not at work; it is a hypothesis about the
behaviour, `Spec /\ []ReaperRests => ...`, so that the theorems say what holds
until the first server is reaped. Everything else is free: servers, addresses,
seconds, passes of the daemon, faults, crashes and signals. Without the two
hypotheses these properties are false: the claims show it for two handlers, and
a reaped server keeps its address and has no log entry.

**The inductive invariant.** `PoolConsistent` is not inductive: whether a save
keeps it depends on what the request remembers. `IInv` (checked by TLC first)
adds what each actor may still rely on of rows it looked at long ago:

- `ActsOnRow`: the id a request carries names an existing row;
- `SavingOwnsNothing`, `SavingApart`: a request between its INSERT and its save
  has a row that shows the address it selected, that owns nothing yet, and that
  no other request is about to save an address for. With it the guarded UPDATE
  gives the address to the right row, and to a row that owns none;
- `StopsStarted`, `BillsStarted`: an accepted stop and the daemon's list are
  about servers that have been started, and a started server never becomes
  unstarted;
- `TimesPast`, `BillsForward`: no time stamp lies in the future, and the sum
  the daemon is going to write is at least the uptime stored now.

**The argument.** `RowsEvolve` sums up what any statement may do to the rows (a
row stays, keeps its address, does not fall back to "provisioning", ...). Every
part of `IInv` that looks at rows survives a `RowsEvolve` step; what is left
per action is the one part it can disturb. There is one lemma per action, then
`NextInv`, then `Invariant` by PTL. `PoolRefined` uses `IInv` to show that a
save is `Give` or a stutter, that `GetIP` is `BeginRelease` and a deallocation
`EndRelease`, and `RequestsEnd` (no request outlives the process) that a start is
`Open` and every end `Close`; the truncation is `Rebuild`.

**Beside it**, each with its own strengthening:

- `TableRefined`: `OneRow` and `TableMoves` reduce every statement to what it
  does to the one row it writes; the startup's UPDATE is `Reset`.
- `TerminationFinal`: `IdsMove` says when a request comes to work on a row; a
  terminated one passes no check.
- `LogsBounded`: `EntriesCounted` counts the entries a log has *and those that
  are still to come without an enforcement* (`FirstEntry`, `ResetEntry`)
  against the limit, the pending enforcements and those lost. An append moves one
  from the right to the left; a crash, which makes all pending ones disappear, is
  paid for by one handler each. A signal was counted when it came (`Ends`).
- `StartIsClean`: how far a startup has come none of whose statements has
  failed (`StartupDone`).
- `PassesCharge`, `PassesReap`: `FloorInvariant` relates the note to the pass. Of
  a server that is still on the list the listed values give at least what was
  due, and one that was running then and still has its time stamp is the one
  listed; of a server the pass is through with, the column has what was due
  unless its UPDATE has failed, and it is not running above the limit with an
  old time stamp unless its termination has. `IInv` supplies that no uptime
  shrinks in between.
- `RecentLogs`: a log is `NewestFirst`, or that followed by the entry of the
  restart, and in the second case nothing can be written any more
  (`ResetEntry` is 0). The array operations are shown to keep the two forms.
- `OneClientInvariant`: `CheckHolds` (the status a request has checked is the
  status its UPDATE overwrites) and `Leases` (owners and live servers
  correspond, except for the one request between its two statements). Of the
  daemon `OnlyBills` is enough: what it does short of reaping changes uptimes only.
- `StatusTold`: `TellInv` follows a request that has written the status and not
  yet the entry, or for a reboot conversely (`Half`).
- `ReadersInvariant`: `NamesKept`. What a vector will have at the end of the
  pass, its children now and the names of the rows it still gets
  (`Promised`), is the same for all vectors and never loses a name that was
  scraped; for the statuses it is what `NoLabelVanishes` says. The writers come in
  only through `TableForward`, a restart through `FreshReaders`.
- `MissesCounted`, `RepeatsCounted`: `Walking` relates the offset to the list
  *as it is now*: unseen rows before it (`Missed`) are paid for by `parted`, seen
  rows past it (`Past`) by `joined`. `Shift` shows that a change of the table
  moves no more rows past the offset than join the list, and `Passed` the
  converse; `Spread` says that rows past a place have places of their own, so a
  page is as long as it should be and nothing comes after a short one. `Capped`
  costs nothing, for no walk misses or repeats more rows than there are.
- `ExportsFit`: `CostsPast` and `CostsCounted`. What a cost shows and the rows of
  its name the pass is still to count (`Due`) come to no more than the servers of
  that name; and each row of a pass is counted in the cost of its name or still to
  come, so at the end the costs are as many as the rows. The
  sum in the property is a fold over a set; `SumIsUnits` turns it into the number
  of pairs of a name and a unit of its cost, and numbers of such pairs only need
  cardinalities. The theorems of the library for induction over finite sets take
  an operator and cannot be instantiated; `Smallest`, which says that a nonempty
  set of subsets of a finite set has a minimal element, is used in their place.

Only model-checked: the liveness properties (`RequestsAnswered`, `PassEnds`,
`ServesAgain`, `ShutdownEnds`, `TerminationShown`: fairness and ENABLED are out of the prover's
reach).

## Not modelled

- **Health and readiness**, error codes and the filters on region and type of
  the read API: no state, or columns that never change.
- **Pricing and configuration**: `hourly_cost` is written once and read by no
  decision; configuration is read once and appears as constants.
- **Router, CORS, request logger, response models, generated docs**: no state
  the properties speak of.
- **Clock skew** between database and process, and a clock set back.
- **Statements nobody calls** (`DeleteServer`, `TruncateServers`,
  `GetServerLifecycleLogs`).
- **Connection pool**: exhaustion shows as a slow or failing statement.
- **Connections accepted before the signal**: `Shutdown` closes those that are
  idle, but one that is accepted and has not sent its request yet may still be
  served. The model lets no request arrive after the signal; such a one would be
  a request that arrived just before it.

## Plan

Done, in this order: `Fsm`, `Store`, `ServerService`, `BillingDaemon`,
`Startup`, `System` with its runs, two abstract specifications with the
refinements, the claims, the audit of the bill, the inductive invariant and its
proofs; then the shutdown in its stages, the contents of the logs, the abstract
table and its readers, and the proofs of what had only been model-checked. Left:

1. The prefix loop of `TerminateAllServers` against a reference set of hosts (a
   base address that is not the network address, the end of the address space).
