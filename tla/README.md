# Edge-metrics in TLA+

Specifications of the edge-metrics system (config server, exporters, Shelly
server), the TLC configurations that check them on small instances, and TLAPS
proofs of what holds for every instance. The models are written from the code
under `src/`; documents are only quoted where a run shows that they and the code
disagree. `PROJECT.json` maps every definition to the lines it models and lists
runs, mutants, hazards, findings and theorems.

    tlc -workers 2 -config ConfigServer.cfg MCConfigServer.tla
    tlapm ConfigServer_proofs.tla

## 1. Inventory of the system

    operator / front end             Prometheus -----> Shelly server <== plugs (WebSocket)
          | HTTP                          |                 ^
          v          PUT /config/:id      v                 | GET /metrics
    +------------+ <----------------- exporter -------------+
    |config      | -----------------> (one per device)
    |server      |  POST /reload,
    |+ Syncer    |  GET /health
    +------------+
       |       |
    SQLite   Kubernetes API (Services, Endpoints)

| component | state | operations | what is hard | what makes it correct |
|---|---|---|---|---|
| device registry (`server/handlers/{config,device}_handlers.go`, `server/repository`) | table `devices`; per request, a config value being built | POST, PUT, PATCH (two routes), DELETE, GET of `/config/:id`; boot with `SEED_DEVICES` | one goroutine per request and no transaction: statements of requests interleave; statement errors; death between a commit and its answer | each request has one atomic effect, the one it reports; no unchecked address is stored; two clients are not both told they created a device; PATCH and PUT leave alone what they are not given |
| reconciliation (`server/handlers/syncer.go`, `server/kubernetes/*.go`) | Services, Endpoints; `failureCounts`, mutex, channels of the Syncer | periodic and manual sync, single sync, delete, cleanup, shutdown | the handlers bypass the mutex; snapshots age; get and then create or update; failing calls; Kubernetes requests without a timeout, made under the mutex; restarts forget the counts | only checked addresses are published; grace period; mutual exclusion; eventual agreement of the cluster with the table; shutdown ends |
| Shelly server (`exporter/shelly_server.py`) | connection registry, `pending_requests` | connect, identify, scrape = RPC with timeout, disconnect | reconnect before the loss of the old connection is noticed; late answers; overlapping scrapes | a scrape returns its own plug's reading; nothing leaks; every scrape ends; connected plugs are listed |
| exporter (`exporter/exporter.py`, `config_loader.py`) | `current_config`, `current_collectors`, `reload_flag`, `config.yaml` and its `.tmp` | start with three fallbacks, waiting mode and stub mode, reload, scrape with automatic registration, enabling metrics, background PUT, saving the file | four kinds of threads over three globals and one lock; the configuration is a shared mutable dict; its own PUT makes the server call it back | collectors match the configuration; the file can be started from; acknowledged changes last; reloads are not lost; the loop with the server dies down; the file is whole at every moment |
| collectors (`exporter/collectors`) | RAPL energy and CPU times of the last reading (`edge_server.py`); a tegrastats process per scrape (`jetson.py`) | read counters; start a tool, read a line, parse it, get rid of the tool | the energy counter wraps around; overlapping scrapes share the last reading; a tool that hangs, ends early, ignores signals or may not be signalled; cores that switch on and off | power is the energy consumed, usage a percentage; no process is left behind; averages and counts agree |
| read-only views, validation, API-key middleware, front end, charts, scripts | none that others read | | | not modelled |

Components interact through the device table (handlers write, Syncer reads), the
HTTP calls between server and exporter (`/health`, `/reload`, `PUT /config/:id`),
and the Kubernetes API. The front end is a client of the HTTP API only. The chart
runs one server replica, so there is one Syncer.

## 2. The modules

### Registry and ConfigServer

`Registry` is the abstract specification: a table on which every request takes
effect at most once, atomically, between its arrival and its answer.
`ConfigServer` is the code. gin handles requests concurrently and the store opens
no transaction, so **one action is one SQL statement and the code up to the next
one**:

| TLA+ | code |
|---|---|
| `rows` | table `devices`: `ip_address`, and `conf` for all other columns |
| `pc`, `image`, `call`, `verdict` | of a handler: its next statement, the `DeviceConfig` it is building, its request, its answer |
| `Receive` | router and body checks; the early 400s |
| `PostExists`, `PostInsert` | `CreateConfig` -> `Exists`, `Create` (primary key) |
| `PutGet`, `UpsertExists`, `UpsertInsert` | `UpdateConfig` -> `Get`, `Upsert` = `Exists` and `Create` or `Update` |
| `PatchGet`, `UpdateGet`, `UpdateWrite` | `PatchConfig`, `PatchDevice` -> `Get`, then `Update` = `Get` + `UPDATE` of all columns |
| `DeleteRow`, `GetRow`, `Reload` | `DeleteConfig`, `GetConfig`, the `/reload` before the answer |
| `DbError` | any statement fails and the handler answers 500 (or goes on, as PUT's first read does: `PutGetFails`) |
| `Boot`, `SeedDevice`, `Serve`, `Stop` | `main`; `Stop` loses every request in progress, the table survives |

`ImplementsRegistry` is refinement: `phase` is read off `pc`, `effect` off
`verdict`. Devices share nothing, so the instances have one device.

### KubeSync

A worker is a goroutine that may run one job: the loop, or a handler. A step is
one query, one health check round or one Kubernetes request. The Syncer's Sync and
the handlers' SyncDevices share code in the model where the code is the same
(service, endpoints) and differ where it differs: counting failures, ignoring or
stopping on an error, the mutex. `Tick`, `TickerReset`, `Stop`, `LoopReturns` are
`select` branches of `Syncer.loop`; `Lock`, `Unlock` the mutex and the send on
`resetCh`. A Kubernetes request can also never be answered (`Hang`): `client.go` makes
the client without a timeout and every call is given `context.Background()`. The worker
is then `hung` until the process ends, and its request may or may not have been
executed (`Executed`). A request that *fails* although it was executed needs no case of its
own: it leads where a success does whose next request fails. `streak` and `verified` are history variables: consecutive failed
checks, and the addresses that answered a check for a name.

`QuietSync` states what one Sync is for. It extends `KubeSync` with a history
variable, `quiet`: the worker whose Sync nobody has disturbed since it read the
table. Others may run meanwhile, but not change the table, the cluster or which
exporters answer, and no call may fail or hang. `QuietSyncRepairs` says what such a Sync
leaves behind, whatever it found: each registered device shown under its address if
it is healthy and not at all once it has failed `graceLimit` checks, and no Service
of any other. `Converges` says that this happens in the end; this property says that
one Sync is enough, and leaves out nothing but the disturbances.

### ShellyServer

One asyncio loop, so a step is what happens between two awaits. A connection is
`up`, `cut` (lost, unknown to the server), `closed` (noticed), `ended`. `ident`
is the local `device_id` of `handle_connection`, `registry` the
`connections` dict, `pending` the keys of `pending_requests`. Messages on one
connection are a set: their order carries no information the code uses.

A response is a `Reply`, and `Result` says what is in it: an error, or a value for
each field the extraction looks for, `Bad` where the conversion raises.
`Extracted` is `_extract_metrics_from_rpc_result` (fields in the order of the code;
the first that raises ends it), `Collected` what `ShellyCollector.get_metrics`
makes of the server's answer. The collector's own timeout of two seconds is the
scrape that nobody waits for any more; the server goes on with it.

### Exporter

One exporter with its row in the server. **A step is a critical section of
`config_lock` or the code between two of them.** Because configurations are
Python dicts which threads keep references to, they live in a small heap: `type`
and `ref` of a config, `dict` for its metrics; `cur`, `new`, `held[s]`,
`carries[t]` are references. A dict not reachable from these is free again.

| TLA+ | code |
|---|---|
| `main` | where the main thread is: `fetch`, `fallback` (steps of `load`), `waiting`, `init`, `idle` (reload loop), `apply`, `swap`, `save`, `clear` |
| `Fetch`, `Fallback`, `Poll` | `ConfigLoader.load`, waiting mode; `Fallback` also covers the `None` that makes `apply_new_config` raise in a reload |
| `StubStart` | stub mode: a configuration of its own, no loader, so that a later reload is an exception |
| `Start`, `StartFails`, `Kill` | collectors and servers come up; unknown type, or the management port is bound already (after waiting mode): the process exits and is restarted; killed |
| `Reload`, `Apply`, `Swap`, `Save`, `ClearFlag` | one turn of the reload loop through `apply_new_config` |
| `Snapshot`, `Collect`, `Register` | `OnDemandCollector.collect`, which holds the metrics dict from the first to the last |
| `EnableMetrics`, `ReloadArrives` | `POST /metrics/enable`, `POST /reload` |
| `SendPut`, `PutArrives` | `_sync_worker`: the body is serialised when the thread runs; the server's `UpdateConfig` keeps the address and calls `/reload` if there is one |
| `Edit`, `Remove`, `AskReload` | the operator at the config server |

`device_type` and the shelly section are one value, `Type`, as they decide
together whether collectors are rebuilt. Handlers of the server are atomic here;
`ConfigServer` is about them. Saving the file is atomic too; `LocalFile` is about
that. `health` is what `GET /health` makes of the last collection.

### LocalFile

`save_to_local`, one action per system call: open (which truncates the `.tmp` that
is there), write, close, rename, unlink. A file is an inode with pieces, each
written by one configuration, so that a descriptor that is open on the `.tmp` goes
on writing into it when another thread has renamed it to `config.yaml`. `Locked` are
the savers that hold `config_lock`: scrapes and the management API do
(exporter.py:88, 227), the reload loop does not (exporter.py:545-550).
`Kill` ends the process between any two calls and leaves the files; the machine
goes on, so what an fsync would be needed for is out of the model.

`AtomicFile` is the save its callers have in mind: between the call and the answer
the file is replaced, as a whole and in one step, or it is not. `LocalFile` implements
it (`ImplementsAtomicFile`: `file` is what a reader of `config.yaml` gets, a save takes
effect with its rename); module `Exporter`, whose saves are atomic, relies on that.

### EdgeServer

The collector that keeps state from one scrape to the next. Scrapes run in threads
of the metrics server and share `_prev_rapl` and `_prev_cpu_times`: a step is one
read of a counter (`ReadEnergy`, `ReadStat`), one calculation with the last reading
(`CollectPower`, `CollectUsage`), or one store (`StoreEnergy`, `StoreStat`). The
machine consumes energy, uses CPU time and lets the clock tick at any point between
them. `spent` is what was really consumed, against which `power` is judged.
Domains and CPUs share nothing, so there is one of each. The kernel's idle time is
taken never to go back. `range` is fixed by `_discover_rapl_domains` before the first
scrape; it is 0 when `max_energy_range_uj` cannot be read, and a wrap-around then
costs the whole round.

### Jetson

One scrape is one tegrastats process: `StartTool` (`Popen`, which also reaps what
abandoned processes have ended), `ReadLine` (blocks), `ClosePipes`, `Terminate`,
`Wait`, `WaitExpires`, `Reap`, in the order of the `finally` block. A process is
`running`, a `zombie` until somebody waits for it, or gone. Without root,
tegrastats runs under sudo, terminating it is a PermissionError, and the process is
left alone with a closed pipe. The parsers of the four boards are operators on the
fields of a line, from the parts they share (`Rails`, `Temperatures`, `Memory`,
`Cores`, ...); `Absent` stands for a regular expression that does not match, and a
board's parser reads only the forms its regular expressions know.

### Collectors

`get_collector`: the device type decides which of the two kinds of collector there
is, and which board's parser. The composition of `EdgeServer` and `Jetson`.

## 3. What the runs show

Passing runs:

| run | properties | what it shows |
|---|---|---|
| `ConfigServer` | `TypeOK`, `AddressesVetted`, `CreatorsPaidFor`, `ImplementsRegistry` | three overlapping requests of every kind, failing statements, the seed, a restart |
| `KubeSync` (module `MCQuietSync`) | `TypeOK`, `PublishedWasHealthy`, `GraceRespected`, `SyncsSerialized`, `QuietSyncRepairs` | the loop and a handler with three events (edits, devices up and down, manual jobs, restart) and a call that fails or hangs; a Sync they leave alone repairs the cluster |
| `KubeSyncLive` | `SyncReturns`, `StopTerminates`, `Converges` | Syncs end, shutdown ends, the cluster comes to agree with the table, unless the Sync that holds the mutex hangs in a Kubernetes request (`Stuck`); handlers that hang outside the mutex stop none of this |
| `ShellyServer` | `TypeOK`, `RegistryNamesHandlers`, `OwnReading`, `NoLeakedFuture`, `ScrapeReturns`, `DeadIsForgotten` | two plugs (or one that reconnects) and two overlapping scrapes |
| `Exporter` | `TypeOK`, `CollectorsMatch`, `FileStarts`, `SettlesDown` | reloads, scrapes, PUTs, a request or a kill, and a failing call |
| `Collectors` | `TypeOK`, `PowerHonest`, `UsageIsPercent`, `JetsonTypeOK`, `NoProcessLeft`, `AbandonedEnds`, `CoresAgree` | two overlapping scrapes of one device of each type. What is divided is what was consumed, less one unit at a wrap-around, because `max_energy_range_uj` is the last value and not the number of values; usage is a percentage whatever order readings are stored in. As root no tegrastats survives its scrape; otherwise it has lost its reader. The cores reported, their number and their average fit each other |
| `LocalFile` | `TypeOK`, `FileWhole`, `SaveAllOrNothing`, `ImplementsAtomicFile` | two savers that take the lock, two failing calls and two kills anywhere: the file is one configuration, whole, and the answer of a save is true; the system calls implement one atomic step |

Runs that end in a counterexample, each to a sentence of the repository:

| run | sentence | what happens |
|---|---|---|
| `ConfigServerPatchRace` | server/API.md:274 "Only provided fields are changed" | PATCH writes back the whole row it read; a request that commits in between is undone. Clients that take turns are safe: `PatchIsPartialInTurns` |
| `ShellyReconnect` | exporter/API.md:772 "List all connected devices" | the end of a plug's old connection unregisters its new one, for as long as that lasts |
| `ExporterLostReload` | server/API.md:172 "the configuration is applied immediately" | `reload_flag` is cleared after the apply, and with it a reload that arrived since the fetch |
| `ExporterLostEnable` | exporter/API.md:299-301 | a metric enabled while a reload is between its fetch and its swap: the swap discards it, from memory and from the file |
| `LocalFileRace` | config_loader.py:155 "using atomic write" | the reload loop saves without the lock while a scrape saves with it: one renames the `.tmp` the other has just truncated or is writing |

Other disagreements noticed while reading, without a run: PUT, like PATCH, can undo
a change of the address that commits between its read and its upsert, against
server/API.md:148 "keeps existing IP if omitted" (`PutKeepsAddressInTurns`: not
when clients take turns and nothing fails); the Syncer lists devices before
Services, so its sweep (syncer.go:155, "services for devices that no longer exist
in the store") can remove the Service of a device registered and synced in between,
which the next Sync restores (`Converges`); Stop "waits for it to finish"
(syncer.go:46) without a timeout, after main has given the HTTP server ten seconds
(main.go:113-127): if a Kubernetes request hangs under the mutex the process does not
end by itself (why `StopTerminates` excepts `Stuck`); server/API.md:937 says
that POST /kubernetes/sync "Deletes resources for devices that are unhealthy", but
with the Syncer the Service stays and the Endpoints go with the third failure only
(`GraceRespected`); overlapping scrapes that store RAPL readings out of order make
`edge_server.py` report up to a whole range of energy too much (why `PowerHonest`
speaks of readings in order); a timed-out RPC is
answered 500 by `shelly_server.py`, 504 in exporter/API.md:767; new metrics are
registered as enabled (exporter.py:96), as disabled in exporter/API.md:558.

## 4. Bounds

Every counter the code leaves open is bounded by a constant: `MaxInFlight`,
`MaxBoots` (ConfigServer), `MaxEvents`, `MaxFaults` (KubeSync, Exporter),
`MaxObjects` (Exporter), `MaxFaults`, `MaxKills` (LocalFile), the sets `Request`,
`Handlers`, `Conn`, `Scrape`, `Sync`, `Saver`, `Inode`, `Thread`, `Pid`.

* ConfigServer: two requests are enough for a lost update, three let a DELETE and
  a new POST fall into one handler's gap; one restart separates a commit from its
  answer.
* KubeSync: one device, because the code treats devices in a loop without shared
  state but the mutex; grace limit 3 as in the code for safety, 2 in the liveness
  run; three events let a device be published, changed and withdrawn while a
  handler interferes. `MaxFaults` counts calls that fail or hang: hung workers do
  nothing more, so what one of them leaves behind is seen with one. The liveness run
  has two events, or one event and one such call (`LiveNext`): two are what it takes
  to register a device and sync it alone between the two lists of a Sync. Handlers of the same kind interfere with the loop alike, so
  one worker beside it covers every pair.
* ShellyServer: two connections are the least for a reconnect, two plugs or two
  scrapes the least for a mixed-up answer.
* Exporter: two PUTs are the least that can overtake each other; one event and one
  fault on top of arbitrary initial row, file and environment; the two
  counterexamples need two events. Four dicts leave room for the current and the
  new configuration, a PUT's and a scrape's; when they are all in use a step waits
  for a PUT to be serialised, which always happens.
* EdgeServer: `MaxEnergy`, `MaxClock`, `MaxJiffies` stop the machine. Three units on
  a counter with three values go once round from every start; three instants and
  three CPU times are enough for a reading before, between and after another's.
* Jetson: two threads share nothing but the process table, and two are the least
  that could take each other's process; the third process is one that was left
  behind. One line per board, with cores that are off or unreadable, and two odd
  lines (all cores off, no RAM).
* LocalFile: a configuration of one piece and one of two are the least that can be
  mixed, or a long one cut short; two savers the least that can race. Two kills let
  a second one strike while the `.tmp` of the first is in the way.

Symmetry is declared for sets of interchangeable values and only in runs without
temporal formulas other than step properties. `View` hides values no later step
reads: locals of idle workers, unreachable dicts, history variables in runs whose
properties do not mention them.

`CHECK_DEADLOCK FALSE` is set except for LocalFile, whose savers can always go on:
with bounded requests every other instance comes to rest, which is no fault.

## 5. Fairness

* KubeSync: a worker's next step happens, for what makes it wait ends: a health check
  after 2 s (health.go:43), GET /devices after 10 s (sync.go:155, 471), a query of the
  embedded database, and a Kubernetes request that is answered. Nothing in the
  repository bounds the last; a request that is not answered is the action `Hang`,
  for which there is no fairness, and what it costs is a premise of the properties:
  `Stuck` in `SyncReturns` and `StopTerminates`, its absence in the end in `Converges`. Go's
  mutex lets a waiter in (strong fairness of `Lock`), the ticker fires, and a
  `select` that finds `stopCh` ready again and again chooses it (strong fairness
  of `LoopReturns`; Go chooses uniformly). That the loop ever empties `resetCh` is not
  needed: the send on it never waits.
* ShellyServer: the event loop runs what is ready and its timers fire (ping
  timeout, five seconds for an RPC). Nothing is assumed of plugs, network, clients.
* Exporter: threads run, and calls to the server are answered or time out
  (`CONFIG_TIMEOUT`). Nothing is assumed of scrapes, which a silent tool may hold for
  ever, of operators, or of kills.

No fairness is assumed for anything in ConfigServer: its properties are safety.

## 6. Proofs

All are for arbitrary sets of devices, requests, workers, threads and addresses and
any bounds, from the named ASSUMEs of the modules (`ServerConstants`,
`SyncConstants`, `EdgeServerConstants`, `JetsonConstants`, `LocalFileConstants`,
`ShellyConstants`, `ExporterConstants`).

`ConfigServer_proofs`
* `TypeCorrect`, `AddressesAreVetted`. The invariant `IInv` strengthens the two by
  what is known of each open request (`RequestInv`): its device, and that the row
  it is building holds a vetted address *at the statements that may write it*.
  Without that the copy a PUT makes of an older address could be anything.
* `CreatorsArePaidFor`. Inductive with `IInv`; the lemmas `WithSame`, `WithAdd` say
  how one request's verdict changes the set that is counted.
* `HandlersImplementRegistry`. `NextRefines`: every statement is a step of
  `Registry` or a stutter, by the kind of step a handler makes (`HandlerKinds`:
  it moves on, answers without effect, creates, updates or deletes).
* `PatchIsPartialInTurns`, `PutKeepsAddressInTurns`: with `MaxInFlight` at most 1
  what the documents promise of PATCH and PUT holds. The invariant says that the
  image a lone request holds is the row with what the request was given laid over
  it; so the race of `ConfigServerPatchRace` is the only reason it can fail.

`KubeSync_proofs`
* `TypeCorrect`; `MutualExclusion`; `OnlyHealthyPublished`; `GraceIsRespected`.
  `IInv` adds to them: `Checked` (the snapshot of a worker that is about to write
  Endpoints holds a verified address for its current device), `JobsOK` (which
  labels a job can be at) and `CountsHonest` (`fails[d] <= streak[d]`: the Syncer
  never counts more failures than there were; it may count fewer, after a sweep or
  a restart).

`QuietSync_proofs`
* `QuietSyncAlwaysRepairs`, from `[]NamesDistinct`: no two registered ids differ in
  case only, which the API ensures by accepting lower case and a seed may violate;
  two such devices share one Service, and no Sync can show both. `QuietInv` follows
  the Sync: its snapshot is the table; the devices it is done with are shown
  (`Progress`); each Service is that of a registered device or about to be removed;
  and what it read of the object in hand still holds when it writes (`Expects`).
  `OthersKeep` says that nobody else moves it or its failure counts, for which mutual
  exclusion is needed; `OwnStep` goes through its steps.

`EdgeServer_proofs`
* `TypeCorrect`, `PowerIsHonest`, `UsageIsAlwaysPercent`, for any counter range. The
  two properties speak of results; what makes them inductive is a relation between
  all readings somebody may still use (`Readings`, `Snapshots`: the stored one and
  those in the hands of a scrape). `EnergyInv`: two readings less than one round
  apart differ by what was consumed, or by that less one round. `StatInv`: of two
  CPU readings one is earlier in both numbers.

`Jetson_proofs`
* `TypeCorrect`, `NothingIsLeft`, `AbandonedHaveNoReader`. `ScrapeInv` says for each
  step of `get_metrics` what state its process and pipe are in, `Own` that no two
  threads have the same process: a process that is free again may be started anew
  by another thread, and only `Own` keeps the first from ending that one.
* `CoresAlwaysAgree`: the average a parser exports lies between the usages of the
  cores that are on, and the cores, their states and their number fit each other, for
  any number of cores. `Usage` is the loop of the code, a recursive function over
  positions, so the bound on the sum is an induction. The induction theorems of the
  library cannot be used; `Induction` is proved from the least counterexample
  (`Least`, by well-foundedness of `<`), and `TotalsExist` that the recursion defines
  a function at all.

`LocalFile_proofs`
* `TypeCorrect` for all savers; `AtomicUnderLock` and `AllOrNothingUnderLock` from
  `Locked = Saver`. `SavesAlone` adds that a saver that runs holds the lock, what is
  in its `.tmp` at each step, and that the two names never denote the same file. The
  hypothesis is what the code lacks (`LocalFileRace`); everything else about saving
  is right for any number of writes, failures and kills.
* `SaveImplementsAtomicFile`, from the same hypothesis and invariant: every system call
  is a stutter of `AtomicFile` or the one step that takes effect, fails or answers.

`ShellyServer_proofs`
* `TypeCorrect`, `RegistryIsLive`, `ReadingsAreOwn`, `NoFutureLeaks`. `RouteInv`: a
  request or response that travels on a connection was put there by a scrape of the
  plug that owns it; `ConnInv`: a connection identifies itself as its owner only;
  `ReadingInv`: what a scrape was handed is its own.
* `ConnectedIsListedIfPatient`: `ConnectedIsListed`, which `ShellyReconnect` refutes,
  holds if a plug connects only when `handle_connection` has returned for all its
  earlier connections. An early reconnect is thus the only way off the list.

`Exporter_proofs`
* `TypeCorrect`, `CollectorsAreCurrent`, `FileAlwaysStarts`, through `Inductive`.
  `LoadInv` says what there is for each place of the main thread; `CollectorInv`
  that between the two assignments of `apply_new_config` the collectors are those
  of the new configuration, before and after those of the current one, and that the
  current one always has some; `HeapInv` and `FreshIsFree` that a new dict is nobody
  else's. `FileStarts` follows because nothing but the current configuration is ever
  saved. It needs a `DEVICE_TYPE`: without one the management API is up in waiting
  mode, and the last conjunct of `LoadInv` shows that this is the only gap.
* `ReloadsHonouredOutsideReloads`: `ReloadIsHonoured`, which `ExporterLostReload`
  refutes, holds of every `/reload` that is not answered while the loop is `Deaf`:
  between the server's answer to it and the clearing of `reload_flag`.
* `EnableSticksInTurns`: `EnableSticks`, which `ExporterLostEnable` refutes, holds if
  (1) no request falls between the fetch and the swap of a reload, (2) none falls into
  a scrape, (3) none is handled while a PUT is on its way, and (4) no load asks the
  server while one is. `PromiseInv`: every dict a thread may still put somewhere, every
  PUT under way and, when there is none, the server's row hold the acknowledged value.
  Each of the four is needed: without it TLC finds the request lost with two scrapes
  and three PUTs. (2) is a loss no test is likely to meet: two scrapes of a
  configuration without metrics each start a dict of their own, and the later one
  replaces the dict in which the request disabled a metric (exporter.py:97). As in
  `EnableSticks`, no call fails, and an edit at the server or a kill ends the promise.

These "in turns" theorems are about the specification with one more conjunct in its
steps. The conjunct is what the code does not ensure; the theorem shows that nothing
else is wrong, and hence what a repair has to ensure.

Only model-checked: all liveness (out of the prover's reach: `SyncReturns`,
`StopTerminates`, `Converges`, `ScrapeReturns`, `DeadIsForgotten`, `SettlesDown`).
Every safety property of a passing run is also a theorem.

## 7. What is not modelled, and the plan

Not modelled: validation of ids (a regular expression: `Device` is the set it
accepts), the API-key middleware (no route uses it), read-only routes, front end,
charts and scripts: they keep no state the other parts read. Of the collectors:
temperatures, memory and frequencies of `edge_server.py` (one read each), the stub's
synthetic values, and the boards whose collectors only raise `NotImplementedError`.
In `ConfigServer` POST and DELETE answer in the step that commits, so that the process
dies between commit and answer only in PUT and PATCH, which call `/reload` in between.
`Exporter` saves in one step; what the reload loop's save outside `config_lock` can do
to the file is in `LocalFile` only; `FileStarts` speaks of files that are whole.
In the exporter, a PUT that is on its way when the process ends may still arrive or
be lost by a fault, but is not tracked further. `readline` on tegrastats has no
timeout, so a process that never prints holds its scrape for ever: no property says
that a Jetson scrape returns, because it need not. Hazards without a property have a
note in `PROJECT.json`.

| step | module | what |
|---|---|---|
| done | `Registry`, `ConfigServer`, `ConfigServer_proofs` | device table |
| done | `KubeSync`, `KubeSync_proofs` | reconciliation |
| done | `QuietSync`, `QuietSync_proofs` | what one undisturbed Sync comes to |
| done | `ShellyServer`, `ShellyServer_proofs` | plugs, their readings |
| done | `Exporter`, `Exporter_proofs` | exporter and its loop with the server |
| done | `AtomicFile`, `LocalFile`, `LocalFile_proofs` | saving `config.yaml` by system calls |
| done | `EdgeServer`, `EdgeServer_proofs` | power and CPU usage from counters |
| done | `Jetson`, `Jetson_proofs`, `Collectors` | tegrastats and its parsers; which collector there is |
| open | `Converges` | `QuietSyncAlwaysRepairs` is its safety half; the other, that a quiet Sync takes place, needs fairness and stays with TLC |
