------------------------------ MODULE Exporter ------------------------------
(***************************************************************************)
(* The exporter of one device (exporter/exporter.py, config_loader.py) and *)
(* what it shares with the config server: its row in the device table, the *)
(* /reload calls the server makes and the PUTs the exporter sends.         *)
(*                                                                         *)
(* Four kinds of threads run over the same globals: the main thread with   *)
(* its reload loop, the management API (one request at a time), scrapes of *)
(* /metrics, and background threads that PUT the configuration.  A step is *)
(* a critical section of config_lock or the code between two of them.      *)
(*                                                                         *)
(* A configuration keeps its device_type (with the shelly section, as they *)
(* decide together which collectors exist) and its metrics.  It is a       *)
(* Python dict that holds another one, and threads keep references to      *)
(* either while others change them or replace the globals, so both live in *)
(* a small heap.  The server's handlers are atomic here: module            *)
(* ConfigServer is about them.  A save to the local file is atomic too.    *)
(***************************************************************************)
EXTENDS Naturals, FiniteSets

CONSTANTS
  Type,        \* device types
  Supported,   \* those initialize_collectors succeeds for
  Metric,      \* metric names
  Offers,      \* [Type -> SUBSET Metric]: what the collectors of a type find
  EnvTypes,    \* values of DEVICE_TYPE; None if it is not set; or StubMode
  Stub,        \* the device type of stub mode
  Files,       \* local config files an installation may start with, or None
  Edits,       \* configurations the operator may store in the server
  Scrape,      \* bound: scrapes at the same time
  Sync,        \* bound: ConfigSyncThreads at the same time
  MaxObjects,  \* bound: dicts in use at the same time
  MaxEvents,   \* bound: requests of operators, and kills
  MaxFaults,   \* bound: failing calls and saves
  StubMode,    \* STUB_MODE is set, and DEVICE_TYPE does not matter
  None

Metrics == [Metric -> {"on", "off", "unset"}]
Config == [type : Type, metrics : Metrics]
NoMetrics == [m \in Metric |-> "unset"]
Obj == 1..MaxObjects

ASSUME ExporterConstants ==
  /\ Supported \subseteq Type
  /\ Offers \in [Type -> SUBSET Metric]
  /\ EnvTypes \subseteq Supported \cup {None, StubMode}
  /\ Stub \in Supported
  /\ StubMode \notin Type \cup {None}
  /\ Files \subseteq Config \cup {None}
  /\ \A f \in Files : f # None => f.type \in Supported
  /\ Edits \subseteq Config
  /\ None \notin Type \cup Config \cup Obj \cup [conf : Config, ip : BOOLEAN]
  /\ MaxObjects \in Nat /\ MaxEvents \in Nat /\ MaxFaults \in Nat

VARIABLES
  row,         \* the device's row: [conf, ip], ip if it has an address; or None
  reloads,     \* POST /reload calls of the server on their way
  file,        \* the local config file: Config or None
  env,         \* DEVICE_TYPE, or StubMode
  main,        \* where the main thread is
  api,         \* the management API is up
  flag,        \* reload_flag
  cur,         \* current_config: Obj or None
  new,         \* new_config of the reload loop: Obj or None
  collectors,  \* current_collectors: the Type they were built for, or None
  type, ref,   \* heap: device_type of a config, and its metrics dict
  dict,        \* heap: [Obj -> Metrics]
  at, held,    \* of a scrape: "idle", "collect" or "register"; its metrics dict
  found,       \* of a scrape: all_metrics
  health,      \* what last_collection_time and last_collection_error make of
               \* the status GET /health reports
  carries,     \* of a ConfigSyncThread: the config it was given, or None
  sends,       \* of a ConfigSyncThread: the body of its PUT, or None
  events, faults,
  owed,        \* history: a /reload was answered since the last load began
  promised     \* history: what POST /metrics/enable last acknowledged

heap == <<type, ref, dict>>
threads == <<carries, sends>>
scrapes == <<at, held, found, health>>
server == <<row, reloads>>
history == <<owed, promised>>
vars == <<server, file, env, main, api, flag, cur, new, collectors, heap, scrapes,
          threads, events, faults, history>>

Event == events < MaxEvents /\ events' = events + 1
Fault == faults < MaxFaults /\ faults' = faults + 1

Content(o) == [type |-> type[o], metrics |-> dict[ref[o]]]

-----------------------------------------------------------------------------
(* The heap: a dict is in use while a global, a thread or a scrape can     *)
(* reach it.                                                               *)
Roots == ({cur, new} \cup {carries[t] : t \in Sync}) \ {None}
InUse == Roots \cup {ref[o] : o \in Roots} \cup ({held[s] : s \in Scrape} \ {None})
Fresh == CHOOSE o \in Obj : o \notin InUse

Allocate(c) ==
  /\ Obj \ InUse # {}
  /\ type' = [type EXCEPT ![Fresh] = c.type]
  /\ ref' = [ref EXCEPT ![Fresh] = Fresh]
  /\ dict' = [dict EXCEPT ![Fresh] = c.metrics]

(* sync_to_server: a new thread gets a reference to the configuration.     *)
Spawn(o) ==
  /\ \E t \in Sync :
       /\ carries[t] = None /\ sends[t] = None
       /\ carries' = [carries EXCEPT ![t] = o]
  /\ UNCHANGED sends

-----------------------------------------------------------------------------
(* The main thread: load, start, reload                                    *)

(* load() returns c, at start to current_config, later to the reload loop. *)
Loaded(c) ==
  /\ Allocate(c)
  /\ IF cur = None THEN cur' = Fresh /\ main' = "init" /\ UNCHANGED new
     ELSE new' = Fresh /\ main' = "apply" /\ UNCHANGED cur

FetchAndSync ==  \* variant: a configuration from the server is synced as well
  /\ main = "fetch" /\ env # StubMode
  /\ owed' = FALSE
  /\ \/ row # None /\ Loaded(row.conf) /\ Spawn(Fresh) /\ UNCHANGED faults
     \/ /\ \/ row = None /\ UNCHANGED faults
           \/ row # None /\ Fault
        /\ main' = "fallback"
        /\ UNCHANGED <<cur, new, heap, threads>>
  /\ UNCHANGED <<server, file, env, api, flag, collectors, scrapes, events, promised>>

(* Step 1 of load: the server's answer, or 404, or no answer in six tries. *)
Fetch ==
  /\ main = "fetch" /\ env # StubMode
  /\ owed' = FALSE
  /\ \/ row # None /\ Loaded(row.conf) /\ UNCHANGED faults
     \/ /\ \/ row = None /\ UNCHANGED faults
           \/ row # None /\ Fault
        /\ main' = "fallback"
        /\ UNCHANGED <<cur, new, heap>>
  /\ UNCHANGED <<server, file, env, api, flag, collectors, scrapes, threads, events,
                 promised>>

(* Steps 2 to 4: the local file, else a default from the environment, both *)
(* pushed to the server; else None, on which the start waits and a reload  *)
(* gives up.                                                               *)
Local ==
  IF file # None THEN file
  ELSE IF env # None THEN [type |-> env, metrics |-> NoMetrics] ELSE None

Fallback ==
  /\ main = "fallback"
  /\ \/ Local # None /\ Loaded(Local) /\ Spawn(Fresh) /\ UNCHANGED api
     \/ /\ Local = None
        /\ main' = IF cur = None THEN "waiting" ELSE "clear"
        /\ api' = TRUE
        /\ UNCHANGED <<cur, new, heap, threads>>
  /\ UNCHANGED <<server, file, env, flag, collectors, scrapes, events, faults, history>>

(* Stub mode has no config loader: a configuration with all metrics on.    *)
StubStart ==
  /\ main = "fetch" /\ env = StubMode
  /\ Allocate([type |-> Stub,
               metrics |-> [m \in Metric |-> IF m \in Offers[Stub] THEN "on" ELSE "unset"]])
  /\ cur' = Fresh
  /\ main' = "init"
  /\ UNCHANGED <<server, file, env, api, flag, new, collectors, scrapes, threads, events,
                 faults, history>>

Poll ==
  /\ main = "waiting"
  /\ main' = "fetch"
  /\ UNCHANGED <<server, file, env, api, flag, cur, new, collectors, heap, scrapes,
                 threads, events, faults, history>>

(* Collectors, metrics server and management API come up.                  *)
Start ==
  /\ main = "init"
  /\ type[cur] \in Supported
  /\ collectors' = type[cur]
  /\ api' = TRUE
  /\ main' = "idle"
  /\ UNCHANGED <<server, file, env, flag, cur, new, heap, scrapes, threads, events,
                 faults, history>>

(* The process ends with all it had in memory, its background threads too, *)
(* and its container is started again.  A PUT on its way may still arrive. *)
ProcessEnds ==
  /\ main' = "fetch"
  /\ api' = FALSE
  /\ flag' = FALSE
  /\ cur' = None /\ new' = None /\ collectors' = None
  /\ at' = [s \in Scrape |-> "idle"]
  /\ held' = [s \in Scrape |-> None]
  /\ found' = [s \in Scrape |-> {}]
  /\ health' = "starting"
  /\ carries' = [t \in Sync |-> None]
  /\ owed' = FALSE
  /\ promised' = NoMetrics
  /\ UNCHANGED <<server, file, env, heap, sends, faults>>

(* No collector for this type; or waiting mode has bound the management    *)
(* port already, unless the configuration names another one.               *)
StartFails ==
  /\ main = "init"
  /\ type[cur] \notin Supported \/ api
  /\ ProcessEnds
  /\ UNCHANGED events

Kill ==
  /\ Event
  /\ ProcessEnds

(* One turn of the reload loop that finds reload_flag set; in stub mode    *)
(* there is nothing to load from, which is an exception.                   *)
Reload ==
  /\ main = "idle"
  /\ flag
  /\ main' = IF env = StubMode THEN "clear" ELSE "fetch"
  /\ UNCHANGED <<server, file, env, api, flag, cur, new, collectors, heap, scrapes,
                 threads, events, faults, history>>

(* apply_new_config.  First the collectors, if their type changes.         *)
ApplyAnyway ==  \* variant: goes on with the old collectors when that fails
  /\ main = "apply"
  /\ main' = "swap"
  /\ collectors' = IF type[new] \in Supported THEN type[new] ELSE collectors
  /\ UNCHANGED <<server, file, env, api, flag, cur, new, heap, scrapes, threads, events,
                 faults, history>>

ApplyUnchecked ==  \* variant: nothing tells that there is no collector
  /\ main = "apply"
  /\ main' = "swap"
  /\ collectors' = type[new]
  /\ UNCHANGED <<server, file, env, api, flag, cur, new, heap, scrapes, threads, events,
                 faults, history>>

Apply ==
  /\ main = "apply"
  /\ IF type[cur] = type[new] THEN main' = "swap" /\ UNCHANGED <<collectors, new>>
     ELSE IF type[new] \in Supported
     THEN main' = "swap" /\ collectors' = type[new] /\ UNCHANGED new
     ELSE main' = "clear" /\ new' = None /\ UNCHANGED collectors
  /\ UNCHANGED <<server, file, env, api, flag, cur, heap, scrapes, threads, events,
                 faults, history>>

(* Then, under the lock, the configuration; then, without it, the file.    *)
Swap ==
  /\ main = "swap"
  /\ cur' = new
  /\ main' = "save"
  /\ UNCHANGED <<server, file, env, api, flag, new, collectors, heap, scrapes, threads,
                 events, faults, history>>

Save ==
  /\ main = "save"
  /\ \/ file' = Content(new) /\ UNCHANGED faults
     \/ Fault /\ UNCHANGED file
  /\ new' = None
  /\ main' = "clear"
  /\ UNCHANGED <<server, env, api, flag, cur, collectors, heap, scrapes, threads,
                 events, history>>

ClearFlag ==
  /\ main = "clear"
  /\ flag' = FALSE
  /\ main' = "idle"
  /\ UNCHANGED <<server, file, env, api, cur, new, collectors, heap, scrapes, threads,
                 events, faults, history>>

-----------------------------------------------------------------------------
(* OnDemandCollector.collect                                               *)

(* The metrics dict of the current configuration, or a new empty one.      *)
Snapshot(s) ==
  /\ at[s] = "idle"
  /\ collectors # None
  /\ IF dict[ref[cur]] = NoMetrics
     THEN Allocate([type |-> type[cur], metrics |-> NoMetrics])
          /\ held' = [held EXCEPT ![s] = Fresh]
     ELSE held' = [held EXCEPT ![s] = ref[cur]] /\ UNCHANGED heap
  /\ at' = [at EXCEPT ![s] = "collect"]
  /\ UNCHANGED <<server, file, env, main, api, flag, cur, new, collectors, found, health,
                 threads, events, faults, history>>

Finish(s) ==
  /\ at' = [at EXCEPT ![s] = "idle"]
  /\ held' = [held EXCEPT ![s] = None]
  /\ found' = [found EXCEPT ![s] = {}]

(* A collector may fail, or find only some of its metrics.                 *)
Collect(s) ==
  /\ at[s] = "collect"
  /\ \E ms \in SUBSET Offers[collectors] :
       IF ms = {} THEN Finish(s) /\ health' = "degraded"
       ELSE /\ health' = "healthy"
            /\ found' = [found EXCEPT ![s] = ms]
            /\ at' = [at EXCEPT ![s] = "register"]
            /\ UNCHANGED held
  /\ UNCHANGED <<server, file, env, main, api, flag, cur, new, collectors, heap, threads,
                 events, faults, history>>

(* New metrics are enabled in the dict taken at the start, which becomes   *)
(* the one of the configuration that is current now; then save and sync.   *)
(* (In stub mode nothing is ever new.)  What is exposed is read off the    *)
(* same dict and changes nothing.                                          *)
Register(s) ==
  LET fresh == {m \in found[s] : dict[held[s]][m] = "unset"} IN
  /\ at[s] = "register"
  /\ UNCHANGED <<server, env, main, api, flag, cur, new, collectors, health, events,
                 history>>
  /\ IF fresh = {} THEN UNCHANGED <<file, heap, threads, faults>>
     ELSE /\ dict' = [dict EXCEPT ![held[s]] =
                        [m \in Metric |-> IF m \in fresh THEN "on" ELSE @[m]]]
          /\ ref' = [ref EXCEPT ![cur] = held[s]]
          /\ UNCHANGED type
          /\ \/ file' = Content(cur)' /\ Spawn(cur) /\ UNCHANGED faults
             \/ Fault /\ UNCHANGED <<file, threads>>
  /\ Finish(s)

-----------------------------------------------------------------------------
(* The management API                                                      *)

(* POST /metrics/enable changes the entries it knows as it goes; a value   *)
(* of the wrong type ends it there, an unknown name after the last one.    *)
(* It has a config loader of its own, in stub mode too.                    *)
EnableMetrics(ms, v, malformed) ==
  LET d == ref[cur]
      known == {m \in ms : dict[d][m] # "unset"}
      rejected == malformed \/ known # ms
  IN
  /\ Event
  /\ api /\ cur # None
  /\ UNCHANGED <<server, env, main, api, flag, cur, new, collectors, type, ref, scrapes,
                 owed>>
  /\ dict' = [dict EXCEPT ![d] = [m \in Metric |-> IF m \in known THEN v ELSE @[m]]]
  /\ \/ /\ rejected
        /\ promised' = [m \in Metric |-> IF m \in ms THEN "unset" ELSE promised[m]]
        /\ UNCHANGED <<file, threads, faults>>
     \/ /\ ~rejected
        /\ file' = Content(cur)'
        /\ Spawn(cur)
        /\ promised' = [m \in Metric |-> IF m \in ms THEN v ELSE promised[m]]
        /\ UNCHANGED faults
     \/ /\ ~rejected /\ Fault
        /\ promised' = [m \in Metric |-> IF m \in ms THEN "unset" ELSE promised[m]]
        /\ UNCHANGED <<file, threads>>

(* POST /reload.                                                           *)
ReloadArrives ==
  /\ reloads > 0
  /\ reloads' = reloads - 1
  /\ \/ flag' = api /\ owed' = api /\ UNCHANGED faults
     \/ Fault /\ UNCHANGED <<flag, owed>>
  /\ UNCHANGED <<row, file, env, main, api, cur, new, collectors, heap, scrapes, threads,
                 events, promised>>

-----------------------------------------------------------------------------
(* _sync_worker: the body is what the dicts hold when the thread runs.     *)
SendPut(t) ==
  /\ carries[t] # None
  /\ sends' = [sends EXCEPT ![t] = Content(carries[t])]
  /\ carries' = [carries EXCEPT ![t] = None]
  /\ UNCHANGED <<server, file, env, main, api, flag, cur, new, collectors, heap, scrapes,
                 events, faults, history>>

(* UpdateConfig on the server keeps the address and calls /reload if there *)
(* is one.                                                                 *)
PutArrives(t) ==
  LET ip == row # None /\ row.ip IN
  /\ sends[t] # None
  /\ sends' = [sends EXCEPT ![t] = None]
  /\ \/ /\ row' = [conf |-> sends[t], ip |-> ip]
        /\ reloads' = reloads + (IF ip THEN 1 ELSE 0)
        /\ UNCHANGED faults
     \/ Fault /\ UNCHANGED server
  /\ UNCHANGED <<file, env, main, api, flag, cur, new, collectors, heap, scrapes,
                 carries, events, history>>

(* The operator stores a configuration with an address, by a route that    *)
(* calls /reload or by one that does not; deletes the device; or asks for  *)
(* a reload.                                                               *)
Edit(c, calls) ==
  /\ Event
  /\ row' = [conf |-> c, ip |-> TRUE]
  /\ reloads' = reloads + calls
  /\ promised' = NoMetrics
  /\ UNCHANGED <<file, env, main, api, flag, cur, new, collectors, heap, scrapes,
                 threads, faults, owed>>

Remove ==
  /\ Event
  /\ row # None
  /\ row' = None
  /\ promised' = NoMetrics
  /\ UNCHANGED <<reloads, file, env, main, api, flag, cur, new, collectors, heap,
                 scrapes, threads, faults, owed>>

AskReload ==
  /\ Event
  /\ reloads' = reloads + 1
  /\ UNCHANGED <<row, file, env, main, api, flag, cur, new, collectors, heap, scrapes,
                 threads, faults, history>>

-----------------------------------------------------------------------------
Init ==
  /\ row \in {None} \cup [conf : Edits, ip : {TRUE}]
  /\ reloads = 0
  /\ file \in Files
  /\ env \in EnvTypes
  /\ main = "fetch"
  /\ api = FALSE
  /\ flag = FALSE
  /\ cur = None /\ new = None /\ collectors = None
  /\ type = [o \in Obj |-> None]
  /\ ref = [o \in Obj |-> o]
  /\ dict = [o \in Obj |-> NoMetrics]
  /\ at = [s \in Scrape |-> "idle"]
  /\ held = [s \in Scrape |-> None]
  /\ found = [s \in Scrape |-> {}]
  /\ health = "starting"
  /\ carries = [t \in Sync |-> None]
  /\ sends = [t \in Sync |-> None]
  /\ events = 0
  /\ faults = 0
  /\ owed = FALSE
  /\ promised = NoMetrics

Main == Fetch \/ Fallback \/ StubStart \/ Poll \/ Start \/ StartFails \/ Reload \/ Apply
        \/ Swap \/ Save \/ ClearFlag
Scraping(s) == Collect(s) \/ Register(s)
Syncing(t) == SendPut(t) \/ PutArrives(t)

Next ==
  \/ Main
  \/ \E s \in Scrape : Snapshot(s) \/ Scraping(s)
  \/ \E t \in Sync : Syncing(t)
  \/ ReloadArrives
  \/ \E ms \in SUBSET Metric, v \in {"on", "off"}, b \in BOOLEAN :
       EnableMetrics(ms, v, b)
  \/ \E c \in Edits, n \in {0, 1} : Edit(c, n)
  \/ Remove \/ AskReload \/ Kill

Spec == Init /\ [][Next]_vars

(* Threads run, and calls to the server are answered or time out.  Nothing *)
(* is assumed of scrapes: a tool that is silent may hold one for ever.     *)
FairSpec ==
  /\ Spec
  /\ WF_vars(Main)
  /\ \A t \in Sync : WF_vars(Syncing(t))
  /\ WF_vars(ReloadArrives)

-----------------------------------------------------------------------------
(* Properties                                                              *)

TypeOK ==
  /\ row \in {None} \cup [conf : Config, ip : BOOLEAN]
  /\ reloads \in Nat
  /\ file \in Config \cup {None}
  /\ env \in EnvTypes
  /\ main \in {"fetch", "fallback", "waiting", "init", "idle", "apply", "swap", "save",
               "clear"}
  /\ api \in BOOLEAN /\ flag \in BOOLEAN
  /\ cur \in Obj \cup {None} /\ new \in Obj \cup {None}
  /\ collectors \in Supported \cup {None}
  /\ type \in [Obj -> Type \cup {None}]
  /\ ref \in [Obj -> Obj]
  /\ dict \in [Obj -> Metrics]
  /\ at \in [Scrape -> {"idle", "collect", "register"}]
  /\ held \in [Scrape -> Obj \cup {None}]
  /\ found \in [Scrape -> SUBSET Metric]
  /\ health \in {"starting", "healthy", "degraded"}
  /\ carries \in [Sync -> Obj \cup {None}]
  /\ sends \in [Sync -> Config \cup {None}]
  /\ events \in 0..MaxEvents /\ faults \in 0..MaxFaults
  /\ owed \in BOOLEAN /\ promised \in Metrics

(* Between reloads the collectors are those of the current configuration,  *)
(* whether the last reload succeeded, found nothing, or asked for a device *)
(* type there are no collectors for.                                       *)
CollectorsMatch == main = "idle" => collectors = type[cur]

(* The local file always names a device type the exporter can start with,  *)
(* so that it survives a crash while the server is away.  (Without         *)
(* DEVICE_TYPE the management API is up before the collectors are, and a   *)
(* request in that moment may save a configuration that does not start.)   *)
FileStarts == env # None /\ file # None => file.type \in Supported

Quiet ==
  /\ reloads = 0
  /\ flag => cur = None  \* in waiting mode the reload loop is not there yet
  /\ \A t \in Sync : carries[t] = None /\ sends[t] = None

(* A PUT of the exporter makes the server call /reload, a reload may end   *)
(* in a PUT: this does not go on for ever once operators leave it alone.   *)
SettlesDown == <>[]Quiet

(* server/API.md: "When reload_triggered is true, the exporter's /reload   *)
(* endpoint was called and the configuration is applied immediately": an   *)
(* answered /reload is followed by a load that begins after it.            *)
ReloadIsHonoured == owed => flag

(* exporter/API.md of POST /metrics/enable: the change is saved, synced to *)
(* the server and effective from the next collection.  When everything has *)
(* settled and nothing failed, the last acknowledged value is in force.    *)
EnableSticks ==
  Quiet /\ main = "idle" /\ faults = 0 =>
    \A m \in Metric : promised[m] # "unset" => dict[ref[cur]][m] = promised[m]
=============================================================================
