------------------------------ MODULE KubeSync ------------------------------
(***************************************************************************)
(* The reconciliation of registered devices into Kubernetes Services and   *)
(* Endpoints: the Syncer (server/handlers/syncer.go) with its periodic     *)
(* loop, its manual trigger and its shutdown, and the operations of        *)
(* server/kubernetes/sync.go that handlers run beside it without its lock. *)
(*                                                                         *)
(* Each goroutine that may be doing one of these jobs is a worker.  A step *)
(* is one call that leaves the process: a query of the device table, a     *)
(* health check of a device, or one request to the Kubernetes API.  A get  *)
(* and the create or update it decides on are two requests, so two steps.  *)
(*                                                                         *)
(* An address stands for ip_address and port together; of a Service only   *)
(* its presence is kept.  Objects are named by the lower-case device id.   *)
(***************************************************************************)
EXTENDS Naturals, FiniteSets

CONSTANTS
  Device,      \* device ids
  Lower,       \* [Device -> Device]: strings.ToLower
  IP,          \* addresses
  NoIP,        \* registered without an address
  Absent,      \* no row, no object, no value
  Loop,        \* the goroutine of Syncer.loop
  Handlers,    \* goroutines of HTTP handlers
  GraceLimit,  \* graceLimit: failed checks before the Endpoints go
  StartModes,  \* of {"absent", "running"}: is SYNC_INTERVAL > 0
  MaxEvents,   \* bound: changes of the table and of devices, manual jobs
  MaxFaults    \* bound: calls that fail or hang

Worker == Handlers \cup {Loop}
Name == {Lower[d] : d \in Device}
Row == IP \cup {NoIP, Absent}

ASSUME SyncConstants ==
  /\ Lower \in [Device -> Device]
  /\ \A d \in Device : Lower[Lower[d]] = Lower[d]
  /\ NoIP \notin IP /\ Absent \notin IP \cup {NoIP} \cup Device
  /\ Loop \notin Handlers /\ Absent \notin Worker
  /\ GraceLimit \in Nat \ {0}
  /\ StartModes \subseteq {"absent", "running"}
  /\ MaxEvents \in Nat /\ MaxFaults \in Nat

Job == {"none", "sync", "direct", "single", "delete", "cleanup"}
Label == {"idle", "lock", "list", "check_all", "list_svc", "list_ep", "next",
          "svc_get", "svc_create", "svc_update",
          "ep_get", "ep_create", "ep_update", "grace",
          "sweep", "sweep_ep", "cleanup_svc", "cleanup_ep", "unlock",
          "hung"}  \* in a Kubernetes request that is never answered

VARIABLES
  table,     \* the device table: [Device -> Row]
  alive,     \* addresses whose exporter answers /health with 200
  svc,       \* names that have a Service
  eps,       \* [Name -> IP or Absent]: the address in the Endpoints
  mutex,     \* Syncer.mu: the worker that holds it, or Absent
  fails,     \* Syncer.failureCounts, saturated at the grace limit
  reset,     \* Syncer.resetCh, of capacity one, holds a value
  stop,      \* of the Syncer: "absent" (main made none), "running",
             \* "stopping" (stopCh closed) or "stopped" (done closed)
  job, pc,   \* of each worker: what it does and where it is
  snap,      \* of each worker: the rows List returned
  todo,      \* of each worker: devices (or Endpoints) still to be handled
  old,       \* of each worker: Services it found and still has to remove
  cur,       \* of each worker: the device or name it is at
  events, faults,
  streak,    \* history: failed checks of Sync since the last good one
  verified   \* history: [Name -> addresses that answered a check for it]

cluster == <<svc, eps>>
syncer == <<mutex, fails, reset, stop>>
local == <<job, snap, todo, old, cur>>
history == <<streak, verified>>
vars == <<table, alive, cluster, syncer, pc, local, events, faults, history>>

-----------------------------------------------------------------------------
Goto(w, label) == pc' = [pc EXCEPT ![w] = label]

(* A call fails (Kubernetes API, SQLite or GET /devices) or hangs.         *)
Fault ==
  /\ faults < MaxFaults
  /\ faults' = faults + 1

Registered(s) == {d \in Device : s[d] # Absent}

(* CheckDeviceHealth: 200 from GET /health; "unknown" without an address.  *)
HealthyOrUnknown(s, d) == s[d] \in alive \cup {NoIP}  \* variant: no address is fine
HealthyIfAddressed(s, d) == s[d] \in IP               \* variant: nobody asks
Healthy(s, d) == s[d] \in alive

(* Where a worker goes when it is done with a device: the Syncer and       *)
(* SyncDevices go on with the next, the others answer.                     *)
Continue(w) == Goto(w, IF job[w] \in {"sync", "direct"} THEN "next" ELSE "idle")

(* Leaving Sync unlocks the mutex, with or without an error.               *)
LeaveLocked(w) == Goto(w, "idle")  \* variant: no deferred Unlock
Leave(w) == Goto(w, IF job[w] = "sync" THEN "unlock" ELSE "idle")

Start(w, j, label) ==
  /\ pc[w] = "idle"
  /\ job' = [job EXCEPT ![w] = j]
  /\ Goto(w, label)
  /\ UNCHANGED <<table, alive, cluster, mutex, fails, snap, old, faults, history>>

-----------------------------------------------------------------------------
(* The periodic loop, the manual trigger and the shutdown                  *)

(* case <-ticker.C; with stopCh closed too, select picks either.           *)
Tick ==
  /\ stop \in {"running", "stopping"}
  /\ Start(Loop, "sync", "lock")
  /\ UNCHANGED <<reset, stop, todo, cur, events>>

(* case <-resetCh: restarts the ticker.                                    *)
TickerReset ==
  /\ stop \in {"running", "stopping"}
  /\ pc[Loop] = "idle"
  /\ reset
  /\ reset' = FALSE
  /\ UNCHANGED <<table, alive, cluster, mutex, fails, stop, pc, local, events,
                 faults, history>>

(* Stop: close(stopCh), then wait for done.                                *)
Stop ==
  /\ stop = "running"
  /\ stop' = "stopping"
  /\ UNCHANGED <<table, alive, cluster, mutex, fails, reset, pc, local, events,
                 faults, history>>

LoopReturns ==
  /\ stop = "stopping"
  /\ pc[Loop] = "idle"
  /\ stop' = "stopped"
  /\ UNCHANGED <<table, alive, cluster, mutex, fails, reset, pc, local, events,
                 faults, history>>

(* POST /kubernetes/sync: the Syncer if there is one, else SyncDevices.    *)
SyncKubernetes(w) ==
  /\ IF stop = "absent" THEN Start(w, "direct", "list") ELSE Start(w, "sync", "lock")
  /\ UNCHANGED <<reset, stop, todo, cur, events>>

Lock(w) ==
  /\ pc[w] = "lock"
  /\ mutex = Absent
  /\ mutex' = w
  /\ Goto(w, "list")
  /\ UNCHANGED <<table, alive, cluster, fails, reset, stop, local, events, faults,
                 history>>

(* The deferred Unlock, and TriggerSync's send that never blocks.          *)
UnlockBlocks(w) ==  \* variant: a send that waits for room, under the lock
  /\ pc[w] = "unlock"
  /\ w = Loop \/ ~reset
  /\ mutex' = Absent
  /\ reset' = (reset \/ w # Loop)
  /\ Goto(w, "idle")
  /\ UNCHANGED <<table, alive, cluster, fails, stop, local, events, faults,
                 history>>

Unlock(w) ==
  /\ pc[w] = "unlock"
  /\ mutex' = Absent
  /\ reset' = (reset \/ w # Loop)
  /\ Goto(w, "idle")
  /\ UNCHANGED <<table, alive, cluster, fails, stop, local, events, faults,
                 history>>

-----------------------------------------------------------------------------
(* Reading the table and the cluster                                       *)

(* Store.List, by Sync itself or behind GET /devices.                      *)
List(w) ==
  /\ pc[w] = "list"
  /\ \/ /\ snap' = [snap EXCEPT ![w] = table]
        /\ todo' = [todo EXCEPT ![w] = IF job[w] = "single"
                                       THEN {cur[w]} \cap Registered(table)
                                       ELSE Registered(table)]
        /\ Goto(w, IF job[w] = "sync" THEN "list_svc" ELSE "check_all")
        /\ UNCHANGED faults
     \/ Fault /\ Leave(w) /\ UNCHANGED <<snap, todo>>
  /\ UNCHANGED <<table, alive, cluster, syncer, job, old, cur, events, history>>

(* History: what GET /health really answered at the address in the snapshot. *)
Verify(w, d) ==
  verified' = [verified EXCEPT ![Lower[d]] = @ \cup ({snap[w][d]} \cap alive)]

(* GET /devices checks all devices before it answers; SyncDevices and      *)
(* SyncSingleDevice keep the healthy ones, marked here by dropping the     *)
(* others from the snapshot.                                               *)
CheckAll(w) ==
  /\ pc[w] = "check_all"
  /\ \/ \E d \in todo[w] :
          /\ todo' = [todo EXCEPT ![w] = @ \ {d}]
          /\ snap' = IF Healthy(snap[w], d) THEN snap
                     ELSE [snap EXCEPT ![w][d] = Absent]
          /\ Verify(w, d)
          /\ UNCHANGED pc
     \/ /\ todo[w] = {}
        /\ Goto(w, IF job[w] = "direct" THEN "list_svc"
                   ELSE IF cur[w] \in Registered(snap[w]) THEN "svc_get" ELSE "idle")
        /\ UNCHANGED <<snap, todo, verified>>
  /\ UNCHANGED <<table, alive, cluster, syncer, job, old, cur, events, faults,
                 streak>>

(* ListEdgeServices; the Services of devices in hand are left alone.       *)
ListServices(w) ==
  /\ pc[w] = "list_svc"
  /\ \/ /\ old' = [old EXCEPT ![w] =
                     IF job[w] = "cleanup" THEN svc
                     ELSE svc \ {Lower[d] : d \in Registered(snap[w])}]
        /\ todo' = [todo EXCEPT ![w] =
                      IF job[w] = "cleanup" THEN {} ELSE Registered(snap[w])]
        /\ Goto(w, IF job[w] = "cleanup" THEN "list_ep" ELSE "next")
        /\ UNCHANGED faults
     \/ Fault /\ Leave(w) /\ UNCHANGED <<old, todo>>
  /\ UNCHANGED <<table, alive, cluster, syncer, job, snap, cur, events, history>>

-----------------------------------------------------------------------------
(* One device                                                              *)

(* failureCounts[id] after a check: deleted or incremented.                *)
CountedForever(n, ok) ==  \* variant: a good check does not clear the count
  IF ok \/ n >= GraceLimit THEN n ELSE n + 1
Counted(n, ok) == IF ok THEN 0 ELSE IF n < GraceLimit THEN n + 1 ELSE n

(* History: the same for the answers the exporter really gave to Sync.     *)
Streak(w, d) ==
  /\ streak' = [streak EXCEPT ![d] =
                  IF snap[w][d] \in alive THEN 0
                  ELSE IF @ < GraceLimit THEN @ + 1 ELSE @]
  /\ Verify(w, d)

(* Sync checks the device now; a failed check only counts until the grace  *)
(* limit.  SyncDevices has checked already.                                *)
NextDevice(w) ==
  /\ pc[w] = "next"
  /\ \E d \in todo[w] :
       /\ todo' = [todo EXCEPT ![w] = @ \ {d}]
       /\ cur' = [cur EXCEPT ![w] = d]
       /\ \/ job[w] = "direct" /\ Goto(w, "svc_get") /\ UNCHANGED <<fails, history>>
          \/ /\ job[w] = "sync"
             /\ fails' = [fails EXCEPT ![d] = Counted(@, Healthy(snap[w], d))]
             /\ Streak(w, d)
             /\ Goto(w, IF Healthy(snap[w], d) THEN "svc_get"
                        ELSE IF fails'[d] >= GraceLimit THEN "grace" ELSE "next")
  /\ UNCHANGED <<table, alive, cluster, mutex, reset, stop, job, snap, old, events,
                 faults>>

(* Grace period exceeded: remove the Endpoints, ignore an error.           *)
GraceExceeded(w) ==
  /\ pc[w] = "grace"
  /\ \/ eps' = [eps EXCEPT ![Lower[cur[w]]] = Absent] /\ UNCHANGED faults
     \/ Fault /\ UNCHANGED eps
  /\ Goto(w, "next")
  /\ UNCHANGED <<table, alive, svc, syncer, local, events, history>>

(* CreateOrUpdateService: Get, then Create or Update.                      *)
GetService(w) ==
  /\ pc[w] = "svc_get"
  /\ \/ /\ Goto(w, IF Lower[cur[w]] \in svc THEN "svc_update" ELSE "svc_create")
        /\ UNCHANGED faults
     \/ Fault /\ Continue(w)
  /\ UNCHANGED <<table, alive, cluster, syncer, local, events, history>>

(* Create fails if the object has appeared meanwhile; whether Update puts  *)
(* back an object that has vanished is up to the API server.               *)
WriteService(w) ==
  LET n == Lower[cur[w]] IN
  /\ \/ pc[w] = "svc_create" /\ n \notin svc
     \/ pc[w] = "svc_update"
  /\ svc' = svc \cup {n}
  /\ Goto(w, "ep_get")
  /\ UNCHANGED <<table, alive, eps, syncer, local, events, faults, history>>

WriteServiceFails(w) ==
  /\ \/ pc[w] = "svc_create" /\ Lower[cur[w]] \in svc /\ UNCHANGED faults
     \/ pc[w] = "svc_update" /\ Lower[cur[w]] \notin svc /\ UNCHANGED faults
     \/ pc[w] \in {"svc_create", "svc_update"} /\ Fault
  /\ Continue(w)
  /\ UNCHANGED <<table, alive, cluster, syncer, local, events, history>>

(* CreateOrUpdateEndpoints, with the address of the snapshot.              *)
GetEndpointsOnce(w) ==  \* variant: existing Endpoints are left as they are
  /\ pc[w] = "ep_get"
  /\ \/ /\ eps[Lower[cur[w]]] = Absent
        /\ Goto(w, "ep_create")
        /\ UNCHANGED faults
     \/ eps[Lower[cur[w]]] # Absent /\ Continue(w) /\ UNCHANGED faults
     \/ Fault /\ Continue(w)
  /\ UNCHANGED <<table, alive, cluster, syncer, local, events, history>>

GetEndpoints(w) ==
  /\ pc[w] = "ep_get"
  /\ \/ /\ Goto(w, IF eps[Lower[cur[w]]] # Absent THEN "ep_update" ELSE "ep_create")
        /\ UNCHANGED faults
     \/ Fault /\ Continue(w)
  /\ UNCHANGED <<table, alive, cluster, syncer, local, events, history>>

WriteEndpoints(w) ==
  LET n == Lower[cur[w]] IN
  /\ \/ pc[w] = "ep_create" /\ eps[n] = Absent
     \/ pc[w] = "ep_update"
  /\ eps' = [eps EXCEPT ![n] = snap[w][cur[w]]]
  /\ Continue(w)
  /\ UNCHANGED <<table, alive, svc, syncer, local, events, faults, history>>

WriteEndpointsFails(w) ==
  LET n == Lower[cur[w]] IN
  /\ \/ pc[w] = "ep_create" /\ eps[n] # Absent /\ UNCHANGED faults
     \/ pc[w] = "ep_update" /\ eps[n] = Absent /\ UNCHANGED faults
     \/ pc[w] \in {"ep_create", "ep_update"} /\ Fault
  /\ Continue(w)
  /\ UNCHANGED <<table, alive, cluster, syncer, local, events, history>>

-----------------------------------------------------------------------------
(* Removing what is left over                                              *)

(* All devices are handled: turn to the Services no device accounts for.   *)
BeginSweep(w) ==
  /\ pc[w] = "next"
  /\ todo[w] = {}
  /\ Goto(w, "sweep")
  /\ UNCHANGED <<table, alive, cluster, syncer, local, events, faults, history>>

(* DeleteService.  Sync ignores an error and goes on to the Endpoints;     *)
(* SyncDevices skips them.  DeleteDeviceResources removes its one device.  *)
SweepService(w) ==
  /\ pc[w] = "sweep"
  /\ \E n \in old[w] :
       /\ old' = [old EXCEPT ![w] = @ \ {n}]
       /\ cur' = [cur EXCEPT ![w] = n]
       /\ \/ svc' = svc \ {n} /\ Goto(w, "sweep_ep") /\ UNCHANGED faults
          \/ /\ Fault
             /\ Goto(w, IF job[w] = "sync" THEN "sweep_ep" ELSE "sweep")
             /\ UNCHANGED svc
  /\ UNCHANGED <<table, alive, eps, syncer, job, snap, todo, events, history>>

(* DeleteEndpoints; Sync then forgets the failures counted under the name. *)
SweepEndpoints(w) ==
  /\ pc[w] = "sweep_ep"
  /\ \/ eps' = [eps EXCEPT ![cur[w]] = Absent] /\ UNCHANGED faults
     \/ Fault /\ UNCHANGED eps
  /\ fails' = IF job[w] = "sync" THEN [fails EXCEPT ![cur[w]] = 0] ELSE fails
  /\ Goto(w, "sweep")
  /\ UNCHANGED <<table, alive, svc, mutex, reset, stop, local, events, history>>

EndSweep(w) ==
  /\ pc[w] = "sweep"
  /\ old[w] = {}
  /\ Leave(w)
  /\ UNCHANGED <<table, alive, cluster, syncer, local, events, faults, history>>

-----------------------------------------------------------------------------
(* The handlers that bypass the Syncer and its mutex                       *)

Event == events < MaxEvents /\ events' = events + 1

SyncSingleDevice(w, d) ==
  /\ Event
  /\ Start(w, "single", "list")
  /\ cur' = [cur EXCEPT ![w] = d]
  /\ UNCHANGED <<reset, stop, todo>>

DeleteDeviceResources(w, d) ==
  /\ Event
  /\ pc[w] = "idle"
  /\ job' = [job EXCEPT ![w] = "delete"]
  /\ old' = [old EXCEPT ![w] = {Lower[d]}]
  /\ Goto(w, "sweep")
  /\ UNCHANGED <<table, alive, cluster, syncer, snap, todo, cur, faults, history>>

CleanupAllResources(w) ==
  /\ Event
  /\ Start(w, "cleanup", "list_svc")
  /\ UNCHANGED <<reset, stop, todo, cur>>

ListEndpoints(w) ==
  /\ pc[w] = "list_ep"
  /\ \/ /\ todo' = [todo EXCEPT ![w] = {n \in Name : eps[n] # Absent}]
        /\ Goto(w, "cleanup_svc")
        /\ UNCHANGED faults
     \/ Fault /\ Goto(w, "idle") /\ UNCHANGED todo
  /\ UNCHANGED <<table, alive, cluster, syncer, job, snap, old, cur, events,
                 history>>

(* All Services, then all Endpoints; the first error ends the cleanup.     *)
CleanupService(w) ==
  /\ pc[w] = "cleanup_svc"
  /\ \/ \E n \in old[w] :
          /\ old' = [old EXCEPT ![w] = @ \ {n}]
          /\ svc' = svc \ {n}
          /\ UNCHANGED <<pc, faults>>
     \/ old[w] = {} /\ Goto(w, "cleanup_ep") /\ UNCHANGED <<old, svc, faults>>
     \/ old[w] # {} /\ Fault /\ Goto(w, "idle") /\ UNCHANGED <<old, svc>>
  /\ UNCHANGED <<table, alive, eps, syncer, job, snap, todo, cur, events, history>>

CleanupEndpoints(w) ==
  /\ pc[w] = "cleanup_ep"
  /\ \/ \E n \in todo[w] :
          /\ todo' = [todo EXCEPT ![w] = @ \ {n}]
          /\ eps' = [eps EXCEPT ![n] = Absent]
          /\ UNCHANGED <<pc, faults>>
     \/ todo[w] = {} /\ Goto(w, "idle") /\ UNCHANGED <<todo, eps, faults>>
     \/ todo[w] # {} /\ Fault /\ Goto(w, "idle") /\ UNCHANGED <<todo, eps>>
  /\ UNCHANGED <<table, alive, svc, syncer, job, snap, old, cur, events, history>>

-----------------------------------------------------------------------------
(* Requests that are never answered                                        *)

(* A worker waits for the Kubernetes API.                                  *)
Requesting(w) ==
  \/ pc[w] \in {"list_svc", "list_ep", "svc_get", "svc_create", "svc_update",
                "ep_get", "ep_create", "ep_update", "grace", "sweep_ep"}
  \/ pc[w] \in {"sweep", "cleanup_svc"} /\ old[w] # {}
  \/ pc[w] = "cleanup_ep" /\ todo[w] # {}

(* What its request does to the cluster, if it is one that writes.         *)
Executed(w) ==
  \/ /\ pc[w] \in {"svc_create", "svc_update"}
     /\ svc' = svc \cup {Lower[cur[w]]}
     /\ UNCHANGED eps
  \/ /\ pc[w] \in {"sweep", "cleanup_svc"}
     /\ \E n \in old[w] : svc' = svc \ {n}
     /\ UNCHANGED eps
  \/ /\ \/ pc[w] = "ep_update"
        \/ pc[w] = "ep_create" /\ eps[Lower[cur[w]]] = Absent
     /\ eps' = [eps EXCEPT ![Lower[cur[w]]] = snap[w][cur[w]]]
     /\ UNCHANGED svc
  \/ /\ \E n \in Name :
          /\ \/ pc[w] = "grace" /\ n = Lower[cur[w]]
             \/ pc[w] = "sweep_ep" /\ n = cur[w]
             \/ pc[w] = "cleanup_ep" /\ n \in todo[w]
          /\ eps' = [eps EXCEPT ![n] = Absent]
     /\ UNCHANGED svc

(* A Kubernetes request is never answered, whether or not it was executed: *)
(* the client is made without a timeout and every call is given            *)
(* context.Background().  The worker is stuck until the process ends, and  *)
(* so is whoever waits for the mutex if it holds it.                       *)
Hang(w) ==
  /\ Requesting(w)
  /\ Fault
  /\ UNCHANGED cluster \/ Executed(w)
  /\ Goto(w, "hung")
  /\ UNCHANGED <<table, alive, syncer, local, events, history>>

-----------------------------------------------------------------------------
(* The world: clients of the config server, and the devices                *)

EditTable(d, row) ==
  /\ Event
  /\ table[d] # row
  /\ table' = [table EXCEPT ![d] = row]
  /\ UNCHANGED <<alive, cluster, syncer, pc, local, faults, history>>

ExporterUp(ip) ==
  /\ Event
  /\ ip \notin alive
  /\ alive' = alive \cup {ip}
  /\ UNCHANGED <<table, cluster, syncer, pc, local, faults, history>>

ExporterDown(ip) ==
  /\ Event
  /\ ip \in alive
  /\ alive' = alive \ {ip}
  /\ UNCHANGED <<table, cluster, syncer, pc, local, faults, history>>

(* The server process ends, in whatever it is doing, and starts again.     *)
Restart ==
  /\ Event
  /\ mutex' = Absent
  /\ fails' = [d \in Device |-> 0]
  /\ reset' = FALSE
  /\ stop' = IF stop = "absent" THEN stop ELSE "running"
  /\ job' = [w \in Worker |-> "none"]
  /\ pc' = [w \in Worker |-> "idle"]
  /\ snap' = [w \in Worker |-> [d \in Device |-> Absent]]
  /\ todo' = [w \in Worker |-> {}]
  /\ old' = [w \in Worker |-> {}]
  /\ cur' = [w \in Worker |-> Absent]
  /\ UNCHANGED <<table, alive, cluster, faults, history>>

-----------------------------------------------------------------------------
(* An empty cluster; the device table and the exporters may be anything.   *)
Init ==
  /\ table \in [Device -> Row]
  /\ alive \in SUBSET IP
  /\ svc = {}
  /\ eps = [n \in Name |-> Absent]
  /\ mutex = Absent
  /\ fails = [d \in Device |-> 0]
  /\ reset = FALSE
  /\ stop \in StartModes
  /\ job = [w \in Worker |-> "none"]
  /\ pc = [w \in Worker |-> "idle"]
  /\ snap = [w \in Worker |-> [d \in Device |-> Absent]]
  /\ todo = [w \in Worker |-> {}]
  /\ old = [w \in Worker |-> {}]
  /\ cur = [w \in Worker |-> Absent]
  /\ events = 0
  /\ faults = 0
  /\ streak = [d \in Device |-> 0]
  /\ verified = [n \in Name |-> {}]

Work(w) ==
  \/ Lock(w) \/ Unlock(w)
  \/ List(w) \/ CheckAll(w) \/ ListServices(w)
  \/ NextDevice(w) \/ GraceExceeded(w)
  \/ GetService(w) \/ WriteService(w) \/ WriteServiceFails(w)
  \/ GetEndpoints(w) \/ WriteEndpoints(w) \/ WriteEndpointsFails(w)
  \/ BeginSweep(w) \/ SweepService(w) \/ SweepEndpoints(w) \/ EndSweep(w)
  \/ ListEndpoints(w) \/ CleanupService(w) \/ CleanupEndpoints(w)

Manual(w) ==
  \/ SyncKubernetes(w)
  \/ CleanupAllResources(w)
  \/ \E d \in Device : SyncSingleDevice(w, d) \/ DeleteDeviceResources(w, d)

World ==
  \/ \E d \in Device, row \in Row : EditTable(d, row)
  \/ \E ip \in IP : ExporterUp(ip) \/ ExporterDown(ip)
  \/ Restart

Next ==
  \/ Tick \/ TickerReset \/ Stop \/ LoopReturns
  \/ \E w \in Worker : Work(w) \/ Hang(w)
  \/ \E w \in Handlers : Manual(w)
  \/ World

Spec == Init /\ [][Next]_vars

-----------------------------------------------------------------------------
(* Safety                                                                  *)

SystemTypes ==
  /\ table \in [Device -> Row]
  /\ alive \subseteq IP
  /\ svc \subseteq Name
  /\ eps \in [Name -> IP \cup {Absent}]
  /\ mutex \in Worker \cup {Absent}
  /\ fails \in [Device -> 0..GraceLimit]
  /\ reset \in BOOLEAN
  /\ stop \in {"absent", "running", "stopping", "stopped"}

ControlTypes ==
  /\ job \in [Worker -> Job]
  /\ pc \in [Worker -> Label]

LocalTypes ==
  /\ snap \in [Worker -> [Device -> Row]]
  /\ todo \in [Worker -> SUBSET Device]
  /\ old \in [Worker -> SUBSET Name]
  /\ cur \in [Worker -> Device \cup {Absent}]

BoundTypes ==
  /\ events \in 0..MaxEvents
  /\ faults \in 0..MaxFaults
  /\ streak \in [Device -> 0..GraceLimit]
  /\ verified \in [Name -> SUBSET IP]

TypeOK == SystemTypes /\ ControlTypes /\ LocalTypes /\ BoundTypes

(* Whatever syncs, single syncs, deletions, restarts and failing calls     *)
(* overlap, Prometheus is only ever sent to an address that answered a     *)
(* health check made for the device of that name.                          *)
PublishedWasHealthy ==
  \A n \in Name : eps[n] = Absent \/ eps[n] \in verified[n]

(* A Sync is about to withdraw the Endpoints of a registered device only   *)
(* after GraceLimit failed checks with no good one in between, counted     *)
(* over all Syncs whoever started them.                                    *)
GraceRespected ==
  \A w \in Worker : pc[w] = "grace" => streak[cur[w]] >= GraceLimit

InSync(w) == job[w] = "sync" /\ pc[w] \notin {"idle", "lock"}

(* Timer and manual trigger never run Sync at the same time, and no way    *)
(* out of Sync, an error included, leaves the mutex locked.                *)
SyncsSerialized == \A w \in Worker : InSync(w) <=> mutex = w

-----------------------------------------------------------------------------
(* Liveness                                                                *)

(* A Kubernetes request that does not Hang is answered in the end, with a  *)
(* result or an error; so is a query of the table, a health check (2 s)    *)
(* and GET /devices (10 s).  Nothing is assumed of Hang.  Go's mutex does  *)
(* not starve a waiter, the ticker fires, and a select that finds stopCh   *)
(* ready again and again takes it.                                         *)
Fairness ==
  /\ \A w \in Worker : WF_vars(Work(w)) /\ SF_vars(Lock(w))
  /\ WF_vars(Tick)
  /\ SF_vars(LoopReturns)

FairSpec == Spec /\ Fairness

(* The Sync in progress waits for an answer that never comes.              *)
Stuck == \E w \in Worker : mutex = w /\ pc[w] = "hung"

(* Every Sync that is asked for ends, unless it or the Sync it waits for   *)
(* hangs in a Kubernetes request: nothing else can hold it up, not even a  *)
(* handler outside the mutex that hangs.                                   *)
SyncReturns == \A w \in Worker : pc[w] = "lock" ~> (pc[w] = "idle" \/ Stuck)

(* Stop returns, and main is not left waiting for the loop, unless the     *)
(* Sync that the loop is in or waits for hangs; Stop has no timeout.       *)
StopTerminates == stop = "stopping" ~> (stop # "stopping" \/ Stuck)

Matches(d) ==
  IF Healthy(table, d) THEN Lower[d] \in svc /\ eps[Lower[d]] = table[d]
  ELSE eps[Lower[d]] = Absent

(* A running Syncer whose Syncs do not hang for ever repairs the cluster,  *)
(* whatever races, failures, hung handlers and restarts left behind: in    *)
(* the end the Endpoints of a registered device show its address, or       *)
(* nothing while it is down, and only registered devices have a Service.   *)
Converges ==
  <>[](stop = "running" /\ ~Stuck) =>
    <>[](/\ \A d \in Registered(table) : Matches(d)
         /\ \A n \in svc : \E d \in Registered(table) : Lower[d] = n)

=============================================================================
