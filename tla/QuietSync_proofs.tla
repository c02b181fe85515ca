-------------------------- MODULE QuietSync_proofs --------------------------
(* Proofs about QuietSync for any devices, addresses, handlers and bounds. *)
EXTENDS QuietSync, KubeSync_proofs

(* No two registered ids differ in case only.  The API accepts lower case; *)
(* SEED_DEVICES may bring others.                                          *)
NamesDistinct == \A c, d \in Registered(table) : Lower[c] = Lower[d] => c = d

Names == {Lower[d] : d \in Registered(table)}

AtDevice == Publishing
AtSweep == {"sweep", "sweep_ep", "unlock"}
HasRead(w) ==
  job[w] = "sync" /\ pc[w] \in {"list_svc", "next", "grace"} \cup AtDevice \cup AtSweep

(* The registered devices it is done with are shown, and every Service it  *)
(* will not remove is that of a registered device.                         *)
Progress(w) ==
  /\ todo[w] \subseteq Registered(table)
  /\ old[w] \cap Names = {}
  /\ svc \subseteq old[w] \cup Names
  /\ \A d \in Registered(table) \ todo[w] :
       Shown(d) \/ (d = cur[w] /\ pc[w] \in AtDevice \cup {"grace"})

(* What the place it is at tells of the device or the name in hand.        *)
Expects(w) ==
  /\ pc[w] \in AtDevice => cur[w] \in Registered(table) /\ Healthy(table, cur[w])
  /\ pc[w] = "grace" => cur[w] \in Registered(table) /\ ~Healthy(table, cur[w])
  /\ pc[w] = "svc_create" => Lower[cur[w]] \notin svc
  /\ pc[w] \in {"svc_update", "ep_get", "ep_create", "ep_update"} => Lower[cur[w]] \in svc
  /\ pc[w] = "ep_create" => eps[Lower[cur[w]]] = Absent
  /\ pc[w] = "ep_update" => eps[Lower[cur[w]]] # Absent
  /\ pc[w] \in AtSweep => todo[w] = {}
  /\ pc[w] = "sweep_ep" => cur[w] \in Name \ Names
  /\ pc[w] = "unlock" => old[w] = {}

LeftAlone(w) ==
  HasRead(w) => snap[w] = table /\ (pc[w] # "list_svc" => Progress(w) /\ Expects(w))

QuietInv == quiet \in Worker \cup {Absent} /\ (quiet # Absent => LeftAlone(quiet))

-----------------------------------------------------------------------------
(* Nobody but a worker itself and a restart changes where it is and what   *)
(* it holds, except that a request may leave it hung, and nobody but the   *)
(* holder of the mutex the failure counts.                                 *)
Keeps(w) ==
  /\ pc'[w] = pc[w] /\ job'[w] = job[w] /\ snap'[w] = snap[w]
  /\ todo'[w] = todo[w] /\ old'[w] = old[w] /\ cur'[w] = cur[w]
  /\ InSync(w) => fails' = fails

LEMMA OthersKeep ==
  ASSUME TypeOK, SyncsSerialized, NEW w \in Worker, pc[w] # "idle", Next, ~Work(w)
  PROVE  pc'[w] \in {"idle", "hung"} \/ Keeps(w)
PROOF
<1> USE DEF TypeOK, ControlTypes, LocalTypes, Goto
<1>1. ASSUME NEW v \in Worker, v # w, Work(v) PROVE Keeps(w)
  <2>1. InSync(v) => ~InSync(w)
    BY <1>1, SyncConstants DEF SyncsSerialized
  <2>2. pc'[w] = pc[w] /\ job'[w] = job[w]
    BY <1>1
    DEF Work, Lock, Unlock, List, CheckAll, ListServices, NextDevice, GraceExceeded,
        GetService, WriteService, WriteServiceFails, GetEndpoints, WriteEndpoints,
        WriteEndpointsFails, BeginSweep, SweepService, SweepEndpoints, EndSweep,
        ListEndpoints, CleanupService, CleanupEndpoints, Leave, Continue, local
  <2>3. snap'[w] = snap[w] /\ todo'[w] = todo[w]
    BY <1>1
    DEF Work, Lock, Unlock, List, CheckAll, ListServices, NextDevice, GraceExceeded,
        GetService, WriteService, WriteServiceFails, GetEndpoints, WriteEndpoints,
        WriteEndpointsFails, BeginSweep, SweepService, SweepEndpoints, EndSweep,
        ListEndpoints, CleanupService, CleanupEndpoints, local
  <2>4. old'[w] = old[w] /\ cur'[w] = cur[w]
    BY <1>1
    DEF Work, Lock, Unlock, List, CheckAll, ListServices, NextDevice, GraceExceeded,
        GetService, WriteService, WriteServiceFails, GetEndpoints, WriteEndpoints,
        WriteEndpointsFails, BeginSweep, SweepService, SweepEndpoints, EndSweep,
        ListEndpoints, CleanupService, CleanupEndpoints, local
  <2>5. InSync(v) \/ fails' = fails
    BY <1>1
    DEF Work, Lock, Unlock, List, CheckAll, ListServices, NextDevice, GraceExceeded,
        GetService, WriteService, WriteServiceFails, GetEndpoints, WriteEndpoints,
        WriteEndpointsFails, BeginSweep, SweepService, SweepEndpoints, EndSweep,
        ListEndpoints, CleanupService, CleanupEndpoints, syncer, InSync
  <2>. QED
    BY <2>1, <2>2, <2>3, <2>4, <2>5 DEF Keeps
<1>2. ASSUME NEW v \in Handlers, Manual(v) PROVE Keeps(w)
  <2>. v \in Worker
    BY DEF Worker
  <2>. QED
    BY <1>2
    DEF Manual, SyncKubernetes, CleanupAllResources, SyncSingleDevice,
        DeleteDeviceResources, Start, syncer, Keeps
<1>3. CASE Tick
  <2>. Loop \in Worker
    BY DEF Worker
  <2>. QED
    BY <1>3 DEF Tick, Start, Keeps
<1>4. CASE TickerReset \/ Stop \/ LoopReturns
  BY <1>4 DEF TickerReset, Stop, LoopReturns, local, Keeps
<1>5. CASE World
  <2>1. CASE Restart
    BY <2>1 DEF Restart
  <2>2. CASE ~Restart
    BY <1>5, <2>2 DEF World, EditTable, ExporterUp, ExporterDown, syncer, local, Keeps
  <2>. QED
    BY <2>1, <2>2
<1>6. ASSUME NEW v \in Worker, Hang(v) PROVE pc'[w] = "hung" \/ Keeps(w)
  BY <1>6 DEF Hang, syncer, local, Keeps
<1>. QED
  BY <1>1, <1>2, <1>3, <1>4, <1>5, <1>6 DEF Next

(* A Sync that begins has the mutex and the table as it is.                *)
LEMMA BeginStep ==
  ASSUME TypeOK, SyncsSerialized, NEW w \in Worker, Begins(w), Next
  PROVE  mutex = w /\ snap'[w] = table' /\ pc'[w] = "list_svc"
PROOF
<1> USE DEF TypeOK, ControlTypes, LocalTypes
<1>1. mutex = w /\ pc'[w] = "list_svc" /\ pc[w] = "list"
  BY DEF Begins, SyncsSerialized, InSync
<1>2. Work(w)
  BY <1>1, OthersKeep DEF Keeps
<1>3. List(w)
  BY <1>1, <1>2
  DEF Work, Lock, Unlock, CheckAll, ListServices, NextDevice, GraceExceeded,
      GetService, WriteService, WriteServiceFails, GetEndpoints, WriteEndpoints,
      WriteEndpointsFails, BeginSweep, SweepService, SweepEndpoints, EndSweep,
      ListEndpoints, CleanupService, CleanupEndpoints
<1>4. snap'[w] = table' /\ table' = table
  <2>1. pc' # [pc EXCEPT ![w] = IF job[w] = "sync" THEN "unlock" ELSE "idle"]
    BY <1>1
  <2>. QED
    BY <1>3, <2>1 DEF List, Leave, Goto
<1>. QED
  BY <1>1, <1>4

(* Reading the table is the only way into the rest of Sync.                *)
LEMMA EntryStep ==
  ASSUME TypeOK, JobsOK, SyncsSerialized, NEW w \in Worker, ~HasRead(w),
         Next, UNCHANGED faults, ~Begins(w)
  PROVE  ~HasRead(w)'
PROOF
<1> USE DEF TypeOK, ControlTypes, LocalTypes, HasRead, AtDevice, AtSweep, Publishing,
    Goto
<1>1. CASE pc[w] # "idle" /\ ~Work(w)
  BY <1>1, OthersKeep DEF Keeps
<1>2. CASE pc[w] # "idle" /\ Work(w)
  <2>1. job' = job
    BY <1>2
    DEF Work, Lock, Unlock, List, CheckAll, ListServices, NextDevice, GraceExceeded,
        GetService, WriteService, WriteServiceFails, GetEndpoints, WriteEndpoints,
        WriteEndpointsFails, BeginSweep, SweepService, SweepEndpoints, EndSweep,
        ListEndpoints, CleanupService, CleanupEndpoints, local
  <2>2. CASE job[w] # "sync"
    BY <2>1, <2>2
  <2>3. CASE job[w] = "sync"
    <3>1. pc[w] \in {"lock", "list"}
      <4>1. pc[w] # "hung"
        BY <1>2
        DEF Work, Lock, Unlock, List, CheckAll, ListServices, NextDevice, GraceExceeded,
            GetService, WriteService, WriteServiceFails, GetEndpoints, WriteEndpoints,
            WriteEndpointsFails, BeginSweep, SweepService, SweepEndpoints, EndSweep,
            ListEndpoints, CleanupService, CleanupEndpoints
      <4>. QED
        BY <4>1, <1>2, <2>3 DEF JobsOK, Label
    <3>2. Lock(w) \/ List(w)
      BY <1>2, <3>1
      DEF Work, Unlock, CheckAll, ListServices, NextDevice, GraceExceeded,
          GetService, WriteService, WriteServiceFails, GetEndpoints, WriteEndpoints,
          WriteEndpointsFails, BeginSweep, SweepService, SweepEndpoints, EndSweep,
          ListEndpoints, CleanupService, CleanupEndpoints
    <3>3. CASE Lock(w)
      BY <3>3 DEF Lock
    <3>4. CASE List(w)
      <4>1. faults' # faults + 1
        BY DEF BoundTypes
      <4>2. pc'[w] = "list_svc"
        BY <3>4, <4>1, <2>3 DEF List, Fault
      <4>. QED
        BY <3>4, <4>2, <2>3 DEF Begins, List
    <3>. QED
      BY <3>2, <3>3, <3>4
  <2>. QED
    BY <2>2, <2>3
<1>3. CASE pc[w] = "idle"
  <2>1. ASSUME NEW v \in Worker, Work(v) PROVE pc'[w] = "idle"
    <3>1. v # w
      BY <1>3, <2>1
      DEF Work, Lock, Unlock, List, CheckAll, ListServices, NextDevice, GraceExceeded,
          GetService, WriteService, WriteServiceFails, GetEndpoints, WriteEndpoints,
          WriteEndpointsFails, BeginSweep, SweepService, SweepEndpoints, EndSweep,
          ListEndpoints, CleanupService, CleanupEndpoints
    <3>. QED
      BY <1>3, <2>1, <3>1
      DEF Work, Lock, Unlock, List, CheckAll, ListServices, NextDevice, GraceExceeded,
          GetService, WriteService, WriteServiceFails, GetEndpoints, WriteEndpoints,
          WriteEndpointsFails, BeginSweep, SweepService, SweepEndpoints, EndSweep,
          ListEndpoints, CleanupService, CleanupEndpoints, Leave, Continue
  <2>2. ASSUME NEW v \in Handlers, Manual(v) PROVE ~HasRead(w)'
    <3>. v \in Worker
      BY DEF Worker
    <3>. QED
      BY <1>3, <2>2
      DEF Manual, SyncKubernetes, CleanupAllResources, SyncSingleDevice,
          DeleteDeviceResources, Start
  <2>3. CASE Tick
    <3>. Loop \in Worker
      BY DEF Worker
    <3>. QED
      BY <1>3, <2>3 DEF Tick, Start
  <2>4. CASE TickerReset \/ Stop \/ LoopReturns
    BY <1>3, <2>4 DEF TickerReset, Stop, LoopReturns
  <2>5. CASE World
    BY <1>3, <2>5 DEF World, EditTable, ExporterUp, ExporterDown, Restart
  <2>6. ASSUME NEW v \in Worker, Hang(v) PROVE FALSE
    BY <2>6 DEF Hang, Fault, BoundTypes
  <2>. QED
    BY <2>1, <2>2, <2>3, <2>4, <2>5, <2>6 DEF Next
<1>. QED
  BY <1>1, <1>2, <1>3

-----------------------------------------------------------------------------
(* What the others do while they leave table, addresses and cluster alone  *)
(* is no concern of a Sync.                                                *)
LEMMA OthersLeaveAlone ==
  ASSUME TypeOK, JobsOK, SyncsSerialized, NEW w \in Worker, LeftAlone(w), HasRead(w),
         Next, ~Work(w), UNCHANGED <<table, alive, cluster>>
  PROVE  LeftAlone(w)'
PROOF
<1>1. pc[w] # "idle" /\ InSync(w)
  BY DEF HasRead, AtDevice, AtSweep, Publishing, InSync
<1>2. CASE pc'[w] \in {"idle", "hung"}
  BY <1>2 DEF LeftAlone, HasRead, AtDevice, AtSweep, Publishing
<1>3. CASE Keeps(w)
  <2>1. HasRead(w)' <=> HasRead(w)
    BY <1>3 DEF HasRead, Keeps
  <2>2. \A d \in Registered(table) : Shown(d)' <=> Shown(d)
    BY <1>1, <1>3 DEF Shown, Keeps, Healthy, cluster
  <2>3. Progress(w) => Progress(w)'
    BY <1>3, <2>2 DEF Progress, Keeps, Registered, Names, cluster
  <2>4. Expects(w) => Expects(w)'
    BY <1>3 DEF Expects, Keeps, Registered, Names, Healthy, cluster
  <2>. QED
    BY <2>1, <2>3, <2>4, <1>3 DEF LeftAlone, Keeps
<1>. QED
  BY <1>1, <1>2, <1>3, OthersKeep

(* A step of the Sync itself that does not fail takes it further.          *)
LEMMA OwnStep ==
  ASSUME TypeOK, NEW w \in Worker, LeftAlone(w), HasRead(w), Work(w),
         UNCHANGED faults, NamesDistinct
  PROVE  LeftAlone(w)'
PROOF
<1> USE DEF TypeOK, SystemTypes, ControlTypes, LocalTypes, Goto
<1> DEFINE labels == {"list_svc", "next", "grace"} \cup AtDevice \cup AtSweep
<1>f. ~Fault
  BY DEF Fault, BoundTypes
<1>r. /\ Registered(table) \subseteq Device /\ Names \subseteq Name
      /\ \A d \in Registered(table) : Lower[d] \in Names
      /\ \A c, d \in Registered(table) : Lower[c] = Lower[d] => c = d
  BY DEF Registered, Name, Names, NamesDistinct
<1>n. table' = table => Registered(table)' = Registered(table) /\ Names' = Names
  BY DEF Registered, Names
<1>j. pc[w] \in labels /\ job[w] = "sync" /\ snap[w] = table
  BY DEF LeftAlone, HasRead
<1>p. pc[w] # "list_svc" => Progress(w) /\ Expects(w)
  BY DEF LeftAlone
<1> USE DEF AtDevice, AtSweep, Publishing
<1>s. ASSUME snap' = snap, table' = table, Progress(w)', Expects(w)'
      PROVE  LeftAlone(w)'
  BY <1>s, <1>j DEF LeftAlone
<1>1. CASE ListServices(w)
  <2>0. /\ snap' = snap /\ table' = table /\ svc' = svc /\ pc'[w] = "next"
        /\ todo'[w] = Registered(table)
        /\ old'[w] = svc \ Names
    BY <1>1, <1>f, <1>j DEF ListServices, cluster, Names
  <2>1. Progress(w)'
    BY <1>n, <2>0 DEF Progress, Registered
  <2>2. Expects(w)'
    BY <1>n, <2>0 DEF Expects
  <2>. QED
    BY <2>0, <2>1, <2>2, <1>s
<1>2. CASE NextDevice(w)
  <2>0. PICK d \in todo[w] :
          /\ todo' = [todo EXCEPT ![w] = @ \ {d}] /\ cur' = [cur EXCEPT ![w] = d]
          /\ fails' = [fails EXCEPT ![d] = Counted(@, Healthy(table, d))]
          /\ pc' = [pc EXCEPT ![w] = IF Healthy(table, d) THEN "svc_get"
                                     ELSE IF fails'[d] >= GraceLimit THEN "grace"
                                     ELSE "next"]
          /\ UNCHANGED <<table, alive, cluster, snap, old>>
    BY <1>2, <1>j DEF NextDevice
  <2>1. Progress(w) /\ Expects(w) /\ d \in Registered(table)
    BY <1>2, <1>p DEF NextDevice, Progress
  <2>2. \A e \in Registered(table) : e # d /\ Shown(e) => Shown(e)'
    BY <2>0, <1>r DEF Shown, Healthy, cluster
  <2>3. pc'[w] = "next" => Shown(d)'
    <3>1. fails'[d] \in Nat
      BY <2>0, <2>1, <1>r, SyncConstants DEF Counted
    <3>. QED
      BY <2>0, <3>1, SyncConstants DEF Shown, Healthy
  <2>4. cur'[w] = d /\ todo'[w] = todo[w] \ {d} /\ pc'[w] \in {"svc_get", "grace", "next"}
    BY <2>0, <2>1, <1>r
  <2>5. Progress(w)'
    BY <1>n, <2>0, <2>1, <2>2, <2>3, <2>4, <1>2 DEF Progress, Registered, cluster, NextDevice
  <2>6. Expects(w)'
    BY <1>n, <2>0, <2>1, <2>4 DEF Expects, Registered, Healthy, cluster
  <2>. QED
    BY <2>0, <2>5, <2>6, <1>s
<1>3. CASE GraceExceeded(w)
  <2>0. /\ cur[w] \in Registered(table) /\ ~Healthy(table, cur[w])
        /\ eps' = [eps EXCEPT ![Lower[cur[w]]] = Absent] /\ pc'[w] = "next"
        /\ UNCHANGED <<table, alive, svc, fails, local>>
    BY <1>3, <1>f, <1>p, <1>r DEF GraceExceeded, Expects, syncer
  <2>1. \A d \in Registered(table) : Shown(d) \/ d = cur[w] => Shown(d)'
    BY <2>0, <1>r DEF Shown, Healthy
  <2>2. Progress(w)'
    BY <1>n, <2>0, <2>1, <1>p, <1>3 DEF Progress, Registered, local, GraceExceeded
  <2>3. Expects(w)'
    BY <1>n, <2>0 DEF Expects
  <2>. QED
    BY <2>0, <2>2, <2>3, <1>s DEF local
<1>4. CASE GetService(w)
  <2>0. /\ cur[w] \in Registered(table) /\ Healthy(table, cur[w])
        /\ pc'[w] = (IF Lower[cur[w]] \in svc THEN "svc_update" ELSE "svc_create")
        /\ UNCHANGED <<table, alive, cluster, fails, local>>
    BY <1>4, <1>f, <1>p, <1>r DEF GetService, Expects, syncer
  <2>1. Progress(w)'
    BY <1>n, <2>0, <1>p, <1>4
    DEF Progress, Shown, Registered, Healthy, cluster, local, GetService
  <2>2. Expects(w)'
    BY <1>n, <2>0 DEF Expects, Registered, Healthy, cluster, local
  <2>. QED
    BY <2>0, <2>1, <2>2, <1>s DEF local
<1>5. CASE WriteService(w)
  <2>0. /\ cur[w] \in Registered(table) /\ Healthy(table, cur[w])
        /\ svc' = svc \cup {Lower[cur[w]]} /\ pc'[w] = "ep_get"
        /\ UNCHANGED <<table, alive, eps, fails, local>>
    BY <1>5, <1>p, <1>r DEF WriteService, Expects, syncer
  <2>1. Progress(w)'
    BY <1>n, <1>r, <2>0, <1>p, <1>5
    DEF Progress, Shown, Registered, Healthy, local, WriteService
  <2>2. Expects(w)'
    BY <1>n, <2>0 DEF Expects, Registered, Healthy, local
  <2>. QED
    BY <2>0, <2>1, <2>2, <1>s DEF local
<1>6. CASE GetEndpoints(w)
  <2>0. /\ cur[w] \in Registered(table) /\ Healthy(table, cur[w]) /\ Lower[cur[w]] \in svc
        /\ pc'[w] = (IF eps[Lower[cur[w]]] # Absent THEN "ep_update" ELSE "ep_create")
        /\ UNCHANGED <<table, alive, cluster, fails, local>>
    BY <1>6, <1>f, <1>p, <1>r DEF GetEndpoints, Expects, syncer
  <2>1. Progress(w)'
    BY <1>n, <2>0, <1>p, <1>6
    DEF Progress, Shown, Registered, Healthy, cluster, local, GetEndpoints
  <2>2. Expects(w)'
    BY <1>n, <2>0 DEF Expects, Registered, Healthy, cluster, local
  <2>. QED
    BY <2>0, <2>1, <2>2, <1>s DEF local
<1>7. CASE WriteEndpoints(w)
  <2>0. /\ cur[w] \in Registered(table) /\ Healthy(table, cur[w]) /\ Lower[cur[w]] \in svc
        /\ eps' = [eps EXCEPT ![Lower[cur[w]]] = table[cur[w]]] /\ pc'[w] = "next"
        /\ UNCHANGED <<table, alive, svc, fails, local>>
    BY <1>7, <1>p, <1>r, <1>j DEF WriteEndpoints, Expects, syncer, Continue
  <2>1. \A d \in Registered(table) : Shown(d) \/ d = cur[w] => Shown(d)'
    BY <2>0, <1>r DEF Shown, Healthy
  <2>2. Progress(w)'
    BY <1>n, <2>0, <2>1, <1>p, <1>7 DEF Progress, Registered, local, WriteEndpoints
  <2>3. Expects(w)'
    BY <1>n, <2>0 DEF Expects
  <2>. QED
    BY <2>0, <2>2, <2>3, <1>s DEF local
<1>8. CASE WriteServiceFails(w) \/ WriteEndpointsFails(w)
  BY <1>8, <1>f, <1>p, <1>r DEF WriteServiceFails, WriteEndpointsFails, Expects
<1>9. CASE BeginSweep(w)
  <2>0. /\ pc'[w] = "sweep" /\ todo[w] = {}
        /\ UNCHANGED <<table, alive, cluster, fails, local>>
    BY <1>9 DEF BeginSweep, syncer
  <2>1. Progress(w)'
    BY <1>n, <2>0, <1>p, <1>9
    DEF Progress, Shown, Registered, Healthy, cluster, local, BeginSweep
  <2>2. Expects(w)'
    BY <1>n, <2>0 DEF Expects, local
  <2>. QED
    BY <2>0, <2>1, <2>2, <1>s DEF local
<1>10. CASE SweepService(w)
  <2>0. PICK n \in old[w] :
          /\ old' = [old EXCEPT ![w] = @ \ {n}] /\ cur' = [cur EXCEPT ![w] = n]
          /\ svc' = svc \ {n} /\ pc'[w] = "sweep_ep"
          /\ UNCHANGED <<table, alive, eps, fails, snap, todo>>
    BY <1>10, <1>f DEF SweepService, syncer
  <2>1. Progress(w) /\ n \in Name \ Names /\ todo[w] = {}
    BY <1>10, <1>p DEF SweepService, Progress, Expects
  <2>2. \A d \in Registered(table) : Shown(d)'
    BY <2>0, <2>1, <1>10, <1>r DEF SweepService, Progress, Shown, Healthy
  <2>3. Progress(w)'
    BY <1>n, <2>0, <2>1, <2>2 DEF Progress, Registered
  <2>4. Expects(w)'
    BY <1>n, <2>0, <2>1, <1>r DEF Expects, Registered
  <2>. QED
    BY <2>0, <2>3, <2>4, <1>s
<1>11. CASE SweepEndpoints(w)
  <2>0. /\ cur[w] \in Name \ Names /\ todo[w] = {} /\ pc'[w] = "sweep"
        /\ eps' = [eps EXCEPT ![cur[w]] = Absent]
        /\ fails' = [fails EXCEPT ![cur[w]] = 0]
        /\ UNCHANGED <<table, alive, svc, local>>
    BY <1>11, <1>f, <1>p, <1>j DEF SweepEndpoints, Expects
  <2>1. \A d \in Registered(table) : Shown(d)'
    <3>1. \A d \in Registered(table) : d # cur[w] /\ Lower[d] # cur[w]
      <4>1. Lower[cur[w]] = cur[w]
        BY <2>0, SyncConstants DEF Name
      <4>. QED
        BY <2>0, <4>1, <1>r
    <3>2. \A d \in Registered(table) : Shown(d)
      BY <2>0, <1>p, <1>11 DEF SweepEndpoints, Progress
    <3>3. \A d \in Registered(table) :
            fails'[d] = fails[d] /\ eps'[Lower[d]] = eps[Lower[d]]
      BY <2>0, <3>1, <1>r DEF Name
    <3>. QED
      BY <2>0, <3>2, <3>3 DEF Shown, Healthy
  <2>2. Progress(w)'
    BY <1>n, <2>0, <2>1, <1>p, <1>11 DEF SweepEndpoints, Progress, Registered, local
  <2>3. Expects(w)'
    BY <1>n, <2>0 DEF Expects, local
  <2>. QED
    BY <2>0, <2>2, <2>3, <1>s DEF local
<1>12. CASE EndSweep(w)
  <2>0. /\ pc'[w] = "unlock" /\ old[w] = {} /\ todo[w] = {}
        /\ UNCHANGED <<table, alive, cluster, fails, local>>
    BY <1>12, <1>p, <1>j DEF EndSweep, Expects, Leave, syncer
  <2>1. Progress(w)'
    BY <1>n, <2>0, <1>p, <1>12
    DEF Progress, Shown, Registered, Healthy, cluster, local, EndSweep
  <2>2. Expects(w)'
    BY <1>n, <2>0 DEF Expects, local
  <2>. QED
    BY <2>0, <2>1, <2>2, <1>s DEF local
<1>13. CASE Unlock(w)
  BY <1>13 DEF Unlock, LeftAlone, HasRead
<1>14. /\ ~Lock(w) /\ ~List(w) /\ ~CheckAll(w)
       /\ ~ListEndpoints(w) /\ ~CleanupService(w) /\ ~CleanupEndpoints(w)
  BY <1>j DEF Lock, List, CheckAll, ListEndpoints, CleanupService, CleanupEndpoints
<1>. QED
  BY <1>1, <1>2, <1>3, <1>4, <1>5, <1>6, <1>7, <1>8, <1>9, <1>10, <1>11, <1>12, <1>13,
     <1>14
  DEF Work

-----------------------------------------------------------------------------
(* Every step keeps what a Sync that nobody disturbs has achieved.         *)
LEMMA QuietStep ==
  ASSUME IInv, QuietInv, [Next /\ Watch]_watchedVars, NamesDistinct
  PROVE  QuietInv'
PROOF
<1>i. TypeOK /\ JobsOK /\ SyncsSerialized
  BY DEF IInv
<1>1. CASE UNCHANGED watchedVars
  BY <1>1
  DEF watchedVars, vars, cluster, syncer, local, history, QuietInv, LeftAlone, HasRead,
      Progress, Expects, Shown, Registered, Healthy, Names
<1>2. CASE Next /\ Watch
  <2>1. CASE \E w \in Worker : Begins(w)
    <3>1. PICK w \in Worker : Begins(w)
      BY <2>1
    <3>2. mutex = w /\ snap'[w] = table' /\ pc'[w] = "list_svc"
      BY <3>1, <1>2, <1>i, BeginStep
    <3>3. quiet' = w
      BY <3>2, <2>1, <1>2 DEF Watch
    <3>. QED
      BY <3>2, <3>3 DEF QuietInv, LeftAlone
  <2>2. CASE ~(\E w \in Worker : Begins(w)) /\ quiet # Absent /\ Undisturbed
    <3>1. PICK w \in Worker : w = quiet
      BY <2>2 DEF QuietInv
    <3>2. quiet' = w /\ LeftAlone(w) /\ ~Begins(w)
      BY <2>2, <3>1, <1>2 DEF Watch, QuietInv
    <3>3. UNCHANGED faults
      BY <2>2 DEF Undisturbed
    <3>4. LeftAlone(w)'
      <4>1. CASE ~HasRead(w)
        BY <4>1, <3>2, <3>3, <1>2, <1>i, EntryStep DEF LeftAlone
      <4>2. CASE HasRead(w) /\ Work(w)
        BY <4>2, <3>2, <3>3, <1>i, OwnStep
      <4>3. CASE HasRead(w) /\ ~Work(w)
        <5>1. UNCHANGED <<table, alive, cluster>>
          BY <4>3, <2>2, <3>1 DEF Undisturbed
        <5>. QED
          BY <4>3, <5>1, <3>2, <1>2, <1>i, OthersLeaveAlone
      <4>. QED
        BY <4>1, <4>2, <4>3
    <3>. QED
      BY <3>2, <3>4 DEF QuietInv, LeftAlone, HasRead, Progress, Expects
  <2>3. CASE ~(\E w \in Worker : Begins(w)) /\ ~(quiet # Absent /\ Undisturbed)
    BY <2>3, <1>2 DEF Watch, QuietInv
  <2>. QED
    BY <2>1, <2>2, <2>3
<1>. QED
  BY <1>1, <1>2

(* A Sync during which no table row, exporter or Kubernetes object is      *)
(* changed by others and no call fails shows every registered device as it *)
(* is and leaves no Service of any other, from whatever state of the       *)
(* cluster it starts, if no two registered ids differ in case only.        *)
THEOREM QuietSyncAlwaysRepairs ==
  WatchedSpec /\ []NamesDistinct => []QuietSyncRepairs
PROOF
<1>1. WatchedSpec => /\ Init /\ [][Next]_vars
                     /\ quiet = Absent /\ [][Next /\ Watch]_watchedVars
  <2>1. [Next /\ Watch]_watchedVars => [Next]_vars
    BY DEF watchedVars
  <2>. QED
    BY <2>1, PTL DEF WatchedSpec
<1>2. quiet = Absent => QuietInv
  BY DEF QuietInv
<1>3. IInv /\ QuietInv /\ NamesDistinct /\ [Next /\ Watch]_watchedVars => QuietInv'
  BY QuietStep
<1>4. IInv /\ QuietInv => QuietSyncRepairs
  <2> SUFFICES ASSUME IInv, QuietInv, NEW w \in Worker, quiet = w, pc[w] = "unlock"
               PROVE  /\ \A d \in Registered(table) : Shown(d)
                      /\ \A n \in svc : \E d \in Registered(table) : Lower[d] = n
    BY DEF QuietSyncRepairs
  <2>1. HasRead(w)
    BY DEF IInv, JobsOK, HasRead, AtSweep
  <2>2. Progress(w) /\ Expects(w) /\ old[w] = {} /\ todo[w] = {}
    BY <2>1, SyncConstants DEF QuietInv, LeftAlone, Expects, AtSweep
  <2>3. \A d \in Registered(table) : Shown(d)
    BY <2>2 DEF Progress, AtDevice, Publishing
  <2>4. svc \subseteq Names
    BY <2>2 DEF Progress
  <2>. QED
    BY <2>3, <2>4 DEF Names
<1>. QED
  BY <1>1, <1>2, <1>3, <1>4, Invariance, PTL DEF Spec

=============================================================================
