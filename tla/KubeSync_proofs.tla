--------------------------- MODULE KubeSync_proofs ---------------------------
(* Proofs about KubeSync for any devices, addresses, handlers and bounds.  *)
EXTENDS KubeSync, TLAPS

Publishing == {"svc_get", "svc_create", "svc_update",
               "ep_get", "ep_create", "ep_update"}

Vouched(w, d) == snap[w][d] \in verified[Lower[d]]

(* Whatever a worker is about to publish has been checked, in whichever    *)
(* job.  SyncDevices and SyncSingleDevice check long before they publish:  *)
(* what they keep in the snapshot was checked.                             *)
CheckedAt(w) ==
  /\ pc[w] \in Publishing => cur[w] \in Device /\ Vouched(w, cur[w])
  /\ pc[w] = "check_all" =>
       \A d \in Device \ todo[w] :
         snap[w][d] # Absent /\ (job[w] = "direct" \/ d = cur[w]) => Vouched(w, d)
  /\ job[w] = "direct" /\ pc[w] \in Publishing \cup {"list_svc", "next"} =>
       \A d \in Device : snap[w][d] # Absent => Vouched(w, d)
  /\ job[w] = "direct" /\ pc[w] \in Publishing \cup {"next"} =>
       \A d \in todo[w] : snap[w][d] # Absent

Checked == \A w \in Worker : CheckedAt(w)

(* Some places belong to some jobs only.                                   *)
JobsOK ==
  \A w \in Worker :
    /\ pc[w] \in {"lock", "unlock", "grace"} => job[w] = "sync"
    /\ pc[w] = "list" => job[w] \in {"sync", "direct", "single"}
    /\ pc[w] = "check_all" => job[w] \in {"direct", "single"}
    /\ pc[w] \in {"list_ep", "cleanup_svc", "cleanup_ep"} => job[w] = "cleanup"

(* The Syncer never counts more failures than there were.                  *)
CountsHonest == \A d \in Device : fails[d] <= streak[d]

IInv ==
  /\ TypeOK /\ JobsOK /\ SyncsSerialized
  /\ Checked /\ PublishedWasHealthy
  /\ CountsHonest /\ GraceRespected

-----------------------------------------------------------------------------
(* A check only adds to what has been verified.                            *)
VerifiedGrows == \A n \in Name : verified[n] \subseteq verified'[n]

Unmoved(v) ==
  /\ pc'[v] = pc[v] /\ job'[v] = job[v] /\ snap'[v] = snap[v]
  /\ todo'[v] = todo[v] /\ cur'[v] = cur[v]

LEMMA RegisteredAreDevices == \A s : Registered(s) \subseteq Device
PROOF
  BY DEF Registered

LEMMA VerifyAdds ==
  ASSUME TypeOK, NEW w \in Worker, NEW d \in Device, Verify(w, d)
  PROVE  /\ verified' \in [Name -> SUBSET IP]
         /\ VerifiedGrows
         /\ snap[w][d] \in alive => snap[w][d] \in verified'[Lower[d]]
PROOF
<1> DEFINE seen == {snap[w][d]} \cap alive
<1>1. Lower[d] \in Name
  BY DEF Name
<1>2. seen \subseteq IP /\ verified \in [Name -> SUBSET IP]
  BY DEF TypeOK, SystemTypes, BoundTypes
<1>3. verified' = [verified EXCEPT ![Lower[d]] = @ \cup seen]
  BY DEF Verify
<1>4. snap[w][d] \in alive => snap[w][d] \in seen
  OBVIOUS
<1> HIDE DEF seen
<1>. QED
  BY <1>1, <1>2, <1>3, <1>4 DEF VerifiedGrows

(* What others verify does not disturb a worker that does not move.        *)
LEMMA OthersStayChecked ==
  ASSUME TypeOK, NEW v \in Worker, CheckedAt(v), Unmoved(v), VerifiedGrows
  PROVE  CheckedAt(v)'
PROOF
<1> USE SyncConstants DEF TypeOK, ControlTypes, LocalTypes, BoundTypes, Name
<1>1. \A d \in Device : Vouched(v, d) => Vouched(v, d)'
  BY DEF Vouched, Unmoved, VerifiedGrows
<1>. QED
  BY <1>1 DEF CheckedAt, Unmoved

(* What a request that is never answered may have written.                 *)
LEMMA HungWrites ==
  ASSUME TypeOK, Checked, NEW w \in Worker, UNCHANGED cluster \/ Executed(w)
  PROVE  /\ svc' \subseteq Name
         /\ eps' \in [Name -> IP \cup {Absent}]
         /\ \A n \in Name : eps'[n] \in verified[n] \cup {eps[n], Absent}
PROOF
<1> USE SyncConstants DEF TypeOK, SystemTypes, ControlTypes, LocalTypes, BoundTypes
<1>c. pc[w] \in Publishing => /\ cur[w] \in Device /\ Lower[cur[w]] \in Name
                             /\ snap[w][cur[w]] \in verified[Lower[cur[w]]]
  BY DEF Checked, CheckedAt, Vouched, Name
<1>v. \A n \in Name : verified[n] \subseteq IP
  OBVIOUS
<1>1. CASE UNCHANGED cluster
  BY <1>1 DEF cluster
<1>2. CASE /\ pc[w] \in {"svc_create", "svc_update"}
           /\ svc' = svc \cup {Lower[cur[w]]}
           /\ UNCHANGED eps
  BY <1>2, <1>c DEF Publishing
<1>3. CASE (\E n \in old[w] : svc' = svc \ {n}) /\ UNCHANGED eps
  BY <1>3
<1>4. CASE /\ pc[w] \in {"ep_create", "ep_update"}
           /\ eps' = [eps EXCEPT ![Lower[cur[w]]] = snap[w][cur[w]]]
           /\ UNCHANGED svc
  BY <1>4, <1>c, <1>v DEF Publishing
<1>5. CASE (\E n \in Name : eps' = [eps EXCEPT ![n] = Absent]) /\ UNCHANGED svc
  BY <1>5
<1>. QED
  BY <1>1, <1>2, <1>3, <1>4, <1>5 DEF Executed

-----------------------------------------------------------------------------

(* Each step keeps the types; WriteEndpoints because what it writes was    *)
(* checked, hence is an address.                                           *)
LEMMA TypeStep ==
  ASSUME TypeOK, Checked, [Next]_vars
  PROVE  TypeOK'
PROOF
<1> USE SyncConstants DEF TypeOK, Row, Name, Job, Label, Worker
<1>1. CASE Tick
  BY <1>1
  DEF Tick, Start, Goto, cluster, history, SystemTypes, ControlTypes, LocalTypes,
      BoundTypes
<1>2. CASE TickerReset
  BY <1>2
  DEF TickerReset, cluster, local, history, SystemTypes, ControlTypes, LocalTypes,
      BoundTypes
<1>3. CASE Stop
  BY <1>3
  DEF Stop, cluster, local, history, SystemTypes, ControlTypes, LocalTypes,
      BoundTypes
<1>4. CASE LoopReturns
  BY <1>4
  DEF LoopReturns, cluster, local, history, SystemTypes, ControlTypes, LocalTypes,
      BoundTypes
<1>5. ASSUME NEW w \in Handlers, SyncKubernetes(w) PROVE TypeOK'
  <2>1. SystemTypes'
    BY <1>5
    DEF SyncKubernetes, Start, Goto, cluster, history, SystemTypes, LocalTypes
  <2>2. ControlTypes'
    BY <1>5 DEF SyncKubernetes, Start, Goto, cluster, history, ControlTypes
  <2>3. LocalTypes'
    BY <1>5
    DEF SyncKubernetes, Start, Goto, cluster, history, LocalTypes, SystemTypes
  <2>4. BoundTypes'
    BY <1>5 DEF SyncKubernetes, Start, Goto, cluster, history, BoundTypes
  <2>. QED
    BY <2>1, <2>2, <2>3, <2>4
<1>6. ASSUME NEW w \in Worker, Lock(w) PROVE TypeOK'
  BY <1>6
  DEF Lock, Goto, cluster, local, history, SystemTypes, ControlTypes, LocalTypes,
      BoundTypes
<1>7. ASSUME NEW w \in Worker, Unlock(w) PROVE TypeOK'
  BY <1>7
  DEF Unlock, Goto, cluster, local, history, SystemTypes, ControlTypes, LocalTypes,
      BoundTypes
<1>8. ASSUME NEW w \in Worker, List(w) PROVE TypeOK'
  <2>1. SystemTypes'
    BY <1>8
    DEF List, Goto, Fault, Leave, cluster, syncer, history, SystemTypes, LocalTypes
  <2>2. ControlTypes'
    BY <1>8 DEF List, Goto, Fault, Leave, cluster, syncer, history, ControlTypes
  <2>3. LocalTypes'
    BY <1>8, RegisteredAreDevices
    DEF List, Goto, Fault, Leave, cluster, syncer, history, LocalTypes, SystemTypes
  <2>4. BoundTypes'
    BY <1>8 DEF List, Goto, Fault, Leave, cluster, syncer, history, BoundTypes
  <2>. QED
    BY <2>1, <2>2, <2>3, <2>4
<1>9. ASSUME NEW w \in Worker, CheckAll(w) PROVE TypeOK'
  <2>1. SystemTypes'
    BY <1>9
    DEF CheckAll, Goto, Verify, Healthy, cluster, syncer, SystemTypes, LocalTypes
  <2>2. ControlTypes'
    BY <1>9 DEF CheckAll, Goto, Verify, Healthy, cluster, syncer, ControlTypes
  <2>3. LocalTypes'
    <3>1. /\ todo' = todo \/ \E d \in todo[w] : todo' = [todo EXCEPT ![w] = @ \ {d}]
          /\ snap' = snap \/ \E d \in todo[w] : snap' = [snap EXCEPT ![w][d] = Absent]
          /\ UNCHANGED <<old, cur>>
      BY <1>9 DEF CheckAll
    <3>2. todo' \in [Worker -> SUBSET Device]
      BY <3>1 DEF LocalTypes
    <3>3. snap' \in [Worker -> [Device -> Row]]
      BY <3>1 DEF LocalTypes
    <3>. QED
      BY <3>1, <3>2, <3>3 DEF LocalTypes
  <2>4. BoundTypes'
    <3>1. verified' \in [Name -> SUBSET IP]
      BY <1>9, VerifyAdds DEF CheckAll, LocalTypes, BoundTypes
    <3>. QED
      BY <1>9, <3>1 DEF CheckAll, BoundTypes
  <2>. QED
    BY <2>1, <2>2, <2>3, <2>4
<1>10. ASSUME NEW w \in Worker, ListServices(w) PROVE TypeOK'
  <2>1. SystemTypes'
    BY <1>10
    DEF ListServices, Goto, Fault, Leave, cluster, syncer, history, SystemTypes,
        LocalTypes
  <2>2. ControlTypes'
    BY <1>10
    DEF ListServices, Goto, Fault, Leave, cluster, syncer, history, ControlTypes
  <2>3. LocalTypes'
    BY <1>10, RegisteredAreDevices
    DEF ListServices, Goto, Fault, Leave, cluster, syncer, history, LocalTypes,
        SystemTypes
  <2>4. BoundTypes'
    BY <1>10
    DEF ListServices, Goto, Fault, Leave, cluster, syncer, history, BoundTypes
  <2>. QED
    BY <2>1, <2>2, <2>3, <2>4
<1>11. ASSUME NEW w \in Worker, NextDevice(w) PROVE TypeOK'
  <2>1. fails' \in [Device -> 0..GraceLimit]
    BY <1>11
    DEF NextDevice, Goto, Streak, Counted, Healthy, cluster, history, Verify,
        SystemTypes
  <2>2. SystemTypes'
    BY <1>11, <2>1
    DEF NextDevice, Goto, Streak, Counted, Healthy, cluster, history, Verify,
        SystemTypes, LocalTypes
  <2>3. ControlTypes'
    BY <1>11
    DEF NextDevice, Goto, Streak, Counted, Healthy, cluster, history, Verify,
        ControlTypes
  <2>4. LocalTypes'
    BY <1>11
    DEF NextDevice, Goto, Streak, Counted, Healthy, cluster, history, Verify,
        LocalTypes, SystemTypes
  <2>5. BoundTypes'
    BY <1>11, SMTT(20)
    DEF NextDevice, Goto, Streak, Counted, Healthy, cluster, history, Verify,
        BoundTypes, SystemTypes, LocalTypes
  <2>. QED
    BY <2>1, <2>2, <2>3, <2>4, <2>5
<1>12. ASSUME NEW w \in Worker, GraceExceeded(w) PROVE TypeOK'
  BY <1>12
  DEF GraceExceeded, Goto, Fault, syncer, local, history, SystemTypes, ControlTypes,
      LocalTypes, BoundTypes
<1>13. ASSUME NEW w \in Worker, GetService(w) PROVE TypeOK'
  <2>1. SystemTypes'
    BY <1>13
    DEF GetService, Goto, Fault, Continue, cluster, syncer, local, history,
        SystemTypes, LocalTypes
  <2>2. ControlTypes'
    BY <1>13
    DEF GetService, Goto, Fault, Continue, cluster, syncer, local, history,
        ControlTypes
  <2>3. LocalTypes'
    BY <1>13
    DEF GetService, Goto, Fault, Continue, cluster, syncer, local, history,
        LocalTypes, SystemTypes
  <2>4. BoundTypes'
    BY <1>13
    DEF GetService, Goto, Fault, Continue, cluster, syncer, local, history,
        BoundTypes
  <2>. QED
    BY <2>1, <2>2, <2>3, <2>4
<1>14. ASSUME NEW w \in Worker, WriteService(w) PROVE TypeOK'
  <2>1. SystemTypes'
    <3>1. cur[w] \in Device
      BY <1>14 DEF WriteService, Checked, CheckedAt, Publishing
    <3>. QED
      BY <1>14, <3>1 DEF WriteService, syncer, SystemTypes
  <2>2. ControlTypes'
    BY <1>14 DEF WriteService, Goto, syncer, local, history, ControlTypes
  <2>3. LocalTypes'
    BY <1>14 DEF WriteService, Goto, syncer, local, history, LocalTypes, SystemTypes
  <2>4. BoundTypes'
    BY <1>14 DEF WriteService, Goto, syncer, local, history, BoundTypes
  <2>. QED
    BY <2>1, <2>2, <2>3, <2>4
<1>15. ASSUME NEW w \in Worker, WriteServiceFails(w) PROVE TypeOK'
  <2>1. SystemTypes'
    BY <1>15
    DEF WriteServiceFails, Fault, Continue, cluster, syncer, local, history, Goto,
        SystemTypes, LocalTypes
  <2>2. ControlTypes'
    BY <1>15
    DEF WriteServiceFails, Fault, Continue, cluster, syncer, local, history, Goto,
        ControlTypes
  <2>3. LocalTypes'
    BY <1>15
    DEF WriteServiceFails, Fault, Continue, cluster, syncer, local, history, Goto,
        LocalTypes, SystemTypes
  <2>4. BoundTypes'
    BY <1>15
    DEF WriteServiceFails, Fault, Continue, cluster, syncer, local, history, Goto,
        BoundTypes
  <2>. QED
    BY <2>1, <2>2, <2>3, <2>4
<1>16. ASSUME NEW w \in Worker, GetEndpoints(w) PROVE TypeOK'
  <2>1. SystemTypes'
    BY <1>16
    DEF GetEndpoints, Goto, Fault, Continue, cluster, syncer, local, history,
        SystemTypes, LocalTypes
  <2>2. ControlTypes'
    BY <1>16
    DEF GetEndpoints, Goto, Fault, Continue, cluster, syncer, local, history,
        ControlTypes
  <2>3. LocalTypes'
    BY <1>16
    DEF GetEndpoints, Goto, Fault, Continue, cluster, syncer, local, history,
        LocalTypes, SystemTypes
  <2>4. BoundTypes'
    BY <1>16
    DEF GetEndpoints, Goto, Fault, Continue, cluster, syncer, local, history,
        BoundTypes
  <2>. QED
    BY <2>1, <2>2, <2>3, <2>4
<1>17. ASSUME NEW w \in Worker, WriteEndpoints(w) PROVE TypeOK'
  BY <1>17
  DEF WriteEndpoints, Continue, syncer, local, history, Goto, SystemTypes,
      ControlTypes, LocalTypes, BoundTypes, Checked, CheckedAt, Vouched, Publishing
<1>18. ASSUME NEW w \in Worker, WriteEndpointsFails(w) PROVE TypeOK'
  <2>1. SystemTypes'
    BY <1>18
    DEF WriteEndpointsFails, Fault, Continue, cluster, syncer, local, history, Goto,
        SystemTypes, LocalTypes
  <2>2. ControlTypes'
    BY <1>18
    DEF WriteEndpointsFails, Fault, Continue, cluster, syncer, local, history, Goto,
        ControlTypes
  <2>3. LocalTypes'
    BY <1>18
    DEF WriteEndpointsFails, Fault, Continue, cluster, syncer, local, history, Goto,
        LocalTypes, SystemTypes
  <2>4. BoundTypes'
    BY <1>18
    DEF WriteEndpointsFails, Fault, Continue, cluster, syncer, local, history, Goto,
        BoundTypes
  <2>. QED
    BY <2>1, <2>2, <2>3, <2>4
<1>19. ASSUME NEW w \in Worker, BeginSweep(w) PROVE TypeOK'
  BY <1>19
  DEF BeginSweep, Goto, cluster, syncer, local, history, SystemTypes, ControlTypes,
      LocalTypes, BoundTypes
<1>20. ASSUME NEW w \in Worker, SweepService(w) PROVE TypeOK'
  <2>1. SystemTypes'
    BY <1>20 DEF SweepService, Goto, Fault, syncer, history, SystemTypes, LocalTypes
  <2>2. ControlTypes'
    BY <1>20 DEF SweepService, Goto, Fault, syncer, history, ControlTypes
  <2>3. LocalTypes'
    BY <1>20 DEF SweepService, Goto, Fault, syncer, history, LocalTypes, SystemTypes
  <2>4. BoundTypes'
    BY <1>20 DEF SweepService, Goto, Fault, syncer, history, BoundTypes
  <2>. QED
    BY <2>1, <2>2, <2>3, <2>4
<1>21. ASSUME NEW w \in Worker, SweepEndpoints(w) PROVE TypeOK'
  <2>1. fails' \in [Device -> 0..GraceLimit]
    <3>1. 0 \in 0..GraceLimit /\ fails \in [Device -> 0..GraceLimit]
      BY DEF SystemTypes
    <3>2. [fails EXCEPT ![cur[w]] = 0] \in [Device -> 0..GraceLimit]
      BY <3>1
    <3>. QED
      BY <1>21, <3>1, <3>2 DEF SweepEndpoints
  <2>2. SystemTypes'
    BY <1>21, <2>1
    DEF SweepEndpoints, Goto, Fault, local, history, SystemTypes, LocalTypes
  <2>3. ControlTypes'
    BY <1>21 DEF SweepEndpoints, Goto, Fault, local, history, ControlTypes
  <2>4. LocalTypes'
    BY <1>21
    DEF SweepEndpoints, Goto, Fault, local, history, LocalTypes, SystemTypes
  <2>5. BoundTypes'
    BY <1>21 DEF SweepEndpoints, Goto, Fault, local, history, BoundTypes
  <2>. QED
    BY <2>1, <2>2, <2>3, <2>4, <2>5
<1>22. ASSUME NEW w \in Worker, EndSweep(w) PROVE TypeOK'
  BY <1>22
  DEF EndSweep, Leave, cluster, syncer, local, history, Goto, SystemTypes,
      ControlTypes, LocalTypes, BoundTypes
<1>23. ASSUME NEW w \in Handlers, NEW d \in Device, SyncSingleDevice(w, d) PROVE TypeOK'
  BY <1>23
  DEF SyncSingleDevice, Start, Event, Goto, cluster, history, SystemTypes,
      ControlTypes, LocalTypes, BoundTypes
<1>24. ASSUME NEW w \in Handlers, NEW d \in Device, DeleteDeviceResources(w, d) PROVE TypeOK'
  BY <1>24
  DEF DeleteDeviceResources, Goto, Event, cluster, syncer, history, SystemTypes,
      ControlTypes, LocalTypes, BoundTypes
<1>25. ASSUME NEW w \in Handlers, CleanupAllResources(w) PROVE TypeOK'
  BY <1>25
  DEF CleanupAllResources, Start, Event, Goto, cluster, history, SystemTypes,
      ControlTypes, LocalTypes, BoundTypes
<1>26. ASSUME NEW w \in Worker, ListEndpoints(w) PROVE TypeOK'
  <2>1. SystemTypes'
    BY <1>26
    DEF ListEndpoints, Goto, Fault, cluster, syncer, history, SystemTypes,
        LocalTypes
  <2>2. ControlTypes'
    BY <1>26 DEF ListEndpoints, Goto, Fault, cluster, syncer, history, ControlTypes
  <2>3. LocalTypes'
    BY <1>26
    DEF ListEndpoints, Goto, Fault, cluster, syncer, history, LocalTypes,
        SystemTypes
  <2>4. BoundTypes'
    BY <1>26 DEF ListEndpoints, Goto, Fault, cluster, syncer, history, BoundTypes
  <2>. QED
    BY <2>1, <2>2, <2>3, <2>4
<1>27. ASSUME NEW w \in Worker, CleanupService(w) PROVE TypeOK'
  <2>1. SystemTypes'
    BY <1>27
    DEF CleanupService, Goto, Fault, syncer, history, SystemTypes, LocalTypes
  <2>2. ControlTypes'
    BY <1>27 DEF CleanupService, Goto, Fault, syncer, history, ControlTypes
  <2>3. LocalTypes'
    BY <1>27
    DEF CleanupService, Goto, Fault, syncer, history, LocalTypes, SystemTypes
  <2>4. BoundTypes'
    BY <1>27 DEF CleanupService, Goto, Fault, syncer, history, BoundTypes
  <2>. QED
    BY <2>1, <2>2, <2>3, <2>4
<1>28. ASSUME NEW w \in Worker, CleanupEndpoints(w) PROVE TypeOK'
  <2>1. SystemTypes'
    BY <1>28
    DEF CleanupEndpoints, Goto, Fault, syncer, history, SystemTypes, LocalTypes
  <2>2. ControlTypes'
    BY <1>28 DEF CleanupEndpoints, Goto, Fault, syncer, history, ControlTypes
  <2>3. LocalTypes'
    <3>1. todo' = todo \/ \E n \in todo[w] : todo' = [todo EXCEPT ![w] = @ \ {n}]
      BY <1>28 DEF CleanupEndpoints
    <3>2. todo' \in [Worker -> SUBSET Device]
      BY <3>1 DEF LocalTypes
    <3>. QED
      BY <1>28, <3>2 DEF CleanupEndpoints, LocalTypes
  <2>4. BoundTypes'
    BY <1>28 DEF CleanupEndpoints, Goto, Fault, syncer, history, BoundTypes
  <2>. QED
    BY <2>1, <2>2, <2>3, <2>4
<1>29. ASSUME NEW d \in Device, NEW row \in Row, EditTable(d, row) PROVE TypeOK'
  BY <1>29
  DEF EditTable, Event, cluster, syncer, local, history, SystemTypes, ControlTypes,
      LocalTypes, BoundTypes
<1>30. ASSUME NEW ip \in IP, ExporterUp(ip) PROVE TypeOK'
  BY <1>30
  DEF ExporterUp, Event, cluster, syncer, local, history, SystemTypes, ControlTypes,
      LocalTypes, BoundTypes
<1>31. ASSUME NEW ip \in IP, ExporterDown(ip) PROVE TypeOK'
  BY <1>31
  DEF ExporterDown, Event, cluster, syncer, local, history, SystemTypes,
      ControlTypes, LocalTypes, BoundTypes
<1>32. CASE Restart
  <2>1. fails' \in [Device -> 0..GraceLimit]
    BY <1>32 DEF Restart, Event, cluster, history, SystemTypes
  <2>2. SystemTypes'
    BY <1>32, <2>1 DEF Restart, Event, cluster, history, SystemTypes, LocalTypes
  <2>3. ControlTypes'
    BY <1>32 DEF Restart, Event, cluster, history, ControlTypes
  <2>4. LocalTypes'
    BY <1>32 DEF Restart, Event, cluster, history, LocalTypes, SystemTypes
  <2>5. BoundTypes'
    BY <1>32 DEF Restart, Event, cluster, history, BoundTypes
  <2>. QED
    BY <2>1, <2>2, <2>3, <2>4, <2>5
<1>33. CASE UNCHANGED vars
  BY <1>33 DEF vars, cluster, syncer, local, history, SystemTypes, ControlTypes,
               LocalTypes, BoundTypes
<1>34. ASSUME NEW w \in Worker, Hang(w) PROVE TypeOK'
  <2>1. SystemTypes'
    <3>1. svc' \subseteq Name /\ eps' \in [Name -> IP \cup {Absent}]
      BY <1>34, HungWrites DEF Hang, Name
    <3>. QED
      BY <1>34, <3>1 DEF Hang, syncer, SystemTypes
  <2>2. ControlTypes'
    BY <1>34 DEF Hang, Goto, local, ControlTypes
  <2>3. LocalTypes'
    BY <1>34 DEF Hang, local, LocalTypes
  <2>4. BoundTypes'
    BY <1>34 DEF Hang, Fault, history, BoundTypes
  <2>. QED
    BY <2>1, <2>2, <2>3, <2>4
<1>. QED
  BY <1>1, <1>2, <1>3, <1>4, <1>5, <1>6, <1>7, <1>8, <1>9, <1>10, <1>11, <1>12,
      <1>13, <1>14, <1>15, <1>16, <1>17, <1>18, <1>19, <1>20, <1>21, <1>22, <1>23,
      <1>24, <1>25, <1>26, <1>27, <1>28, <1>29, <1>30, <1>31, <1>32, <1>33, <1>34
  DEF Next, Work, Manual, World

(* Each step keeps Sync and the mutex together.                            *)
LEMMA LockStep ==
  ASSUME TypeOK, JobsOK, SyncsSerialized, [Next]_vars
  PROVE  (JobsOK /\ SyncsSerialized)'
PROOF
<1> USE SyncConstants DEF TypeOK, ControlTypes, JobsOK, SyncsSerialized, InSync, Worker,
    Label, Job
<1>1. CASE Tick
  BY <1>1 DEF Tick, Start, Goto, cluster, history
<1>2. CASE TickerReset
  BY <1>2 DEF TickerReset, cluster, local, history
<1>3. CASE Stop
  BY <1>3 DEF Stop, cluster, local, history
<1>4. CASE LoopReturns
  BY <1>4 DEF LoopReturns, cluster, local, history
<1>5. ASSUME NEW w \in Handlers, SyncKubernetes(w) PROVE (JobsOK /\ SyncsSerialized)'
  BY <1>5 DEF SyncKubernetes, Start, Goto, cluster, history
<1>6. ASSUME NEW w \in Worker, Lock(w) PROVE (JobsOK /\ SyncsSerialized)'
  BY <1>6 DEF Lock, Goto, cluster, local, history
<1>7. ASSUME NEW w \in Worker, Unlock(w) PROVE (JobsOK /\ SyncsSerialized)'
  BY <1>7 DEF Unlock, Goto, cluster, local, history
<1>8. ASSUME NEW w \in Worker, List(w) PROVE (JobsOK /\ SyncsSerialized)'
  <2>1. job' = job /\ mutex' = mutex /\ pc[w] = "list"
    BY <1>8 DEF List, syncer
  <2>2. \/ Goto(w, IF job[w] = "sync" THEN "list_svc" ELSE "check_all")
        \/ Goto(w, IF job[w] = "sync" THEN "unlock" ELSE "idle")
    BY <1>8 DEF List, Leave
  <2>3. pc[w] = "list" => job[w] \in {"sync", "direct", "single"}
    BY DEF JobsOK
  <2>. QED
    BY <2>1, <2>2, <2>3 DEF Goto
<1>9. ASSUME NEW w \in Worker, CheckAll(w) PROVE (JobsOK /\ SyncsSerialized)'
  BY <1>9 DEF CheckAll, Goto, Verify, Healthy, cluster, syncer
<1>10. ASSUME NEW w \in Worker, ListServices(w) PROVE (JobsOK /\ SyncsSerialized)'
  BY <1>10 DEF ListServices, Goto, Fault, Leave, cluster, syncer, history
<1>11. ASSUME NEW w \in Worker, NextDevice(w) PROVE (JobsOK /\ SyncsSerialized)'
  BY <1>11 DEF NextDevice, Goto, Streak, Counted, Healthy, cluster, history, Verify
<1>12. ASSUME NEW w \in Worker, GraceExceeded(w) PROVE (JobsOK /\ SyncsSerialized)'
  BY <1>12 DEF GraceExceeded, Goto, Fault, syncer, local, history
<1>13. ASSUME NEW w \in Worker, GetService(w) PROVE (JobsOK /\ SyncsSerialized)'
  BY <1>13 DEF GetService, Goto, Fault, Continue, cluster, syncer, local, history
<1>14. ASSUME NEW w \in Worker, WriteService(w) PROVE (JobsOK /\ SyncsSerialized)'
  BY <1>14 DEF WriteService, Goto, syncer, local, history
<1>15. ASSUME NEW w \in Worker, WriteServiceFails(w) PROVE (JobsOK /\ SyncsSerialized)'
  BY <1>15
  DEF WriteServiceFails, Fault, Continue, cluster, syncer, local, history, Goto
<1>16. ASSUME NEW w \in Worker, GetEndpoints(w) PROVE (JobsOK /\ SyncsSerialized)'
  BY <1>16 DEF GetEndpoints, Goto, Fault, Continue, cluster, syncer, local, history
<1>17. ASSUME NEW w \in Worker, WriteEndpoints(w) PROVE (JobsOK /\ SyncsSerialized)'
  BY <1>17 DEF WriteEndpoints, Continue, syncer, local, history, Goto
<1>18. ASSUME NEW w \in Worker, WriteEndpointsFails(w) PROVE (JobsOK /\ SyncsSerialized)'
  BY <1>18
  DEF WriteEndpointsFails, Fault, Continue, cluster, syncer, local, history, Goto
<1>19. ASSUME NEW w \in Worker, BeginSweep(w) PROVE (JobsOK /\ SyncsSerialized)'
  BY <1>19 DEF BeginSweep, Goto, cluster, syncer, local, history
<1>20. ASSUME NEW w \in Worker, SweepService(w) PROVE (JobsOK /\ SyncsSerialized)'
  BY <1>20 DEF SweepService, Goto, Fault, syncer, history
<1>21. ASSUME NEW w \in Worker, SweepEndpoints(w) PROVE (JobsOK /\ SyncsSerialized)'
  BY <1>21 DEF SweepEndpoints, Goto, Fault, local, history
<1>22. ASSUME NEW w \in Worker, EndSweep(w) PROVE (JobsOK /\ SyncsSerialized)'
  BY <1>22 DEF EndSweep, Leave, cluster, syncer, local, history, Goto
<1>23. ASSUME NEW w \in Handlers, NEW d \in Device, SyncSingleDevice(w, d) PROVE (JobsOK /\ SyncsSerialized)'
  BY <1>23 DEF SyncSingleDevice, Start, Event, Goto, cluster, history
<1>24. ASSUME NEW w \in Handlers, NEW d \in Device, DeleteDeviceResources(w, d) PROVE (JobsOK /\ SyncsSerialized)'
  BY <1>24 DEF DeleteDeviceResources, Goto, Event, cluster, syncer, history
<1>25. ASSUME NEW w \in Handlers, CleanupAllResources(w) PROVE (JobsOK /\ SyncsSerialized)'
  BY <1>25 DEF CleanupAllResources, Start, Event, Goto, cluster, history
<1>26. ASSUME NEW w \in Worker, ListEndpoints(w) PROVE (JobsOK /\ SyncsSerialized)'
  BY <1>26 DEF ListEndpoints, Goto, Fault, cluster, syncer, history
<1>27. ASSUME NEW w \in Worker, CleanupService(w) PROVE (JobsOK /\ SyncsSerialized)'
  BY <1>27 DEF CleanupService, Goto, Fault, syncer, history
<1>28. ASSUME NEW w \in Worker, CleanupEndpoints(w) PROVE (JobsOK /\ SyncsSerialized)'
  BY <1>28 DEF CleanupEndpoints, Goto, Fault, syncer, history
<1>29. ASSUME NEW d \in Device, NEW row \in Row, EditTable(d, row) PROVE (JobsOK /\ SyncsSerialized)'
  BY <1>29 DEF EditTable, Event, cluster, syncer, local, history
<1>30. ASSUME NEW ip \in IP, ExporterUp(ip) PROVE (JobsOK /\ SyncsSerialized)'
  BY <1>30 DEF ExporterUp, Event, cluster, syncer, local, history
<1>31. ASSUME NEW ip \in IP, ExporterDown(ip) PROVE (JobsOK /\ SyncsSerialized)'
  BY <1>31 DEF ExporterDown, Event, cluster, syncer, local, history
<1>32. CASE Restart
  BY <1>32 DEF Restart, Event, cluster, history
<1>33. CASE UNCHANGED vars
  BY <1>33 DEF vars, cluster, syncer, local, history
<1>34. ASSUME NEW w \in Worker, Hang(w) PROVE (JobsOK /\ SyncsSerialized)'
  <2>1. job' = job /\ mutex' = mutex /\ pc' = [pc EXCEPT ![w] = "hung"]
    BY <1>34 DEF Hang, Goto, local, syncer
  <2>2. pc[w] \notin {"idle", "lock"}
    BY <1>34 DEF Hang, Requesting
  <2>. QED
    BY <2>1, <2>2
<1>. QED
  BY <1>1, <1>2, <1>3, <1>4, <1>5, <1>6, <1>7, <1>8, <1>9, <1>10, <1>11, <1>12,
      <1>13, <1>14, <1>15, <1>16, <1>17, <1>18, <1>19, <1>20, <1>21, <1>22, <1>23,
      <1>24, <1>25, <1>26, <1>27, <1>28, <1>29, <1>30, <1>31, <1>32, <1>33, <1>34
  DEF Next, Work, Manual, World

(* Each step publishes checked addresses only.                             *)
LEMMA CheckStep ==
  ASSUME TypeOK, JobsOK, Checked, PublishedWasHealthy, [Next]_vars
  PROVE  Checked' /\ PublishedWasHealthy'
PROOF
<1> USE SyncConstants DEF TypeOK, SystemTypes, ControlTypes, LocalTypes, BoundTypes,
    Row, Name, Job, Label, Worker
<1>c. \A w \in Worker : CheckedAt(w)
  BY DEF Checked
<1>1. CASE Tick
  <2>1. CheckedAt(Loop)'
    BY <1>1, <1>c DEF Tick, Start, Goto, cluster, history, CheckedAt, Publishing
  <2>2. VerifiedGrows /\ \A v \in Worker \ {Loop} : Unmoved(v)
    BY <1>1 DEF Tick, Start, Goto, cluster, history, VerifiedGrows, Unmoved
  <2>3. PublishedWasHealthy'
    BY <1>1 DEF Tick, Start, Goto, cluster, history, PublishedWasHealthy
  <2>. QED
    BY <2>1, <2>2, <2>3, OthersStayChecked, <1>c DEF Checked
<1>2. CASE TickerReset
  <2>1. VerifiedGrows /\ \A v \in Worker : Unmoved(v)
    BY <1>2 DEF TickerReset, cluster, local, history, VerifiedGrows, Unmoved
  <2>2. PublishedWasHealthy'
    BY <1>2 DEF TickerReset, cluster, local, history, PublishedWasHealthy
  <2>. QED
    BY <2>1, <2>2, OthersStayChecked, <1>c DEF Checked
<1>3. CASE Stop
  <2>1. VerifiedGrows /\ \A v \in Worker : Unmoved(v)
    BY <1>3 DEF Stop, cluster, local, history, VerifiedGrows, Unmoved
  <2>2. PublishedWasHealthy'
    BY <1>3 DEF Stop, cluster, local, history, PublishedWasHealthy
  <2>. QED
    BY <2>1, <2>2, OthersStayChecked, <1>c DEF Checked
<1>4. CASE LoopReturns
  <2>1. VerifiedGrows /\ \A v \in Worker : Unmoved(v)
    BY <1>4 DEF LoopReturns, cluster, local, history, VerifiedGrows, Unmoved
  <2>2. PublishedWasHealthy'
    BY <1>4 DEF LoopReturns, cluster, local, history, PublishedWasHealthy
  <2>. QED
    BY <2>1, <2>2, OthersStayChecked, <1>c DEF Checked
<1>5. ASSUME NEW w \in Handlers, SyncKubernetes(w) PROVE Checked' /\ PublishedWasHealthy'
  <2>1. CheckedAt(w)'
    BY <1>5, <1>c
    DEF SyncKubernetes, Start, Goto, cluster, history, CheckedAt, Vouched,
        Publishing
  <2>2. VerifiedGrows /\ \A v \in Worker \ {w} : Unmoved(v)
    BY <1>5
    DEF SyncKubernetes, Start, Goto, cluster, history, VerifiedGrows, Unmoved
  <2>3. PublishedWasHealthy'
    BY <1>5, <1>c
    DEF SyncKubernetes, Start, Goto, cluster, history, PublishedWasHealthy, Vouched
  <2>. QED
    BY <2>1, <2>2, <2>3, OthersStayChecked, <1>c DEF Checked
<1>6. ASSUME NEW w \in Worker, Lock(w) PROVE Checked' /\ PublishedWasHealthy'
  <2>1. CheckedAt(w)'
    BY <1>6, <1>c
    DEF Lock, Goto, cluster, local, history, CheckedAt, Vouched, Publishing
  <2>2. VerifiedGrows /\ \A v \in Worker \ {w} : Unmoved(v)
    BY <1>6 DEF Lock, Goto, cluster, local, history, VerifiedGrows, Unmoved
  <2>3. PublishedWasHealthy'
    BY <1>6, <1>c
    DEF Lock, Goto, cluster, local, history, PublishedWasHealthy, Vouched
  <2>. QED
    BY <2>1, <2>2, <2>3, OthersStayChecked, <1>c DEF Checked
<1>7. ASSUME NEW w \in Worker, Unlock(w) PROVE Checked' /\ PublishedWasHealthy'
  <2>1. CheckedAt(w)'
    BY <1>7, <1>c
    DEF Unlock, Goto, cluster, local, history, CheckedAt, Vouched, Publishing
  <2>2. VerifiedGrows /\ \A v \in Worker \ {w} : Unmoved(v)
    BY <1>7 DEF Unlock, Goto, cluster, local, history, VerifiedGrows, Unmoved
  <2>3. PublishedWasHealthy'
    BY <1>7, <1>c
    DEF Unlock, Goto, cluster, local, history, PublishedWasHealthy, Vouched
  <2>. QED
    BY <2>1, <2>2, <2>3, OthersStayChecked, <1>c DEF Checked
<1>8. ASSUME NEW w \in Worker, List(w) PROVE Checked' /\ PublishedWasHealthy'
  <2>1. CheckedAt(w)'
    BY <1>8, <1>c
    DEF List, Goto, Fault, Leave, Registered, cluster, syncer, history, CheckedAt,
        Vouched, Publishing
  <2>2. VerifiedGrows /\ \A v \in Worker \ {w} : Unmoved(v)
    BY <1>8
    DEF List, Goto, Fault, Leave, Registered, cluster, syncer, history,
        VerifiedGrows, Unmoved
  <2>3. PublishedWasHealthy'
    BY <1>8, <1>c
    DEF List, Goto, Fault, Leave, Registered, cluster, syncer, history,
        PublishedWasHealthy, Vouched
  <2>. QED
    BY <2>1, <2>2, <2>3, OthersStayChecked, <1>c DEF Checked
<1>9. ASSUME NEW w \in Worker, CheckAll(w) PROVE Checked' /\ PublishedWasHealthy'
  <2>1. CASE /\ todo[w] = {} /\ UNCHANGED <<snap, todo, verified>>
             /\ Goto(w, IF job[w] = "direct" THEN "list_svc"
                        ELSE IF cur[w] \in Registered(snap[w]) THEN "svc_get"
                        ELSE "idle")
    <3>1. VerifiedGrows /\ \A v \in Worker \ {w} : Unmoved(v)
      BY <1>9, <2>1 DEF CheckAll, Goto, VerifiedGrows, Unmoved
    <3>2. CheckedAt(w)'
      BY <1>9, <2>1, <1>c
      DEF CheckAll, Goto, Registered, CheckedAt, Vouched, Publishing
    <3>3. PublishedWasHealthy'
      BY <1>9, <2>1 DEF CheckAll, cluster, PublishedWasHealthy
    <3>. QED
      BY <3>1, <3>2, <3>3, OthersStayChecked, <1>c DEF Checked
  <2>2. ASSUME NEW d \in todo[w],
               todo' = [todo EXCEPT ![w] = @ \ {d}],
               snap' = IF Healthy(snap[w], d) THEN snap
                       ELSE [snap EXCEPT ![w][d] = Absent],
               Verify(w, d), UNCHANGED pc
        PROVE  Checked' /\ PublishedWasHealthy'
    <3>0. d \in Device
      OBVIOUS
    <3>1. VerifiedGrows /\ (snap[w][d] \in alive => snap[w][d] \in verified'[Lower[d]])
      BY <2>2, <3>0, VerifyAdds
    <3>2. \A v \in Worker \ {w} : Unmoved(v)
      BY <1>9, <2>2 DEF CheckAll, Unmoved
    <3>3. ASSUME NEW e \in Device \ todo'[w], snap'[w][e] # Absent,
                 job[w] = "direct" \/ e = cur[w]
          PROVE  snap'[w][e] \in verified'[Lower[e]]
      <4>1. CASE e = d
        BY <2>2, <3>0, <3>1, <3>3, <4>1 DEF Healthy
      <4>2. CASE e # d
        <5>1. snap'[w][e] = snap[w][e] /\ e \notin todo[w]
          BY <2>2, <3>0, <3>3, <4>2
        <5>2. Vouched(w, e)
          BY <1>9, <1>c, <3>3, <5>1 DEF CheckAll, CheckedAt
        <5>. QED
          BY <3>1, <5>1, <5>2 DEF Vouched, VerifiedGrows
      <4>. QED
        BY <4>1, <4>2
    <3>4. CheckedAt(w)'
      BY <1>9, <2>2, <3>3 DEF CheckAll, CheckedAt, Vouched, Publishing
    <3>5. PublishedWasHealthy'
      BY <1>9, <3>1 DEF CheckAll, cluster, PublishedWasHealthy, VerifiedGrows
    <3>. QED
      BY <3>1, <3>2, <3>4, <3>5, OthersStayChecked, <1>c DEF Checked
  <2>. QED
    BY <1>9, <2>1, <2>2 DEF CheckAll
<1>10. ASSUME NEW w \in Worker, ListServices(w) PROVE Checked' /\ PublishedWasHealthy'
  <2>1. CheckedAt(w)'
    BY <1>10, <1>c
    DEF ListServices, Goto, Fault, Leave, Registered, cluster, syncer, history,
        CheckedAt, Vouched, Publishing
  <2>2. VerifiedGrows /\ \A v \in Worker \ {w} : Unmoved(v)
    BY <1>10
    DEF ListServices, Goto, Fault, Leave, Registered, cluster, syncer, history,
        VerifiedGrows, Unmoved
  <2>3. PublishedWasHealthy'
    BY <1>10, <1>c
    DEF ListServices, Goto, Fault, Leave, Registered, cluster, syncer, history,
        PublishedWasHealthy, Vouched
  <2>. QED
    BY <2>1, <2>2, <2>3, OthersStayChecked, <1>c DEF Checked
<1>11. ASSUME NEW w \in Worker, NextDevice(w) PROVE Checked' /\ PublishedWasHealthy'
  <2>1. CheckedAt(w)'
    <3>1. PICK d \in todo[w] :
            /\ todo' = [todo EXCEPT ![w] = @ \ {d}]
            /\ cur' = [cur EXCEPT ![w] = d]
            /\ \/ job[w] = "direct" /\ Goto(w, "svc_get") /\ UNCHANGED history
               \/ /\ job[w] = "sync" /\ Verify(w, d)
                  /\ pc'[w] = "svc_get" => Healthy(snap[w], d)
                  /\ pc'[w] \in {"svc_get", "grace", "next"}
      BY <1>11, ZenonT(40) DEF NextDevice, Goto, Streak
    <3>2. job' = job /\ snap' = snap /\ pc[w] = "next" /\ d \in Device
      BY <1>11 DEF NextDevice
    <3>3. CASE job[w] = "direct"
      BY <3>1, <3>2, <3>3, <1>c DEF Goto, history, CheckedAt, Vouched, Publishing
    <3>4. CASE job[w] = "sync"
      <4>1. pc'[w] = "svc_get" => Vouched(w, d)'
        BY <3>1, <3>2, <3>4, VerifyAdds DEF Healthy, Vouched
      <4>. QED
        BY <3>1, <3>2, <3>4, <4>1 DEF CheckedAt, Vouched, Publishing
    <3>. QED
      BY <3>1, <3>3, <3>4
  <2>2. VerifiedGrows /\ \A v \in Worker \ {w} : Unmoved(v)
    <3>1. VerifiedGrows
      BY <1>11, VerifyAdds DEF NextDevice, Streak, history, VerifiedGrows
    <3>. QED
      BY <1>11, <3>1 DEF NextDevice, Goto, Unmoved
  <2>3. PublishedWasHealthy'
    BY <1>11, <2>2 DEF NextDevice, cluster, VerifiedGrows, PublishedWasHealthy
  <2>. QED
    BY <2>1, <2>2, <2>3, OthersStayChecked, <1>c DEF Checked
<1>12. ASSUME NEW w \in Worker, GraceExceeded(w) PROVE Checked' /\ PublishedWasHealthy'
  <2>1. CheckedAt(w)'
    BY <1>12, <1>c
    DEF GraceExceeded, Goto, Fault, syncer, local, history, CheckedAt, Vouched,
        Publishing, JobsOK
  <2>2. VerifiedGrows /\ \A v \in Worker \ {w} : Unmoved(v)
    BY <1>12
    DEF GraceExceeded, Goto, Fault, syncer, local, history, VerifiedGrows, Unmoved
  <2>3. PublishedWasHealthy'
    BY <1>12, <1>c
    DEF GraceExceeded, Goto, Fault, syncer, local, history, PublishedWasHealthy,
        Vouched
  <2>. QED
    BY <2>1, <2>2, <2>3, OthersStayChecked, <1>c DEF Checked
<1>13. ASSUME NEW w \in Worker, GetService(w) PROVE Checked' /\ PublishedWasHealthy'
  <2>1. CheckedAt(w)'
    BY <1>13, <1>c
    DEF GetService, Goto, Fault, Continue, cluster, syncer, local, history,
        CheckedAt, Vouched, Publishing
  <2>2. VerifiedGrows /\ \A v \in Worker \ {w} : Unmoved(v)
    BY <1>13
    DEF GetService, Goto, Fault, Continue, cluster, syncer, local, history,
        VerifiedGrows, Unmoved
  <2>3. PublishedWasHealthy'
    BY <1>13, <1>c
    DEF GetService, Goto, Fault, Continue, cluster, syncer, local, history,
        PublishedWasHealthy, Vouched
  <2>. QED
    BY <2>1, <2>2, <2>3, OthersStayChecked, <1>c DEF Checked
<1>14. ASSUME NEW w \in Worker, WriteService(w) PROVE Checked' /\ PublishedWasHealthy'
  <2>1. CheckedAt(w)'
    BY <1>14, <1>c
    DEF WriteService, Goto, syncer, local, history, CheckedAt, Vouched, Publishing
  <2>2. VerifiedGrows /\ \A v \in Worker \ {w} : Unmoved(v)
    BY <1>14 DEF WriteService, Goto, syncer, local, history, VerifiedGrows, Unmoved
  <2>3. PublishedWasHealthy'
    BY <1>14, <1>c
    DEF WriteService, Goto, syncer, local, history, PublishedWasHealthy, Vouched
  <2>. QED
    BY <2>1, <2>2, <2>3, OthersStayChecked, <1>c DEF Checked
<1>15. ASSUME NEW w \in Worker, WriteServiceFails(w) PROVE Checked' /\ PublishedWasHealthy'
  <2>1. CheckedAt(w)'
    BY <1>15, <1>c
    DEF WriteServiceFails, Fault, Continue, cluster, syncer, local, history, Goto,
        CheckedAt, Vouched, Publishing
  <2>2. VerifiedGrows /\ \A v \in Worker \ {w} : Unmoved(v)
    BY <1>15
    DEF WriteServiceFails, Fault, Continue, cluster, syncer, local, history, Goto,
        VerifiedGrows, Unmoved
  <2>3. PublishedWasHealthy'
    BY <1>15, <1>c
    DEF WriteServiceFails, Fault, Continue, cluster, syncer, local, history, Goto,
        PublishedWasHealthy, Vouched
  <2>. QED
    BY <2>1, <2>2, <2>3, OthersStayChecked, <1>c DEF Checked
<1>16. ASSUME NEW w \in Worker, GetEndpoints(w) PROVE Checked' /\ PublishedWasHealthy'
  <2>1. CheckedAt(w)'
    BY <1>16, <1>c
    DEF GetEndpoints, Goto, Fault, Continue, cluster, syncer, local, history,
        CheckedAt, Vouched, Publishing
  <2>2. VerifiedGrows /\ \A v \in Worker \ {w} : Unmoved(v)
    BY <1>16
    DEF GetEndpoints, Goto, Fault, Continue, cluster, syncer, local, history,
        VerifiedGrows, Unmoved
  <2>3. PublishedWasHealthy'
    BY <1>16, <1>c
    DEF GetEndpoints, Goto, Fault, Continue, cluster, syncer, local, history,
        PublishedWasHealthy, Vouched
  <2>. QED
    BY <2>1, <2>2, <2>3, OthersStayChecked, <1>c DEF Checked
<1>17. ASSUME NEW w \in Worker, WriteEndpoints(w) PROVE Checked' /\ PublishedWasHealthy'
  <2>1. CheckedAt(w)'
    BY <1>17, <1>c
    DEF WriteEndpoints, Continue, syncer, local, history, Goto, CheckedAt, Vouched,
        Publishing
  <2>2. VerifiedGrows /\ \A v \in Worker \ {w} : Unmoved(v)
    BY <1>17
    DEF WriteEndpoints, Continue, syncer, local, history, Goto, VerifiedGrows,
        Unmoved
  <2>3. PublishedWasHealthy'
    BY <1>17, <1>c
    DEF WriteEndpoints, Continue, syncer, local, history, Goto, PublishedWasHealthy,
        Vouched, CheckedAt, Publishing
  <2>. QED
    BY <2>1, <2>2, <2>3, OthersStayChecked, <1>c DEF Checked
<1>18. ASSUME NEW w \in Worker, WriteEndpointsFails(w) PROVE Checked' /\ PublishedWasHealthy'
  <2>1. CheckedAt(w)'
    BY <1>18, <1>c
    DEF WriteEndpointsFails, Fault, Continue, cluster, syncer, local, history, Goto,
        CheckedAt, Vouched, Publishing
  <2>2. VerifiedGrows /\ \A v \in Worker \ {w} : Unmoved(v)
    BY <1>18
    DEF WriteEndpointsFails, Fault, Continue, cluster, syncer, local, history, Goto,
        VerifiedGrows, Unmoved
  <2>3. PublishedWasHealthy'
    BY <1>18, <1>c
    DEF WriteEndpointsFails, Fault, Continue, cluster, syncer, local, history, Goto,
        PublishedWasHealthy, Vouched
  <2>. QED
    BY <2>1, <2>2, <2>3, OthersStayChecked, <1>c DEF Checked
<1>19. ASSUME NEW w \in Worker, BeginSweep(w) PROVE Checked' /\ PublishedWasHealthy'
  <2>1. CheckedAt(w)'
    BY <1>19, <1>c
    DEF BeginSweep, Goto, cluster, syncer, local, history, CheckedAt, Vouched,
        Publishing
  <2>2. VerifiedGrows /\ \A v \in Worker \ {w} : Unmoved(v)
    BY <1>19
    DEF BeginSweep, Goto, cluster, syncer, local, history, VerifiedGrows, Unmoved
  <2>3. PublishedWasHealthy'
    BY <1>19, <1>c
    DEF BeginSweep, Goto, cluster, syncer, local, history, PublishedWasHealthy,
        Vouched
  <2>. QED
    BY <2>1, <2>2, <2>3, OthersStayChecked, <1>c DEF Checked
<1>20. ASSUME NEW w \in Worker, SweepService(w) PROVE Checked' /\ PublishedWasHealthy'
  <2>1. CheckedAt(w)'
    BY <1>20, <1>c
    DEF SweepService, Goto, Fault, syncer, history, CheckedAt, Vouched, Publishing
  <2>2. VerifiedGrows /\ \A v \in Worker \ {w} : Unmoved(v)
    BY <1>20 DEF SweepService, Goto, Fault, syncer, history, VerifiedGrows, Unmoved
  <2>3. PublishedWasHealthy'
    BY <1>20, <1>c
    DEF SweepService, Goto, Fault, syncer, history, PublishedWasHealthy, Vouched
  <2>. QED
    BY <2>1, <2>2, <2>3, OthersStayChecked, <1>c DEF Checked
<1>21. ASSUME NEW w \in Worker, SweepEndpoints(w) PROVE Checked' /\ PublishedWasHealthy'
  <2>1. CheckedAt(w)'
    BY <1>21, <1>c
    DEF SweepEndpoints, Goto, Fault, local, history, CheckedAt, Vouched, Publishing
  <2>2. VerifiedGrows /\ \A v \in Worker \ {w} : Unmoved(v)
    BY <1>21 DEF SweepEndpoints, Goto, Fault, local, history, VerifiedGrows, Unmoved
  <2>3. PublishedWasHealthy'
    BY <1>21, <1>c
    DEF SweepEndpoints, Goto, Fault, local, history, PublishedWasHealthy, Vouched
  <2>. QED
    BY <2>1, <2>2, <2>3, OthersStayChecked, <1>c DEF Checked
<1>22. ASSUME NEW w \in Worker, EndSweep(w) PROVE Checked' /\ PublishedWasHealthy'
  <2>1. CheckedAt(w)'
    BY <1>22, <1>c
    DEF EndSweep, Leave, cluster, syncer, local, history, Goto, CheckedAt, Vouched,
        Publishing
  <2>2. VerifiedGrows /\ \A v \in Worker \ {w} : Unmoved(v)
    BY <1>22
    DEF EndSweep, Leave, cluster, syncer, local, history, Goto, VerifiedGrows,
        Unmoved
  <2>3. PublishedWasHealthy'
    BY <1>22, <1>c
    DEF EndSweep, Leave, cluster, syncer, local, history, Goto, PublishedWasHealthy,
        Vouched
  <2>. QED
    BY <2>1, <2>2, <2>3, OthersStayChecked, <1>c DEF Checked
<1>23. ASSUME NEW w \in Handlers, NEW d \in Device, SyncSingleDevice(w, d) PROVE Checked' /\ PublishedWasHealthy'
  <2>1. CheckedAt(w)'
    BY <1>23, <1>c
    DEF SyncSingleDevice, Start, Event, Goto, cluster, history, CheckedAt, Vouched,
        Publishing
  <2>2. VerifiedGrows /\ \A v \in Worker \ {w} : Unmoved(v)
    BY <1>23
    DEF SyncSingleDevice, Start, Event, Goto, cluster, history, VerifiedGrows,
        Unmoved
  <2>3. PublishedWasHealthy'
    BY <1>23, <1>c
    DEF SyncSingleDevice, Start, Event, Goto, cluster, history, PublishedWasHealthy,
        Vouched
  <2>. QED
    BY <2>1, <2>2, <2>3, OthersStayChecked, <1>c DEF Checked
<1>24. ASSUME NEW w \in Handlers, NEW d \in Device, DeleteDeviceResources(w, d) PROVE Checked' /\ PublishedWasHealthy'
  <2>1. CheckedAt(w)'
    BY <1>24, <1>c
    DEF DeleteDeviceResources, Goto, Event, cluster, syncer, history, CheckedAt,
        Vouched, Publishing
  <2>2. VerifiedGrows /\ \A v \in Worker \ {w} : Unmoved(v)
    BY <1>24
    DEF DeleteDeviceResources, Goto, Event, cluster, syncer, history, VerifiedGrows,
        Unmoved
  <2>3. PublishedWasHealthy'
    BY <1>24, <1>c
    DEF DeleteDeviceResources, Goto, Event, cluster, syncer, history,
        PublishedWasHealthy, Vouched
  <2>. QED
    BY <2>1, <2>2, <2>3, OthersStayChecked, <1>c DEF Checked
<1>25. ASSUME NEW w \in Handlers, CleanupAllResources(w) PROVE Checked' /\ PublishedWasHealthy'
  <2>1. CheckedAt(w)'
    BY <1>25, <1>c
    DEF CleanupAllResources, Start, Event, Goto, cluster, history, CheckedAt,
        Vouched, Publishing
  <2>2. VerifiedGrows /\ \A v \in Worker \ {w} : Unmoved(v)
    BY <1>25
    DEF CleanupAllResources, Start, Event, Goto, cluster, history, VerifiedGrows,
        Unmoved
  <2>3. PublishedWasHealthy'
    BY <1>25, <1>c
    DEF CleanupAllResources, Start, Event, Goto, cluster, history,
        PublishedWasHealthy, Vouched
  <2>. QED
    BY <2>1, <2>2, <2>3, OthersStayChecked, <1>c DEF Checked
<1>26. ASSUME NEW w \in Worker, ListEndpoints(w) PROVE Checked' /\ PublishedWasHealthy'
  <2>1. CheckedAt(w)'
    BY <1>26, <1>c
    DEF ListEndpoints, Goto, Fault, cluster, syncer, history, CheckedAt, Vouched,
        Publishing
  <2>2. VerifiedGrows /\ \A v \in Worker \ {w} : Unmoved(v)
    BY <1>26
    DEF ListEndpoints, Goto, Fault, cluster, syncer, history, VerifiedGrows, Unmoved
  <2>3. PublishedWasHealthy'
    BY <1>26, <1>c
    DEF ListEndpoints, Goto, Fault, cluster, syncer, history, PublishedWasHealthy,
        Vouched
  <2>. QED
    BY <2>1, <2>2, <2>3, OthersStayChecked, <1>c DEF Checked
<1>27. ASSUME NEW w \in Worker, CleanupService(w) PROVE Checked' /\ PublishedWasHealthy'
  <2>1. CheckedAt(w)'
    BY <1>27, <1>c
    DEF CleanupService, Goto, Fault, syncer, history, CheckedAt, Vouched, Publishing
  <2>2. VerifiedGrows /\ \A v \in Worker \ {w} : Unmoved(v)
    BY <1>27
    DEF CleanupService, Goto, Fault, syncer, history, VerifiedGrows, Unmoved
  <2>3. PublishedWasHealthy'
    BY <1>27, <1>c
    DEF CleanupService, Goto, Fault, syncer, history, PublishedWasHealthy, Vouched
  <2>. QED
    BY <2>1, <2>2, <2>3, OthersStayChecked, <1>c DEF Checked
<1>28. ASSUME NEW w \in Worker, CleanupEndpoints(w) PROVE Checked' /\ PublishedWasHealthy'
  <2>1. CheckedAt(w)'
    BY <1>28, <1>c, ZenonT(40)
    DEF CleanupEndpoints, Goto, Fault, syncer, history, CheckedAt, Vouched,
        Publishing
  <2>2. VerifiedGrows /\ \A v \in Worker \ {w} : Unmoved(v)
    BY <1>28
    DEF CleanupEndpoints, Goto, Fault, syncer, history, VerifiedGrows, Unmoved
  <2>3. PublishedWasHealthy'
    BY <1>28, <1>c
    DEF CleanupEndpoints, Goto, Fault, syncer, history, PublishedWasHealthy, Vouched
  <2>. QED
    BY <2>1, <2>2, <2>3, OthersStayChecked, <1>c DEF Checked
<1>29. ASSUME NEW d \in Device, NEW row \in Row, EditTable(d, row) PROVE Checked' /\ PublishedWasHealthy'
  <2>1. VerifiedGrows /\ \A v \in Worker : Unmoved(v)
    BY <1>29
    DEF EditTable, Event, cluster, syncer, local, history, VerifiedGrows, Unmoved
  <2>2. PublishedWasHealthy'
    BY <1>29
    DEF EditTable, Event, cluster, syncer, local, history, PublishedWasHealthy
  <2>. QED
    BY <2>1, <2>2, OthersStayChecked, <1>c DEF Checked
<1>30. ASSUME NEW ip \in IP, ExporterUp(ip) PROVE Checked' /\ PublishedWasHealthy'
  <2>1. VerifiedGrows /\ \A v \in Worker : Unmoved(v)
    BY <1>30
    DEF ExporterUp, Event, cluster, syncer, local, history, VerifiedGrows, Unmoved
  <2>2. PublishedWasHealthy'
    BY <1>30
    DEF ExporterUp, Event, cluster, syncer, local, history, PublishedWasHealthy
  <2>. QED
    BY <2>1, <2>2, OthersStayChecked, <1>c DEF Checked
<1>31. ASSUME NEW ip \in IP, ExporterDown(ip) PROVE Checked' /\ PublishedWasHealthy'
  <2>1. VerifiedGrows /\ \A v \in Worker : Unmoved(v)
    BY <1>31
    DEF ExporterDown, Event, cluster, syncer, local, history, VerifiedGrows, Unmoved
  <2>2. PublishedWasHealthy'
    BY <1>31
    DEF ExporterDown, Event, cluster, syncer, local, history, PublishedWasHealthy
  <2>. QED
    BY <2>1, <2>2, OthersStayChecked, <1>c DEF Checked
<1>32. CASE Restart
  <2>1. Checked'
    BY <1>32 DEF Restart, Event, cluster, history, Checked, CheckedAt, Publishing
  <2>2. PublishedWasHealthy'
    BY <1>32 DEF Restart, Event, cluster, history, PublishedWasHealthy
  <2>. QED
    BY <2>1, <2>2
<1>33. CASE UNCHANGED vars
  <2>1. VerifiedGrows /\ \A v \in Worker : Unmoved(v)
    BY <1>33 DEF vars, local, history, VerifiedGrows, Unmoved
  <2>2. PublishedWasHealthy'
    BY <1>33 DEF vars, cluster, history, PublishedWasHealthy
  <2>. QED
    BY <2>1, <2>2, <1>c, OthersStayChecked DEF Checked
<1>34. ASSUME NEW w \in Worker, Hang(w) PROVE Checked' /\ PublishedWasHealthy'
  <2>1. CheckedAt(w)'
    BY <1>34 DEF Hang, Goto, CheckedAt, Publishing
  <2>2. VerifiedGrows /\ \A v \in Worker \ {w} : Unmoved(v)
    BY <1>34 DEF Hang, Goto, local, history, VerifiedGrows, Unmoved
  <2>3. PublishedWasHealthy'
    <3>1. \A n \in Name : eps'[n] \in verified[n] \cup {eps[n], Absent}
      BY <1>34, <1>c, HungWrites DEF Hang, Checked, Name
    <3>. QED
      BY <1>34, <3>1 DEF Hang, history, PublishedWasHealthy
  <2>. QED
    BY <2>1, <2>2, <2>3, OthersStayChecked, <1>c DEF Checked
<1>. QED
  BY <1>1, <1>2, <1>3, <1>4, <1>5, <1>6, <1>7, <1>8, <1>9, <1>10, <1>11, <1>12,
      <1>13, <1>14, <1>15, <1>16, <1>17, <1>18, <1>19, <1>20, <1>21, <1>22, <1>23,
      <1>24, <1>25, <1>26, <1>27, <1>28, <1>29, <1>30, <1>31, <1>32, <1>33, <1>34
  DEF Next, Work, Manual, World

(* Each step keeps the counts honest; no other Sync can clear the streak   *)
(* of a device between its last failed check and the withdrawal.           *)
LEMMA GraceStep ==
  ASSUME TypeOK, JobsOK, SyncsSerialized, CountsHonest, GraceRespected, [Next]_vars
  PROVE  (CountsHonest /\ GraceRespected)'
PROOF
<1> USE SyncConstants DEF TypeOK, SystemTypes, ControlTypes, LocalTypes, BoundTypes,
    JobsOK, SyncsSerialized, InSync, CountsHonest, GraceRespected, Worker, Name,
    Label, Job
<1>1. CASE Tick
  BY <1>1 DEF Tick, Start, Goto, cluster, history
<1>2. CASE TickerReset
  BY <1>2 DEF TickerReset, cluster, local, history
<1>3. CASE Stop
  BY <1>3 DEF Stop, cluster, local, history
<1>4. CASE LoopReturns
  BY <1>4 DEF LoopReturns, cluster, local, history
<1>5. ASSUME NEW w \in Handlers, SyncKubernetes(w) PROVE (CountsHonest /\ GraceRespected)'
  BY <1>5 DEF SyncKubernetes, Start, Goto, cluster, history
<1>6. ASSUME NEW w \in Worker, Lock(w) PROVE (CountsHonest /\ GraceRespected)'
  BY <1>6 DEF Lock, Goto, cluster, local, history
<1>7. ASSUME NEW w \in Worker, Unlock(w) PROVE (CountsHonest /\ GraceRespected)'
  BY <1>7 DEF Unlock, Goto, cluster, local, history
<1>8. ASSUME NEW w \in Worker, List(w) PROVE (CountsHonest /\ GraceRespected)'
  BY <1>8 DEF List, Goto, Fault, Leave, cluster, syncer, history
<1>9. ASSUME NEW w \in Worker, CheckAll(w) PROVE (CountsHonest /\ GraceRespected)'
  BY <1>9, ZenonT(40) DEF CheckAll, Goto, Verify, Healthy, cluster, syncer
<1>10. ASSUME NEW w \in Worker, ListServices(w) PROVE (CountsHonest /\ GraceRespected)'
  BY <1>10 DEF ListServices, Goto, Fault, Leave, cluster, syncer, history
<1>11. ASSUME NEW w \in Worker, NextDevice(w) PROVE (CountsHonest /\ GraceRespected)'
  <2>1. CountsHonest'
    BY <1>11
    DEF NextDevice, Goto, Streak, Counted, Healthy, cluster, history, Verify
  <2>2. GraceRespected'
    BY <1>11
    DEF NextDevice, Goto, Streak, Counted, Healthy, cluster, history, Verify
  <2>. QED
    BY <2>1, <2>2
<1>12. ASSUME NEW w \in Worker, GraceExceeded(w) PROVE (CountsHonest /\ GraceRespected)'
  BY <1>12 DEF GraceExceeded, Goto, Fault, syncer, local, history
<1>13. ASSUME NEW w \in Worker, GetService(w) PROVE (CountsHonest /\ GraceRespected)'
  BY <1>13 DEF GetService, Goto, Fault, Continue, cluster, syncer, local, history
<1>14. ASSUME NEW w \in Worker, WriteService(w) PROVE (CountsHonest /\ GraceRespected)'
  BY <1>14 DEF WriteService, Goto, syncer, local, history
<1>15. ASSUME NEW w \in Worker, WriteServiceFails(w) PROVE (CountsHonest /\ GraceRespected)'
  BY <1>15
  DEF WriteServiceFails, Fault, Continue, cluster, syncer, local, history, Goto
<1>16. ASSUME NEW w \in Worker, GetEndpoints(w) PROVE (CountsHonest /\ GraceRespected)'
  BY <1>16 DEF GetEndpoints, Goto, Fault, Continue, cluster, syncer, local, history
<1>17. ASSUME NEW w \in Worker, WriteEndpoints(w) PROVE (CountsHonest /\ GraceRespected)'
  BY <1>17 DEF WriteEndpoints, Continue, syncer, local, history, Goto
<1>18. ASSUME NEW w \in Worker, WriteEndpointsFails(w) PROVE (CountsHonest /\ GraceRespected)'
  BY <1>18
  DEF WriteEndpointsFails, Fault, Continue, cluster, syncer, local, history, Goto
<1>19. ASSUME NEW w \in Worker, BeginSweep(w) PROVE (CountsHonest /\ GraceRespected)'
  BY <1>19 DEF BeginSweep, Goto, cluster, syncer, local, history
<1>20. ASSUME NEW w \in Worker, SweepService(w) PROVE (CountsHonest /\ GraceRespected)'
  BY <1>20 DEF SweepService, Goto, Fault, syncer, history
<1>21. ASSUME NEW w \in Worker, SweepEndpoints(w) PROVE (CountsHonest /\ GraceRespected)'
  BY <1>21 DEF SweepEndpoints, Goto, Fault, local, history
<1>22. ASSUME NEW w \in Worker, EndSweep(w) PROVE (CountsHonest /\ GraceRespected)'
  BY <1>22 DEF EndSweep, Leave, cluster, syncer, local, history, Goto
<1>23. ASSUME NEW w \in Handlers, NEW d \in Device, SyncSingleDevice(w, d) PROVE (CountsHonest /\ GraceRespected)'
  BY <1>23 DEF SyncSingleDevice, Start, Event, Goto, cluster, history
<1>24. ASSUME NEW w \in Handlers, NEW d \in Device, DeleteDeviceResources(w, d) PROVE (CountsHonest /\ GraceRespected)'
  BY <1>24 DEF DeleteDeviceResources, Goto, Event, cluster, syncer, history
<1>25. ASSUME NEW w \in Handlers, CleanupAllResources(w) PROVE (CountsHonest /\ GraceRespected)'
  BY <1>25 DEF CleanupAllResources, Start, Event, Goto, cluster, history
<1>26. ASSUME NEW w \in Worker, ListEndpoints(w) PROVE (CountsHonest /\ GraceRespected)'
  BY <1>26 DEF ListEndpoints, Goto, Fault, cluster, syncer, history
<1>27. ASSUME NEW w \in Worker, CleanupService(w) PROVE (CountsHonest /\ GraceRespected)'
  BY <1>27 DEF CleanupService, Goto, Fault, syncer, history
<1>28. ASSUME NEW w \in Worker, CleanupEndpoints(w) PROVE (CountsHonest /\ GraceRespected)'
  BY <1>28, ZenonT(40) DEF CleanupEndpoints, Goto, Fault, syncer, history
<1>29. ASSUME NEW d \in Device, NEW row \in Row, EditTable(d, row) PROVE (CountsHonest /\ GraceRespected)'
  BY <1>29 DEF EditTable, Event, cluster, syncer, local, history
<1>30. ASSUME NEW ip \in IP, ExporterUp(ip) PROVE (CountsHonest /\ GraceRespected)'
  BY <1>30 DEF ExporterUp, Event, cluster, syncer, local, history
<1>31. ASSUME NEW ip \in IP, ExporterDown(ip) PROVE (CountsHonest /\ GraceRespected)'
  BY <1>31 DEF ExporterDown, Event, cluster, syncer, local, history
<1>32. CASE Restart
  BY <1>32 DEF Restart, Event, cluster, history
<1>33. CASE UNCHANGED vars
  BY <1>33 DEF vars, cluster, syncer, local, history
<1>34. ASSUME NEW w \in Worker, Hang(w) PROVE (CountsHonest /\ GraceRespected)'
  BY <1>34 DEF Hang, Goto, syncer, local, history
<1>. QED
  BY <1>1, <1>2, <1>3, <1>4, <1>5, <1>6, <1>7, <1>8, <1>9, <1>10, <1>11, <1>12,
      <1>13, <1>14, <1>15, <1>16, <1>17, <1>18, <1>19, <1>20, <1>21, <1>22, <1>23,
      <1>24, <1>25, <1>26, <1>27, <1>28, <1>29, <1>30, <1>31, <1>32, <1>33, <1>34
  DEF Next, Work, Manual, World

(* The initial state satisfies the invariant.                              *)
LEMMA InitInv == Init => IInv
PROOF
<1> SUFFICES ASSUME Init PROVE IInv
  OBVIOUS
<1> USE SyncConstants DEF Init
<1>1. SystemTypes
  <2>1. 0 \in 0..GraceLimit
    OBVIOUS
  <2>2. stop \in {"absent", "running", "stopping", "stopped"}
    OBVIOUS
  <2>. QED
    BY <2>1, <2>2 DEF SystemTypes
<1>2. BoundTypes
  <2>1. 0 \in 0..GraceLimit /\ 0 \in 0..MaxEvents /\ 0 \in 0..MaxFaults
    OBVIOUS
  <2>. QED
    BY <2>1 DEF BoundTypes
<1>3. ControlTypes /\ LocalTypes
  BY DEF ControlTypes, LocalTypes, Job, Label, Row
<1>4. JobsOK /\ SyncsSerialized
  BY DEF JobsOK, SyncsSerialized, InSync
<1>5. Checked /\ PublishedWasHealthy
  BY DEF Checked, CheckedAt, Publishing, PublishedWasHealthy
<1>6. CountsHonest /\ GraceRespected
  BY DEF CountsHonest, GraceRespected
<1>. QED
  BY <1>1, <1>2, <1>3, <1>4, <1>5, <1>6 DEF IInv, TypeOK

(* IInv is inductive.                                                      *)
LEMMA Invariance == Spec => []IInv
PROOF
<1>1. IInv /\ [Next]_vars => IInv'
  BY TypeStep, LockStep, CheckStep, GraceStep DEF IInv
<1>. QED
  BY InitInv, <1>1, PTL DEF Spec

-----------------------------------------------------------------------------
(* Every variable of the Syncer, the handlers and the cluster keeps its    *)
(* type; in particular no Endpoints are ever written without an address.   *)
THEOREM TypeCorrect == Spec => []TypeOK
PROOF
  BY Invariance, PTL DEF IInv

(* The Endpoints of a name hold only addresses that answered a health      *)
(* check made for that device (CheckDeviceHealth), through Sync, through   *)
(* SyncDevices and through SyncSingleDevice, in any interleaving.          *)
THEOREM OnlyHealthyPublished == Spec => []PublishedWasHealthy
PROOF
  BY Invariance, PTL DEF IInv

(* The timer's Sync and the triggered one exclude each other, and every    *)
(* return from Sync leaves the mutex free.                                 *)
THEOREM MutualExclusion == Spec => []SyncsSerialized
PROOF
  BY Invariance, PTL DEF IInv

(* Sync withdraws the Endpoints of a registered device only after          *)
(* graceLimit failed checks in a row.                                      *)
THEOREM GraceIsRespected == Spec => []GraceRespected
PROOF
  BY Invariance, PTL DEF IInv

=============================================================================
