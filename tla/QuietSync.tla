----------------------------- MODULE QuietSync -----------------------------
(***************************************************************************)
(* What one Sync (server/handlers/syncer.go) comes to when nobody disturbs *)
(* it: KubeSync with a history variable that tells which Sync has not been *)
(* disturbed since it read the device table.                               *)
(***************************************************************************)
EXTENDS KubeSync

VARIABLE quiet  \* the worker whose Sync was left alone so far, or Absent

watchedVars == <<vars, quiet>>

(* A Sync has read the table: it holds the mutex.                          *)
Begins(w) == pc[w] = "list" /\ job[w] = "sync" /\ pc'[w] = "list_svc"

(* Other goroutines may run, but change neither the table nor the cluster; *)
(* no exporter comes or goes, and no call fails.                           *)
Undisturbed == UNCHANGED faults /\ (UNCHANGED <<table, alive, cluster>> \/ Work(quiet))

Watch ==
  quiet' = IF \E w \in Worker : Begins(w) THEN mutex
           ELSE IF quiet # Absent /\ Undisturbed THEN quiet
           ELSE Absent

WatchedSpec == Init /\ quiet = Absent /\ [][Next /\ Watch]_watchedVars

(* What the cluster shows of a registered device: its address if it is     *)
(* healthy, and nothing once it has failed GraceLimit checks.              *)
Shown(d) ==
  IF Healthy(table, d) THEN Lower[d] \in svc /\ eps[Lower[d]] = table[d]
  ELSE fails[d] >= GraceLimit => eps[Lower[d]] = Absent

(* A Sync that nobody disturbs repairs the cluster in one go, whatever     *)
(* races, failures and restarts before it left there: registered devices   *)
(* are shown as they are, and no other has a Service.                      *)
QuietSyncRepairs ==
  \A w \in Worker :
    quiet = w /\ pc[w] = "unlock" =>
      /\ \A d \in Registered(table) : Shown(d)
      /\ \A n \in svc : \E d \in Registered(table) : Lower[d] = n
=============================================================================
