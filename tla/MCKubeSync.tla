----------------------------- MODULE MCKubeSync -----------------------------
(* Instances of KubeSync for TLC, with ids that are lower case already:    *)
(* the API accepts no others.                                              *)
EXTENDS KubeSync, TLC

CONSTANTS i1, i2

MCLower == [d \in Device |-> d]

Symmetry == Permutations({i1, i2})

(* A local variable counts only where a later step may still read it.      *)
LiveAt(f, labels) == [w \in Worker |-> IF pc[w] \in labels THEN f[w] ELSE {}]
OneDevice == {"svc_get", "svc_create", "svc_update", "ep_get", "ep_create",
              "ep_update", "grace"}
Locals ==
  <<LiveAt(job, Label \ {"idle"}),
    LiveAt(snap, OneDevice \cup {"check_all", "list_svc", "next"}),
    LiveAt(todo, OneDevice \cup {"check_all", "next", "cleanup_svc", "cleanup_ep"}),
    LiveAt(old, OneDevice \cup {"next", "sweep", "sweep_ep", "list_ep", "cleanup_svc"}),
    LiveAt(cur, OneDevice \cup {"list", "check_all", "sweep_ep"})>>

View == <<table, alive, cluster, syncer, pc, Locals, events, faults, history>>

(* The history is for the safety properties only.                          *)
LiveView == <<table, alive, cluster, syncer, pc, Locals, events, faults>>

(* For the run with temporal properties: MaxEvents events and failing or   *)
(* hanging calls together.                                                 *)
LiveNext == Next /\ events' + faults' <= MaxEvents
LiveSpec == Init /\ [][LiveNext]_vars /\ Fairness
=============================================================================
