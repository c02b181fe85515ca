----------------------------- MODULE MCExporter -----------------------------
(* Instances of Exporter for TLC: two device types with collectors that    *)
(* find every metric, and one without.                                     *)
EXTENDS Exporter

CONSTANTS ta, tb, tx

MCOffers == [t \in Type |-> IF t = tx THEN {} ELSE Metric]

Conf(t, x) == [type |-> t, metrics |-> [m \in Metric |-> x]]

MCEdits == {Conf(ta, "on"), Conf(tb, "off"), Conf(tx, "unset")}
MCFiles == {None, Conf(ta, "on")}

(* Dicts nothing refers to any more are garbage.                           *)
Keep(f, os) == [o \in Obj |-> IF o \in os THEN f[o] ELSE None]
FullView ==
  <<server, file, env, main, api, flag, cur, new, collectors,
    Keep(type, Roots), Keep(ref, Roots), Keep(dict, InUse),
    at, held, found, threads, events, faults, history>>

(* For runs whose properties do not read the history variables, on which   *)
(* no action depends.                                                      *)
View ==
  <<server, file, env, main, api, flag, cur, new, collectors,
    Keep(type, Roots), Keep(ref, Roots), Keep(dict, InUse),
    at, held, found, threads, events, faults>>
=============================================================================
