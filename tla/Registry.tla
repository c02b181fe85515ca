------------------------------ MODULE Registry ------------------------------
(***************************************************************************)
(* What the config server promises of its device table, whatever happens   *)
(* inside a handler: every HTTP request takes effect at most once, in one   *)
(* atomic step between its arrival and its answer; the answer it gets is    *)
(* the effect it had; a request the server lost in a crash never takes      *)
(* effect afterwards.  A row appears only where there was none and          *)
(* disappears only where there was one.                                     *)
(***************************************************************************)
CONSTANTS
  Device,    \* device identifiers, the keys of the table
  Request,   \* the HTTP requests the server may receive
  Row,       \* the values a row may have
  NoRow      \* the table holds nothing under this key

VARIABLES
  table,     \* [Device -> Row or NoRow]
  phase,     \* "new", "open" (being handled), "closed" (answered), "lost"
  effect     \* what the request did: "none", "created", "updated", "deleted"

vars == <<table, phase, effect>>

Init ==
  /\ table \in [Device -> Row \cup {NoRow}]
  /\ phase = [r \in Request |-> "new"]
  /\ effect = [r \in Request |-> "none"]

Open(r) ==
  /\ phase[r] = "new"
  /\ phase' \in {[phase EXCEPT ![r] = p] : p \in {"open", "closed"}}
  /\ UNCHANGED <<table, effect>>

(* The atomic effect of r; the answer may leave in the same step. *)
TakesEffect(r, e) ==
  /\ phase[r] = "open"
  /\ effect[r] = "none"
  /\ effect' = [effect EXCEPT ![r] = e]
  /\ phase' \in {[phase EXCEPT ![r] = p] : p \in {"open", "closed"}}

Create(r, d, row) ==
  /\ table[d] = NoRow
  /\ table' = [table EXCEPT ![d] = row]
  /\ TakesEffect(r, "created")

(* An update of a device that is no longer there is acknowledged and       *)
(* changes nothing: it never brings the row back.                          *)
Update(r, d, row) ==
  /\ table' = IF table[d] = NoRow THEN table ELSE [table EXCEPT ![d] = row]
  /\ TakesEffect(r, "updated")

Delete(r, d) ==
  /\ table[d] # NoRow
  /\ table' = [table EXCEPT ![d] = NoRow]
  /\ TakesEffect(r, "deleted")

Close(r) ==
  /\ phase[r] = "open"
  /\ phase' = [phase EXCEPT ![r] = "closed"]
  /\ UNCHANGED <<table, effect>>

(* The server dies: the requests it was handling get no answer. *)
Lose ==
  /\ phase' = [r \in Request |-> IF phase[r] = "open" THEN "lost" ELSE phase[r]]
  /\ UNCHANGED <<table, effect>>

(* A device is provisioned at boot, while no request is being handled. *)
Provision(d, row) ==
  /\ \A r \in Request : phase[r] # "open"
  /\ table[d] = NoRow
  /\ table' = [table EXCEPT ![d] = row]
  /\ UNCHANGED <<phase, effect>>

Next ==
  \/ \E r \in Request :
       \/ Open(r)
       \/ Close(r)
       \/ \E d \in Device, row \in Row : Create(r, d, row) \/ Update(r, d, row)
       \/ \E d \in Device : Delete(r, d)
  \/ \E d \in Device, row \in Row : Provision(d, row)
  \/ Lose

Spec == Init /\ [][Next]_vars
=============================================================================
