----------------------------- MODULE AtomicFile -----------------------------
(***************************************************************************)
(* What the exporter expects of save_to_local: a save replaces the file as *)
(* a whole, in one step between the call and its answer, or leaves it as   *)
(* it was; the answer says which.  If the process dies during a save,      *)
(* either may have happened, and neither happens afterwards.               *)
(***************************************************************************)
CONSTANTS
  Saver,   \* threads that save
  Config,  \* configurations
  Content, \* [Config -> what a file that holds it contains]
  None

VARIABLES
  file,    \* the content of the file; None if there is no file
  phase,   \* of a saver: "idle", "saving", or the answer: "saved", "failed"
  conf     \* of a saver: the configuration it saves

vars == <<file, phase, conf>>

Init ==
  /\ file \in {Content[c] : c \in Config} \cup {None}
  /\ phase = [s \in Saver |-> "idle"]
  /\ conf = [s \in Saver |-> None]

Call(s, c) ==
  /\ phase[s] = "idle"
  /\ phase' = [phase EXCEPT ![s] = "saving"]
  /\ conf' = [conf EXCEPT ![s] = c]
  /\ UNCHANGED file

TakeEffect(s) ==
  /\ phase[s] = "saving"
  /\ file' = Content[conf[s]]
  /\ phase' = [phase EXCEPT ![s] = "saved"]
  /\ UNCHANGED conf

Fail(s) ==
  /\ phase[s] = "saving"
  /\ phase' = [phase EXCEPT ![s] = "failed"]
  /\ UNCHANGED <<file, conf>>

Answer(s) ==
  /\ phase[s] \in {"saved", "failed"}
  /\ phase' = [phase EXCEPT ![s] = "idle"]
  /\ UNCHANGED <<file, conf>>

Die ==
  /\ phase' = [s \in Saver |-> "idle"]
  /\ UNCHANGED <<file, conf>>

Next ==
  \/ \E s \in Saver : (\E c \in Config : Call(s, c)) \/ TakeEffect(s) \/ Fail(s) \/ Answer(s)
  \/ Die

Spec == Init /\ [][Next]_vars
=============================================================================
