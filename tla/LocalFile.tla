----------------------------- MODULE LocalFile -----------------------------
(***************************************************************************)
(* save_to_local (exporter/config_loader.py): the configuration is written *)
(* to config.yaml.tmp, which is then renamed to config.yaml.  Scrapes and  *)
(* the management API save while they hold config_lock; the main thread    *)
(* saves what a reload brought after it has released it.                   *)
(*                                                                         *)
(* Files are inodes: opening an existing .tmp truncates the inode that is  *)
(* there, and a rename takes the inode along under the descriptors that    *)
(* are open on it.  Each action is one system call.  The process may die   *)
(* between any two; the machine does not (nothing is flushed to the disk,  *)
(* so a power failure may leave less than this module says).               *)
(***************************************************************************)
EXTENDS Naturals

CONSTANTS
  Saver,      \* threads that save
  Locked,     \* those that hold config_lock over the save
  Config,     \* configurations
  Size,       \* [Config -> Nat]: writes it takes to put one into a file
  MaxSize,
  Inode,
  MaxFaults,  \* bound: failing system calls
  MaxKills,   \* bound: deaths of the process
  None

Chunk == 1..MaxSize

ASSUME LocalFileConstants ==
  /\ Locked \subseteq Saver
  /\ MaxSize \in Nat /\ MaxFaults \in Nat /\ MaxKills \in Nat
  /\ Size \in [Config -> Chunk]
  /\ None \notin Saver \cup Config \cup Inode

VARIABLES
  path, tmp,  \* the inodes config.yaml and config.yaml.tmp name, or None
  data,       \* [Inode -> [Chunk -> Config or None]]: which configuration
              \* wrote each piece of a file; None past the end, or in a hole
  pc, conf,   \* of a saver: what it does next, and the configuration it saves
  fd, pos,    \* of a saver: its open file, and the pieces it has written
  lock,       \* config_lock: the saver that holds it, or None
  before,     \* history: the file when a saver began
  faults, kills

files == <<path, tmp, data>>
vars == <<files, pc, conf, fd, pos, lock, before, faults, kills>>

Pc == {"idle", "open", "write", "replace", "cleanup", "saved", "failed"}

Empty == [k \in Chunk |-> None]
Image(c) == [k \in Chunk |-> IF k <= Size[c] THEN c ELSE None]

Used == ({path, tmp} \cup {fd[s] : s \in Saver}) \ {None}

(* What load reads: nothing, or the pieces of config.yaml.                 *)
File == IF path = None THEN None ELSE data[path]

Goto(s, label) == pc' = [pc EXCEPT ![s] = label]
Fault == faults < MaxFaults /\ faults' = faults + 1

-----------------------------------------------------------------------------
(* The callers take config_lock first, or do not.                          *)
Begin(s, c) ==
  /\ pc[s] = "idle"
  /\ IF s \in Locked THEN lock = None /\ lock' = s ELSE UNCHANGED lock
  /\ conf' = [conf EXCEPT ![s] = c]
  /\ before' = [before EXCEPT ![s] = File]
  /\ Goto(s, "open")
  /\ UNCHANGED <<files, fd, pos, faults, kills>>

OpenAppending(s) ==  \* variant: what is in the file stays in it
  /\ pc[s] = "open"
  /\ \E i \in Inode :
       /\ IF tmp # None THEN i = tmp /\ UNCHANGED data
          ELSE i \notin Used /\ data' = [data EXCEPT ![i] = Empty]
       /\ tmp' = i
       /\ fd' = [fd EXCEPT ![s] = i]
  /\ pos' = [pos EXCEPT ![s] = 0]
  /\ Goto(s, "write")
  /\ UNCHANGED <<path, conf, lock, before, faults, kills>>

(* open(tmp_path, 'w'): truncates the file if there is one.                *)
Open(s) ==
  /\ pc[s] = "open"
  /\ \E i \in Inode :
       /\ IF tmp # None THEN i = tmp ELSE i \notin Used
       /\ data' = [data EXCEPT ![i] = Empty]
       /\ tmp' = i
       /\ fd' = [fd EXCEPT ![s] = i]
  /\ pos' = [pos EXCEPT ![s] = 0]
  /\ Goto(s, "write")
  /\ UNCHANGED <<path, conf, lock, before, faults, kills>>

WriteOn(s) ==  \* variant: one piece too many
  /\ pc[s] = "write"
  /\ data' = [data EXCEPT ![fd[s]][pos[s] + 1] = conf[s]]
  /\ pos' = [pos EXCEPT ![s] = @ + 1]
  /\ UNCHANGED <<path, tmp, pc, conf, fd, lock, before, faults, kills>>

(* yaml.dump writes as the buffer fills, and with the end of the `with'.   *)
Write(s) ==
  /\ pc[s] = "write"
  /\ pos[s] < Size[conf[s]]
  /\ data' = [data EXCEPT ![fd[s]][pos[s] + 1] = conf[s]]
  /\ pos' = [pos EXCEPT ![s] = @ + 1]
  /\ UNCHANGED <<path, tmp, pc, conf, fd, lock, before, faults, kills>>

Close(s) ==
  /\ pc[s] = "write"
  /\ pos[s] = Size[conf[s]]
  /\ fd' = [fd EXCEPT ![s] = None]
  /\ Goto(s, "replace")
  /\ UNCHANGED <<files, conf, pos, lock, before, faults, kills>>

(* os.replace; without a .tmp it raises FileNotFoundError.                 *)
Replace(s) ==
  /\ pc[s] = "replace"
  /\ IF tmp = None THEN Goto(s, "cleanup") /\ UNCHANGED files
     ELSE /\ path' = tmp /\ tmp' = None
          /\ Goto(s, "saved")
          /\ UNCHANGED data
  /\ UNCHANGED <<conf, fd, pos, lock, before, faults, kills>>

(* No space, a read-only file system, ...                                  *)
CallFails(s) ==
  /\ Fault
  /\ pc[s] \in {"open", "write", "replace"}
  /\ fd' = [fd EXCEPT ![s] = None]
  /\ Goto(s, "cleanup")
  /\ UNCHANGED <<files, conf, pos, lock, before, kills>>

CleanupOfPath(s) ==  \* variant: removes the wrong file
  /\ pc[s] = "cleanup"
  /\ path' = None
  /\ Goto(s, "failed")
  /\ UNCHANGED <<tmp, data, conf, fd, pos, lock, before, faults, kills>>

(* The except block: the .tmp goes, whoever wrote it; an error is ignored. *)
Cleanup(s) ==
  /\ pc[s] = "cleanup"
  /\ \/ tmp' = None /\ UNCHANGED faults
     \/ Fault /\ UNCHANGED tmp
  /\ Goto(s, "failed")
  /\ UNCHANGED <<path, data, conf, fd, pos, lock, before, kills>>

(* save_to_local returns, and its caller lets go of the lock.              *)
Return(s) ==
  /\ pc[s] \in {"saved", "failed"}
  /\ lock' = IF lock = s THEN None ELSE lock
  /\ Goto(s, "idle")
  /\ UNCHANGED <<files, conf, fd, pos, before, faults, kills>>

(* The process dies and starts again: files stay, the .tmp too.            *)
Kill ==
  /\ kills < MaxKills
  /\ kills' = kills + 1
  /\ pc' = [s \in Saver |-> "idle"]
  /\ fd' = [s \in Saver |-> None]
  /\ lock' = None
  /\ UNCHANGED <<files, conf, pos, before, faults>>

-----------------------------------------------------------------------------
Init ==
  /\ path \in Inode \cup {None}
  /\ tmp = None
  /\ data \in [Inode -> {Empty} \cup {Image(c) : c \in Config}]
  /\ \A i \in Inode : data[i] = Empty <=> i # path
  /\ pc = [s \in Saver |-> "idle"]
  /\ conf = [s \in Saver |-> None]
  /\ fd = [s \in Saver |-> None]
  /\ pos = [s \in Saver |-> 0]
  /\ lock = None
  /\ before = [s \in Saver |-> None]
  /\ faults = 0 /\ kills = 0

Save(s) == Open(s) \/ Write(s) \/ Close(s) \/ Replace(s) \/ CallFails(s) \/ Cleanup(s)
           \/ Return(s)

Next ==
  \/ \E s \in Saver : (\E c \in Config : Begin(s, c)) \/ Save(s)
  \/ Kill

Spec == Init /\ [][Next]_vars

-----------------------------------------------------------------------------
(* Properties                                                              *)

TypeOK ==
  /\ path \in Inode \cup {None} /\ tmp \in Inode \cup {None}
  /\ data \in [Inode -> [Chunk -> Config \cup {None}]]
  /\ pc \in [Saver -> Pc]
  /\ conf \in [Saver -> Config \cup {None}]
  /\ \A s \in Saver : pc[s] # "idle" => conf[s] # None
  /\ fd \in [Saver -> Inode \cup {None}]
  /\ \A s \in Saver : pc[s] = "write" => fd[s] # None
  /\ pos \in [Saver -> 0..MaxSize]
  /\ lock \in Locked \cup {None}
  /\ before \in [Saver -> [Chunk -> Config \cup {None}] \cup {None}]
  /\ faults \in 0..MaxFaults /\ kills \in 0..MaxKills

(* config_loader.py:155: "Save configuration to local config.yaml file     *)
(* using atomic write": at any moment, a kill in the middle of a save      *)
(* included, config.yaml is not there or holds one configuration, whole.   *)
FileWhole == File = None \/ \E c \in Config : File = Image(c)

(* "True if save succeeded, False otherwise": a save that returned True    *)
(* put its configuration into the file, one that returned False left the   *)
(* file as it found it.                                                    *)
SaveAllOrNothing ==
  \A s \in Saver :
    /\ pc[s] = "saved" => File = Image(conf[s])
    /\ pc[s] = "failed" => File = before[s]

(* A save by system calls implements the save of module AtomicFile, which  *)
(* happens as a whole or not at all: its effect is the rename.             *)
phaseBar ==
  [s \in Saver |-> IF pc[s] \in {"open", "write", "replace", "cleanup"} THEN "saving"
                   ELSE pc[s]]

A == INSTANCE AtomicFile
       WITH file <- File, phase <- phaseBar, Content <- [c \in Config |-> Image(c)]

ImplementsAtomicFile == A!Spec
=============================================================================
