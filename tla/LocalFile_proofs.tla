-------------------------- MODULE LocalFile_proofs --------------------------
(***************************************************************************)
(* Proofs about module LocalFile, for any savers, configurations and       *)
(* numbers of writes, failures and kills: the types always, and, as long   *)
(* as every saver holds config_lock, that config.yaml is never seen half   *)
(* written and that a save happens as a whole or not at all.               *)
(***************************************************************************)
EXTENDS LocalFile, TLAPS

(* A saver that runs is the one that holds config_lock.                    *)
Holds(s) == pc[s] # "idle" => lock = s

(* What is in the .tmp of a saver that writes, and of one that is about to *)
(* rename it.                                                              *)
Prefix(c, n) == [k \in Chunk |-> IF k <= n THEN c ELSE None]

Writes(s) ==
  pc[s] = "write" =>
    /\ tmp = fd[s]
    /\ pos[s] <= Size[conf[s]]
    /\ data[tmp] = Prefix(conf[s], pos[s])

Renames(s) ==
  pc[s] = "replace" => tmp # None /\ data[tmp] = Image(conf[s])

(* Until the rename the file is the one the saver found, then its own.     *)
Untouched(s) ==
  pc[s] \in {"open", "write", "replace", "cleanup", "failed"} => File = before[s]

Written(s) == pc[s] = "saved" => File = Image(conf[s])

(* config.yaml and config.yaml.tmp are two files.                          *)
Apart == path # None => path # tmp

SavesAlone ==
  /\ TypeOK
  /\ Apart
  /\ FileWhole
  /\ \A s \in Saver : Holds(s) /\ Writes(s) /\ Renames(s) /\ Untouched(s) /\ Written(s)

-----------------------------------------------------------------------------
LEMMA FileType ==
  ASSUME TypeOK
  PROVE  File \in [Chunk -> Config \cup {None}] \cup {None}
BY DEF TypeOK, File

LEMMA EmptyType == Empty \in [Chunk -> Config \cup {None}]
BY DEF Empty

LEMMA InitTyped == ASSUME Init PROVE TypeOK
<1> USE LocalFileConstants
<1>1. data \in [Inode -> [Chunk -> Config \cup {None}]]
  BY DEF Init, Empty, Image
<1>2. pos \in [Saver -> 0..MaxSize]
  BY DEF Init
<1> QED BY <1>1, <1>2 DEF Init, TypeOK, Pc

(* Types hold whoever holds the lock.                                      *)
LEMMA StepTyped == ASSUME TypeOK, [Next]_vars PROVE TypeOK'
<1> USE LocalFileConstants
<1>1. ASSUME NEW s \in Saver, NEW c \in Config, Begin(s, c) PROVE TypeOK'
  <2>1. before' \in [Saver -> [Chunk -> Config \cup {None}] \cup {None}]
    BY <1>1, FileType DEF TypeOK, Begin
  <2>2. lock' \in Locked \cup {None}
    BY <1>1 DEF TypeOK, Begin
  <2> QED BY <1>1, <2>1, <2>2 DEF TypeOK, Begin, Goto, files, Pc
<1>2. ASSUME NEW s \in Saver, Open(s) PROVE TypeOK'
  <2>1. PICK i \in Inode : data' = [data EXCEPT ![i] = Empty] /\ tmp' = i
                           /\ fd' = [fd EXCEPT ![s] = i]
    BY <1>2 DEF Open
  <2>2. data' \in [Inode -> [Chunk -> Config \cup {None}]]
    BY <2>1, EmptyType DEF TypeOK
  <2>3. pos' \in [Saver -> 0..MaxSize]
    BY <1>2 DEF Open, TypeOK
  <2> QED BY <1>2, <2>1, <2>2, <2>3 DEF TypeOK, Open, Goto, Pc
<1>3. ASSUME NEW s \in Saver, Write(s) PROVE TypeOK'
  <2>1. fd[s] \in Inode /\ conf[s] \in Config /\ Size[conf[s]] \in Chunk
    BY <1>3 DEF TypeOK, Write
  <2>2. pos[s] \in Nat /\ pos[s] + 1 <= MaxSize
    BY <1>3, <2>1 DEF TypeOK, Write, Chunk
  <2>3. pos' \in [Saver -> 0..MaxSize]
    BY <1>3, <2>2 DEF TypeOK, Write
  <2>4. data' \in [Inode -> [Chunk -> Config \cup {None}]]
    BY <1>3, <2>1 DEF TypeOK, Write
  <2> QED BY <1>3, <2>3, <2>4 DEF TypeOK, Write
<1>4. ASSUME NEW s \in Saver, Close(s) PROVE TypeOK'
  BY <1>4 DEF TypeOK, Close, Goto, files, Pc
<1>5. ASSUME NEW s \in Saver, Replace(s) PROVE TypeOK'
  BY <1>5 DEF TypeOK, Replace, Goto, files, Pc
<1>6. ASSUME NEW s \in Saver, CallFails(s) PROVE TypeOK'
  BY <1>6 DEF TypeOK, CallFails, Fault, Goto, files, Pc
<1>7. ASSUME NEW s \in Saver, Cleanup(s) PROVE TypeOK'
  BY <1>7 DEF TypeOK, Cleanup, Fault, Goto, Pc
<1>8. ASSUME NEW s \in Saver, Return(s) PROVE TypeOK'
  BY <1>8 DEF TypeOK, Return, Goto, files, Pc
<1>9. CASE Kill
  BY <1>9 DEF TypeOK, Kill, files, Pc
<1>10. CASE UNCHANGED vars
  BY <1>10 DEF TypeOK, vars, files
<1> QED BY <1>1, <1>2, <1>3, <1>4, <1>5, <1>6, <1>7, <1>8, <1>9, <1>10
        DEF Next, Save

(* TypeOK in every reachable state: what open, write and rename leave      *)
(* behind are files of whole pieces, and a saver that writes has a file.   *)
THEOREM TypeCorrect == Spec => []TypeOK
<1>1. Init => TypeOK BY InitTyped
<1>2. TypeOK /\ [Next]_vars => TypeOK' BY StepTyped
<1> QED BY <1>1, <1>2, PTL DEF Spec

-----------------------------------------------------------------------------
(* With config_lock held by every saver.                                   *)

LEMMA InitSaves == ASSUME Init PROVE SavesAlone
<1> USE LocalFileConstants
<1>1. TypeOK BY InitTyped
<1>2. FileWhole BY DEF Init, FileWhole, File
<1> QED BY <1>1, <1>2 DEF Init, SavesAlone, Apart, Holds, Writes, Renames, Untouched,
                          Written

(* The saver that runs is alone: the others are idle and stay so.          *)
LEMMA OthersIdle ==
  ASSUME SavesAlone, NEW s \in Saver, pc[s] # "idle", NEW u \in Saver, u # s
  PROVE  pc[u] = "idle"
BY DEF SavesAlone, Holds

(* A step that leaves the files alone, but for .tmp, leaves File alone.    *)
LEMMA SameFile ==
  ASSUME path' = path, path = None \/ data'[path] = data[path]
  PROVE  File' = File
BY DEF File

LEMMA FileWholeKept == ASSUME FileWhole, File' = File PROVE FileWhole'
BY DEF FileWhole, Image

LEMMA StepSaves ==
  ASSUME Locked = Saver, SavesAlone, [Next]_vars
  PROVE  SavesAlone'
<1> USE LocalFileConstants
<1>0. TypeOK /\ TypeOK'
  BY StepTyped DEF SavesAlone
<1>1. ASSUME NEW s \in Saver, NEW c \in Config, Begin(s, c) PROVE SavesAlone'
  <2>1. File' = File
    BY <1>1, SameFile DEF Begin, files
  <2>2. FileWhole' BY <2>1, FileWholeKept DEF SavesAlone
  <2>3. \A u \in Saver : u # s => pc[u] = "idle" /\ pc'[u] = "idle"
    BY <1>0, <1>1 DEF SavesAlone, Begin, Goto, Holds, TypeOK
  <2>4. pc'[s] = "open" /\ lock' = s /\ before'[s] = File
    BY <1>0, <1>1 DEF Begin, Goto, TypeOK
  <2>5. Apart' BY <1>1 DEF SavesAlone, Apart, Begin, files
  <2> QED BY <1>0, <2>1, <2>2, <2>3, <2>4, <2>5
          DEF SavesAlone, Holds, Writes, Renames, Untouched, Written
<1>2. ASSUME NEW s \in Saver, Open(s) PROVE SavesAlone'
  <2>1. PICK i \in Inode : /\ IF tmp # None THEN i = tmp ELSE i \notin Used
                           /\ data' = [data EXCEPT ![i] = Empty] /\ tmp' = i
                           /\ fd' = [fd EXCEPT ![s] = i]
    BY <1>2 DEF Open
  <2>2. path # i /\ path' = path
    BY <1>2, <2>1 DEF Open, Used, SavesAlone, Apart
  <2>3. File' = File
    BY <1>0, <2>1, <2>2, SameFile DEF TypeOK
  <2>4. FileWhole' BY <2>3, FileWholeKept DEF SavesAlone
  <2>5. \A u \in Saver : u # s => pc[u] = "idle" /\ pc'[u] = "idle"
    BY <1>0, <1>2, OthersIdle DEF Open, Goto, TypeOK
  <2>6. pc'[s] = "write" /\ pos'[s] = 0 /\ conf' = conf /\ lock' = lock
        /\ before' = before /\ fd'[s] = i
    BY <1>0, <1>2, <2>1 DEF Open, Goto, TypeOK
  <2>7. data'[i] = Prefix(conf'[s], 0)
    BY <1>0, <2>1 DEF TypeOK, Prefix, Empty, Chunk
  <2>8. pos'[s] <= Size[conf'[s]]
    BY <1>0, <1>2, <2>6 DEF TypeOK, Open, Chunk
  <2>9. lock = s /\ File = before[s]
    BY <1>2 DEF SavesAlone, Holds, Untouched, Open
  <2> QED BY <1>0, <2>1, <2>2, <2>3, <2>4, <2>5, <2>6, <2>7, <2>8, <2>9
          DEF SavesAlone, Apart, Holds, Writes, Renames, Untouched, Written
<1>3. ASSUME NEW s \in Saver, Write(s) PROVE SavesAlone'
  <2>1. tmp = fd[s] /\ data[tmp] = Prefix(conf[s], pos[s]) /\ lock = s
        /\ File = before[s] /\ tmp \in Inode /\ conf[s] \in Config
    BY <1>0, <1>3 DEF SavesAlone, Writes, Holds, Untouched, Write, TypeOK
  <2>2. path' = path /\ tmp' = tmp /\ pc' = pc /\ conf' = conf /\ fd' = fd
        /\ lock' = lock /\ before' = before
    BY <1>3 DEF Write
  <2>3. File' = File
    BY <1>0, <1>3, <2>1, SameFile DEF TypeOK, Write, SavesAlone, Apart
  <2>4. FileWhole' BY <2>3, FileWholeKept DEF SavesAlone
  <2>5. \A u \in Saver : u # s => pc[u] = "idle"
    BY <1>3, OthersIdle DEF Write
  <2>6. pos[s] \in Nat /\ pos'[s] = pos[s] + 1 /\ pos'[s] <= Size[conf[s]]
        /\ pos[s] + 1 \in Chunk
    BY <1>0, <1>3, <2>1 DEF TypeOK, Write, Chunk
  <2>7. data'[tmp] = [data[tmp] EXCEPT ![pos[s] + 1] = conf[s]]
    BY <1>0, <1>3, <2>1 DEF TypeOK, Write
  <2>8. data'[tmp] = Prefix(conf[s], pos[s] + 1)
    BY <2>1, <2>6, <2>7 DEF Prefix, Chunk
  <2> QED BY <1>0, <1>3, <2>1, <2>2, <2>3, <2>4, <2>5, <2>6, <2>8
          DEF SavesAlone, Apart, Holds, Writes, Renames, Untouched, Written, Write
<1>4. ASSUME NEW s \in Saver, Close(s) PROVE SavesAlone'
  <2>1. tmp = fd[s] /\ tmp # None /\ lock = s /\ File = before[s]
    BY <1>0, <1>4 DEF SavesAlone, Writes, Holds, Untouched, Close, TypeOK
  <2>7. data[tmp] = Image(conf[s])
    BY <1>4 DEF SavesAlone, Writes, Close, Prefix, Image
  <2>2. path' = path /\ tmp' = tmp /\ data' = data /\ conf' = conf /\ lock' = lock
        /\ before' = before
    BY <1>4 DEF Close, files
  <2>3. File' = File BY <2>2 DEF File
  <2>4. FileWhole' BY <2>3, FileWholeKept DEF SavesAlone
  <2>5. \A u \in Saver : u # s => pc[u] = "idle" /\ pc'[u] = "idle"
    BY <1>0, <1>4, OthersIdle DEF Close, Goto, TypeOK
  <2>6. pc'[s] = "replace"
    BY <1>0, <1>4 DEF Close, Goto, TypeOK
  <2> QED BY <1>0, <2>1, <2>2, <2>3, <2>4, <2>5, <2>6, <2>7
          DEF SavesAlone, Apart, Holds, Writes, Renames, Untouched, Written, Image
<1>5. ASSUME NEW s \in Saver, Replace(s) PROVE SavesAlone'
  <2>1. tmp # None /\ tmp \in Inode /\ data[tmp] = Image(conf[s]) /\ lock = s
        /\ conf[s] \in Config
    BY <1>0, <1>5 DEF SavesAlone, Renames, Holds, Replace, TypeOK
  <2>2. path' = tmp /\ tmp' = None /\ data' = data /\ conf' = conf /\ lock' = lock
        /\ pc' = [pc EXCEPT ![s] = "saved"]
    BY <1>5, <2>1 DEF Replace, Goto
  <2>3. File' = Image(conf[s])
    BY <2>1, <2>2 DEF File
  <2>4. FileWhole' BY <2>1, <2>3 DEF FileWhole, Image
  <2>5. \A u \in Saver : u # s => pc'[u] = "idle"
    BY <1>0, <1>5, <2>2, OthersIdle DEF Replace, TypeOK
  <2>6. pc'[s] = "saved"
    BY <1>0, <2>2 DEF TypeOK
  <2> QED BY <1>0, <2>1, <2>2, <2>3, <2>4, <2>5, <2>6
          DEF SavesAlone, Apart, Holds, Writes, Renames, Untouched, Written, Image
<1>6. ASSUME NEW s \in Saver, CallFails(s) \/ Cleanup(s) \/ Return(s)
      PROVE SavesAlone'
  <2>1. pc[s] # "idle" /\ lock = s
    BY <1>0, <1>6 DEF CallFails, Cleanup, Return, SavesAlone, Holds
  <2>2. path' = path /\ data' = data /\ conf' = conf /\ before' = before
        /\ tmp' \in {tmp, None}
    BY <1>6 DEF CallFails, Cleanup, Return, files
  <2>3. File' = File BY <2>2 DEF File
  <2>4. FileWhole' BY <2>3, FileWholeKept DEF SavesAlone
  <2>5. \A u \in Saver : u # s => pc[u] = "idle" /\ pc'[u] = "idle"
    BY <1>0, <1>6, <2>1, OthersIdle DEF CallFails, Cleanup, Return, Goto, TypeOK
  <2>6. Apart' BY <2>2 DEF SavesAlone, Apart
  <2>7. \/ pc'[s] = "idle"
        \/ pc'[s] \in {"cleanup", "failed"} /\ lock' = s /\ File = before[s]
    BY <1>0, <1>6, <2>1
    DEF CallFails, Cleanup, Return, Goto, TypeOK, SavesAlone, Untouched
  <2> QED BY <1>0, <2>2, <2>3, <2>4, <2>5, <2>6, <2>7
          DEF SavesAlone, Holds, Writes, Renames, Untouched, Written
<1>7. CASE Kill
  <2>1. File' = File BY <1>7 DEF Kill, files, File
  <2>2. FileWhole' BY <2>1, FileWholeKept DEF SavesAlone
  <2> QED BY <1>0, <1>7, <2>2
          DEF SavesAlone, Kill, files, Apart, Holds, Writes, Renames, Untouched, Written
<1>8. CASE UNCHANGED vars
  <2>1. File' = File BY <1>8 DEF vars, files, File
  <2>2. FileWhole' BY <2>1, FileWholeKept DEF SavesAlone
  <2> QED BY <1>0, <1>8, <2>1, <2>2
          DEF SavesAlone, vars, files, Apart, Holds, Writes, Renames, Untouched, Written,
              Prefix, Image
<1> QED BY <1>1, <1>2, <1>3, <1>4, <1>5, <1>6, <1>7, <1>8 DEF Next, Save

(* FileWhole when every saver holds config_lock, as scrapes and the        *)
(* management API do: whatever fails and whenever the process dies.        *)
THEOREM AtomicUnderLock ==
  ASSUME Locked = Saver
  PROVE  Spec => []FileWhole
<1>1. Init => SavesAlone BY InitSaves
<1>2. SavesAlone /\ [Next]_vars => SavesAlone' BY StepSaves
<1>3. SavesAlone => FileWhole BY DEF SavesAlone
<1> QED BY <1>1, <1>2, <1>3, PTL DEF Spec

(* SaveAllOrNothing when every saver holds config_lock: the answer of      *)
(* save_to_local says what became of the file.                             *)
THEOREM AllOrNothingUnderLock ==
  ASSUME Locked = Saver
  PROVE  Spec => []SaveAllOrNothing
<1>1. Init => SavesAlone BY InitSaves
<1>2. SavesAlone /\ [Next]_vars => SavesAlone' BY StepSaves
<1>3. SavesAlone => SaveAllOrNothing
  BY DEF SavesAlone, SaveAllOrNothing, Written, Untouched
<1> QED BY <1>1, <1>2, <1>3, PTL DEF Spec

-----------------------------------------------------------------------------
(* The refinement: Begin is the call, Replace its effect or, without a     *)
(* .tmp, nothing; the end of Cleanup the failure.  The other system calls  *)
(* leave the file and the phases alone.                                    *)
LEMMA PhaseType ==
  ASSUME TypeOK
  PROVE  /\ phaseBar \in [Saver -> {"idle", "saving", "saved", "failed"}]
         /\ \A s \in Saver :
              phaseBar[s] = IF pc[s] \in {"open", "write", "replace", "cleanup"}
                            THEN "saving" ELSE pc[s]
BY DEF TypeOK, Pc, phaseBar

(* A step of s moves the phase of s only.                                  *)
LEMMA PhaseMoves ==
  ASSUME TypeOK, NEW s \in Saver, NEW label \in Pc, Goto(s, label)
  PROVE  phaseBar' = [phaseBar EXCEPT ![s] =
                        IF label \in {"open", "write", "replace", "cleanup"}
                        THEN "saving" ELSE label]
BY DEF TypeOK, Goto, phaseBar

LEMMA InitAtomic == ASSUME Init PROVE A!Init
<1>1. File \in {[b \in Config |-> Image(b)][c] : c \in Config} \cup {None}
  BY DEF Init, File
<1>2. phaseBar = [s \in Saver |-> "idle"]
  BY DEF Init, phaseBar
<1> QED BY <1>1, <1>2 DEF Init, A!Init

LEMMA StepAtomic ==
  ASSUME Locked = Saver, SavesAlone, [Next]_vars
  PROVE  [A!Next]_A!vars
<1> USE LocalFileConstants
<1>0. TypeOK
  BY DEF SavesAlone
<1>1. ASSUME NEW s \in Saver, NEW c \in Config, Begin(s, c) PROVE A!Call(s, c)
  <2>1. phaseBar' = [phaseBar EXCEPT ![s] = "saving"]
    BY <1>0, <1>1, PhaseMoves DEF Begin, Pc
  <2>2. phaseBar[s] = "idle"
    BY <1>0, <1>1, PhaseType DEF Begin
  <2>3. File' = File
    BY <1>1 DEF Begin, files, File
  <2> QED BY <1>1, <2>1, <2>2, <2>3 DEF Begin, A!Call
<1>2. ASSUME NEW s \in Saver,
             Open(s) \/ Write(s) \/ Close(s) \/ CallFails(s) \/ (Replace(s) /\ tmp = None)
      PROVE  UNCHANGED A!vars
  <2>1. conf' = conf
    BY <1>2 DEF Open, Write, Close, CallFails, Replace
  <2>2. phaseBar' = phaseBar
    <3>1. pc[s] \in {"open", "write", "replace"}
      BY <1>2 DEF Open, Write, Close, CallFails, Replace
    <3>2. CASE Write(s)
      BY <3>2 DEF Write, phaseBar
    <3>3. CASE ~Write(s)
      <4>1. PICK label \in {"write", "replace", "cleanup"} : Goto(s, label)
        BY <1>2, <3>3 DEF Open, Close, CallFails, Replace
      <4>2. phaseBar' = [phaseBar EXCEPT ![s] = "saving"]
        BY <1>0, <4>1, PhaseMoves DEF Pc
      <4> QED BY <1>0, <3>1, <4>2, PhaseType
    <3> QED BY <3>2, <3>3
  <2>3. File' = File
    <3>1. CASE Open(s)
      <4>1. PICK i \in Inode : /\ IF tmp # None THEN i = tmp ELSE i \notin Used
                               /\ data' = [data EXCEPT ![i] = Empty]
        BY <3>1 DEF Open
      <4>2. path # i /\ path' = path
        BY <3>1, <4>1 DEF Open, Used, SavesAlone, Apart
      <4> QED BY <1>0, <4>1, <4>2, SameFile DEF TypeOK
    <3>2. CASE Write(s)
      <4>1. tmp = fd[s] /\ tmp \in Inode
        BY <1>0, <3>2 DEF SavesAlone, Writes, Write, TypeOK
      <4> QED BY <1>0, <3>2, <4>1, SameFile DEF TypeOK, Write, SavesAlone, Apart
    <3>3. CASE Close(s) \/ CallFails(s) \/ (Replace(s) /\ tmp = None)
      BY <3>3 DEF Close, CallFails, Replace, files, File
    <3> QED BY <1>2, <3>1, <3>2, <3>3
  <2> QED BY <2>1, <2>2, <2>3 DEF A!vars
<1>3. ASSUME NEW s \in Saver, Replace(s), tmp # None PROVE A!TakeEffect(s)
  <2>1. phaseBar' = [phaseBar EXCEPT ![s] = "saved"]
    BY <1>0, <1>3, PhaseMoves DEF Replace, Pc
  <2>2. phaseBar[s] = "saving"
    BY <1>0, <1>3, PhaseType DEF Replace
  <2>3. data[tmp] = Image(conf[s]) /\ conf[s] \in Config
    BY <1>0, <1>3 DEF SavesAlone, Renames, Replace, TypeOK
  <2>4. File' = Image(conf[s])
    BY <1>3, <2>3 DEF Replace, File
  <2> QED BY <1>3, <2>1, <2>2, <2>3, <2>4 DEF Replace, A!TakeEffect
<1>4. ASSUME NEW s \in Saver, Cleanup(s) PROVE A!Fail(s)
  <2>1. phaseBar' = [phaseBar EXCEPT ![s] = "failed"]
    BY <1>0, <1>4, PhaseMoves DEF Cleanup, Pc
  <2>2. phaseBar[s] = "saving"
    BY <1>0, <1>4, PhaseType DEF Cleanup
  <2> QED BY <1>4, <2>1, <2>2 DEF Cleanup, File, A!Fail
<1>5. ASSUME NEW s \in Saver, Return(s) PROVE A!Answer(s)
  <2>1. phaseBar' = [phaseBar EXCEPT ![s] = "idle"]
    BY <1>0, <1>5, PhaseMoves DEF Return, Pc
  <2>2. phaseBar[s] \in {"saved", "failed"}
    BY <1>0, <1>5, PhaseType DEF Return
  <2> QED BY <1>5, <2>1, <2>2 DEF Return, files, File, A!Answer
<1>6. CASE Kill
  <2>1. phaseBar' = [s \in Saver |-> "idle"]
    BY <1>6 DEF Kill, phaseBar
  <2> QED BY <1>6, <2>1 DEF Kill, files, File, A!Next, A!Die
<1>7. CASE UNCHANGED vars
  BY <1>7 DEF vars, files, File, phaseBar, A!vars
<1>8. ASSUME NEW s \in Saver, NEW c \in Config, Begin(s, c) PROVE A!Next
  BY <1>1, <1>8 DEF A!Next
<1>9. ASSUME NEW s \in Saver, Save(s) PROVE A!Next \/ UNCHANGED A!vars
  <2>1. A!TakeEffect(s) \/ A!Fail(s) \/ A!Answer(s) \/ UNCHANGED A!vars
    <3>1. CASE Open(s) \/ Write(s) \/ Close(s) \/ CallFails(s) \/ (Replace(s) /\ tmp = None)
      BY <1>2, <3>1, Zenon
    <3>2. CASE Replace(s) /\ tmp # None
      BY <1>3, <3>2
    <3>3. CASE Cleanup(s)
      BY <1>4, <3>3
    <3>4. CASE Return(s)
      BY <1>5, <3>4
    <3> QED BY <1>9, <3>1, <3>2, <3>3, <3>4 DEF Save
  <2>2. A!TakeEffect(s) \/ A!Fail(s) \/ A!Answer(s) => A!Next
    BY DEF A!Next
  <2> QED BY <2>1, <2>2
<1> QED BY <1>6, <1>7, <1>8, <1>9 DEF Next

(* ImplementsAtomicFile when every saver holds config_lock: to whoever     *)
(* reads config.yaml, a save is one step, taken between the call of        *)
(* save_to_local and its answer, or never taken.                           *)
THEOREM SaveImplementsAtomicFile ==
  ASSUME Locked = Saver
  PROVE  Spec => ImplementsAtomicFile
<1>1. Init => SavesAlone BY InitSaves
<1>2. SavesAlone /\ [Next]_vars => SavesAlone' BY StepSaves
<1>3. Init => A!Init BY InitAtomic
<1>4. SavesAlone /\ [Next]_vars => [A!Next]_A!vars BY StepAtomic
<1> QED BY <1>1, <1>2, <1>3, <1>4, PTL DEF Spec, ImplementsAtomicFile, A!Spec
=============================================================================
