-------------------------- MODULE Exporter_proofs --------------------------
(***************************************************************************)
(* Theorems about Exporter, for any device types, metrics, scrapes and     *)
(* background PUTs, any heap, and any number of requests, kills and        *)
(* failing calls.                                                          *)
(***************************************************************************)
EXTENDS Exporter, TLAPS

(* Where the main thread is tells what there is.  Waiting mode, where the  *)
(* management API is up before the collectors, needs an environment that   *)
(* names no device type.                                                   *)
LoadInv ==
  /\ main \in {"waiting", "init"} => collectors = None
  /\ main \in {"init", "idle", "apply", "swap", "save", "clear"} => cur # None
  /\ main = "waiting" => cur = None
  /\ main \notin {"waiting", "init"} => (cur = None <=> collectors = None)
  /\ main \in {"apply", "swap", "save"} => new # None
  /\ main = "save" => new = cur
  /\ main = "fallback" => env # StubMode
  /\ main = "fetch" /\ env = StubMode => cur = None
  /\ api /\ (cur = None \/ main = "init") => env = None

(* Every configuration somebody can reach has a type.                      *)
HeapInv ==
  /\ cur # None => type[cur] \in Type
  /\ new # None => type[new] \in Type
  /\ \A t \in Sync : carries[t] # None => type[carries[t]] \in Type

(* Except between the two assignments of apply_new_config the collectors   *)
(* are those of the current configuration.                                 *)
CollectorInv ==
  /\ main = "swap" => collectors = type[new]
  /\ collectors # None =>
       /\ main # "swap" => collectors = type[cur]
       /\ type[cur] \in Supported

ScrapeInv ==
  \A s \in Scrape : at[s] # "idle" => held[s] # None /\ collectors # None

IInv ==
  TypeOK /\ LoadInv /\ HeapInv /\ CollectorInv /\ ScrapeInv /\ FileStarts

LEMMA NoneIsNothing ==
  /\ None \notin Type /\ None \notin Obj /\ None \notin Supported /\ None \notin Config
  /\ StubMode # None /\ StubMode \notin Supported
  BY ExporterConstants

LEMMA InitInv == Init => IInv
<1> SUFFICES ASSUME Init PROVE IInv
  OBVIOUS
<1>1. NoMetrics \in Metrics
  BY DEF NoMetrics, Metrics
<1>2. TypeOK
  <2>1. row \in {None} \cup [conf : Config, ip : BOOLEAN] /\ reloads \in Nat
    BY ExporterConstants DEF Init
  <2>2. file \in Config \cup {None} /\ env \in EnvTypes
    BY ExporterConstants DEF Init
  <2>3. events \in 0..MaxEvents /\ faults \in 0..MaxFaults
    BY ExporterConstants DEF Init
  <2>4. /\ type \in [Obj -> Type \cup {None}]
        /\ ref \in [Obj -> Obj]
        /\ dict \in [Obj -> Metrics]
        /\ promised \in Metrics
    BY <1>1 DEF Init
  <2>5. /\ at \in [Scrape -> {"idle", "collect", "register"}]
        /\ held \in [Scrape -> Obj \cup {None}]
        /\ found \in [Scrape -> SUBSET Metric]
        /\ carries \in [Sync -> Obj \cup {None}]
        /\ sends \in [Sync -> Config \cup {None}]
    BY DEF Init
  <2>6. QED
    BY <2>1, <2>2, <2>3, <2>4, <2>5 DEF Init, TypeOK
<1>3. FileStarts
  BY ExporterConstants DEF Init, FileStarts
<1>4. QED
  BY <1>2, <1>3 DEF Init, IInv, LoadInv, HeapInv, CollectorInv, ScrapeInv

-----------------------------------------------------------------------------
(* The heap                                                                *)

LEMMA FreshIsFree ==
  ASSUME TypeOK, NEW c, Allocate(c)
  PROVE  /\ Fresh \in Obj
         /\ Fresh # cur /\ Fresh # new /\ \A t \in Sync : Fresh # carries[t]
<1>1. \E o \in Obj : o \notin InUse
  BY DEF Allocate
<1>2. Fresh \in Obj /\ Fresh \notin InUse
  BY <1>1 DEF Fresh
<1>3. Fresh \notin Roots
  BY <1>2 DEF InUse
<1>4. QED
  BY <1>2, <1>3, NoneIsNothing DEF Roots

(* A new configuration leaves the types of the others alone.               *)
LEMMA AllocateTypes ==
  ASSUME TypeOK, NEW c \in Config, Allocate(c)
  PROVE  /\ type' \in [Obj -> Type \cup {None}]
         /\ ref' \in [Obj -> Obj]
         /\ dict' \in [Obj -> Metrics]
         /\ type'[Fresh] = c.type
         /\ cur # None => type'[cur] = type[cur]
         /\ new # None => type'[new] = type[new]
         /\ \A t \in Sync : carries[t] # None => type'[carries[t]] = type[carries[t]]
  BY FreshIsFree DEF Allocate, Config, TypeOK

LEMMA FaultCounts ==
  ASSUME TypeOK, Fault \/ UNCHANGED faults
  PROVE  faults' \in 0..MaxFaults
  BY ExporterConstants DEF Fault, TypeOK

LEMMA EventCounts == ASSUME TypeOK, Event PROVE events' \in 0..MaxEvents
  BY ExporterConstants DEF Event, TypeOK

LEMMA ContentIsConfig ==
  ASSUME TypeOK, NEW o \in Obj, type[o] \in Type
  PROVE  Content(o) \in Config /\ Content(o).type = type[o]
  BY DEF Content, Config, TypeOK

LEMMA SpawnTypes ==
  ASSUME TypeOK, NEW o \in Obj, Spawn(o)
  PROVE  /\ carries' \in [Sync -> Obj \cup {None}]
         /\ \A t \in Sync : carries'[t] \in {carries[t], o}
         /\ sends' = sends
  BY DEF Spawn, TypeOK

-----------------------------------------------------------------------------
(* The main thread                                                         *)

LEMMA LoadedInv ==
  ASSUME IInv, NEW c \in Config, Loaded(c),
         main \in {"fetch", "fallback"},
         \/ UNCHANGED threads
         \/ Spawn(Fresh),
         UNCHANGED <<env, api, collectors>>
  PROVE  /\ cur' \in Obj \cup {None} /\ new' \in Obj \cup {None}
         /\ main' \in {"init", "apply"}
         /\ carries' \in [Sync -> Obj \cup {None}] /\ sends' = sends
         /\ type' \in [Obj -> Type \cup {None}]
         /\ ref' \in [Obj -> Obj] /\ dict' \in [Obj -> Metrics]
         /\ LoadInv' /\ HeapInv' /\ CollectorInv'
<1> USE NoneIsNothing DEF IInv
<1>1. Fresh \in Obj
  BY FreshIsFree DEF Loaded
<1>2. /\ type' \in [Obj -> Type \cup {None}]
      /\ ref' \in [Obj -> Obj]
      /\ dict' \in [Obj -> Metrics]
      /\ type'[Fresh] = c.type /\ c.type \in Type
      /\ cur # None => type'[cur] = type[cur]
      /\ new # None => type'[new] = type[new]
      /\ \A t \in Sync : carries[t] # None => type'[carries[t]] = type[carries[t]]
  BY AllocateTypes DEF Loaded, Config
<1>3. \/ cur = None /\ cur' = Fresh /\ main' = "init" /\ new' = new
      \/ cur # None /\ new' = Fresh /\ main' = "apply" /\ cur' = cur
  BY DEF Loaded
<1>4. /\ carries' \in [Sync -> Obj \cup {None}] /\ sends' = sends
      /\ \A t \in Sync : carries'[t] \in {carries[t], Fresh}
  BY <1>1, SpawnTypes DEF threads, TypeOK
<1>5. LoadInv'
  BY <1>1, <1>3 DEF LoadInv
<1>6. HeapInv'
  BY <1>1, <1>2, <1>3, <1>4 DEF HeapInv
<1>7. CollectorInv'
  BY <1>2, <1>3 DEF CollectorInv, LoadInv
<1>8. QED
  BY <1>1, <1>2, <1>3, <1>4, <1>5, <1>6, <1>7 DEF TypeOK

LEMMA FetchInv == ASSUME IInv, Fetch PROVE IInv'
<1> USE NoneIsNothing DEF IInv
<1>0. /\ main = "fetch" /\ env # StubMode /\ owed' = FALSE
      /\ UNCHANGED <<server, file, env, api, flag, collectors, scrapes, threads, events,
                     promised>>
      /\ Fault \/ UNCHANGED faults
  BY DEF Fetch
<1>f. faults' \in 0..MaxFaults
  BY <1>0, FaultCounts
<1>1. CASE row # None /\ Loaded(row.conf)
  <2>1. row.conf \in Config
    BY <1>1 DEF TypeOK
  <2>4. /\ cur' \in Obj \cup {None} /\ new' \in Obj \cup {None}
        /\ main' \in {"init", "apply"}
        /\ type' \in [Obj -> Type \cup {None}]
        /\ ref' \in [Obj -> Obj] /\ dict' \in [Obj -> Metrics]
        /\ LoadInv' /\ HeapInv' /\ CollectorInv'
    BY <1>0, <1>1, <2>1, LoadedInv
  <2>5. TypeOK'
    BY <1>0, <1>f, <2>4 DEF TypeOK, server, scrapes, threads
  <2>6. QED
    BY <1>0, <2>4, <2>5 DEF ScrapeInv, FileStarts, scrapes
<1>2. CASE main' = "fallback" /\ UNCHANGED <<cur, new, heap>>
  <2>2. TypeOK'
    BY <1>0, <1>f, <1>2 DEF TypeOK, server, scrapes, threads, heap
  <2>3. QED
    BY <1>0, <1>2, <2>2 DEF LoadInv, HeapInv, CollectorInv, ScrapeInv, FileStarts,
       scrapes, threads, heap
<1>3. QED
  BY <1>1, <1>2 DEF Fetch

LEMMA LocalIsConfig == ASSUME IInv, main = "fallback", Local # None
                       PROVE  /\ Local \in Config
                              /\ env # None => Local.type \in Supported
<1> USE NoneIsNothing DEF IInv
<1>1. CASE file # None
  BY <1>1 DEF Local, TypeOK, FileStarts
<1>2. CASE file = None
  <2>1. env \in Supported /\ Local = [type |-> env, metrics |-> NoMetrics]
    BY <1>2, ExporterConstants DEF Local, TypeOK, LoadInv
  <2>2. QED
    BY <2>1, ExporterConstants DEF Config, Metrics, NoMetrics
<1>3. QED
  BY <1>1, <1>2

LEMMA FallbackInv == ASSUME IInv, Fallback PROVE IInv'
<1> USE NoneIsNothing DEF IInv
<1>0. main = "fallback" /\ env # StubMode
      /\ UNCHANGED <<server, file, env, flag, collectors, scrapes, events, faults, history>>
  BY DEF Fallback, LoadInv
<1>1. CASE Local # None /\ Loaded(Local) /\ Spawn(Fresh) /\ UNCHANGED api
  <2>1. /\ cur' \in Obj \cup {None} /\ new' \in Obj \cup {None}
        /\ main' \in {"init", "apply"}
        /\ carries' \in [Sync -> Obj \cup {None}] /\ sends' = sends
        /\ type' \in [Obj -> Type \cup {None}]
        /\ ref' \in [Obj -> Obj] /\ dict' \in [Obj -> Metrics]
        /\ LoadInv' /\ HeapInv' /\ CollectorInv'
    BY <1>0, <1>1, LocalIsConfig, LoadedInv
  <2>2. TypeOK'
    BY <1>0, <1>1, <2>1 DEF TypeOK, server, scrapes, history
  <2>3. QED
    BY <1>0, <2>1, <2>2 DEF ScrapeInv, FileStarts, scrapes
<1>2. CASE /\ Local = None
           /\ main' = IF cur = None THEN "waiting" ELSE "clear"
           /\ api' = TRUE
           /\ UNCHANGED <<cur, new, heap, threads>>
  <2>1. TypeOK'
    BY <1>0, <1>2 DEF TypeOK, server, scrapes, threads, heap, history
  <2>2. env = None
    <3>1. SUFFICES ASSUME env # None PROVE FALSE
      OBVIOUS
    <3>2. env \in Type /\ NoMetrics \in Metrics
      BY <1>0, <3>1, ExporterConstants DEF TypeOK, NoMetrics, Metrics
    <3>3. [type |-> env, metrics |-> NoMetrics] # None
      BY <3>2 DEF Config
    <3>4. QED
      BY <1>2, <3>1, <3>3 DEF Local
  <2>3. QED
    BY <1>0, <1>2, <2>1, <2>2 DEF LoadInv, HeapInv, CollectorInv, ScrapeInv, FileStarts,
       scrapes, threads, heap
<1>3. QED
  BY <1>1, <1>2 DEF Fallback

LEMMA StubStartInv == ASSUME IInv, StubStart PROVE IInv'
<1> USE NoneIsNothing DEF IInv
<1> DEFINE c == [type |-> Stub,
                 metrics |-> [m \in Metric |-> IF m \in Offers[Stub] THEN "on" ELSE "unset"]]
<1>0. main = "fetch" /\ main' = "init" /\ cur' = Fresh /\ env = StubMode /\ Allocate(c)
      /\ UNCHANGED <<server, file, env, api, flag, new, collectors, scrapes, threads,
                     events, faults, history>>
  BY DEF StubStart
<1>1. c \in Config /\ c.type = Stub
  BY ExporterConstants DEF Config, Metrics
<1> HIDE DEF c
<1>2. /\ type' \in [Obj -> Type \cup {None}]
      /\ ref' \in [Obj -> Obj]
      /\ dict' \in [Obj -> Metrics]
      /\ type'[Fresh] = Stub
      /\ new # None => type'[new] = type[new]
      /\ \A t \in Sync : carries[t] # None => type'[carries[t]] = type[carries[t]]
  BY <1>0, <1>1, AllocateTypes
<1>3. Fresh \in Obj
  BY <1>0, FreshIsFree
<1>4. TypeOK'
  BY <1>0, <1>2, <1>3 DEF TypeOK, server, scrapes, threads, history
<1>5. cur = None /\ collectors = None
  BY <1>0 DEF LoadInv
<1>6. LoadInv'
  BY <1>0, <1>3, <1>5 DEF LoadInv
<1>7. HeapInv'
  BY <1>0, <1>2, ExporterConstants DEF HeapInv, threads
<1>8. CollectorInv' /\ ScrapeInv' /\ FileStarts'
  BY <1>0, <1>5 DEF CollectorInv, ScrapeInv, FileStarts, scrapes
<1>9. QED
  BY <1>4, <1>6, <1>7, <1>8

LEMMA PollInv == ASSUME IInv, Poll PROVE IInv'
<1> USE DEF IInv
<1>1. TypeOK'
  BY DEF Poll, TypeOK, server, heap, scrapes, threads, history
<1>2. env # StubMode \/ cur = None
  BY DEF Poll, LoadInv
<1>3. QED
  BY <1>1, <1>2 DEF Poll, LoadInv, HeapInv, CollectorInv, ScrapeInv, FileStarts,
     scrapes, threads, heap

LEMMA StartInv == ASSUME IInv, Start PROVE IInv'
<1> USE NoneIsNothing DEF IInv
<1>1. TypeOK'
  BY DEF Start, TypeOK, server, heap, scrapes, threads, history
<1>2. cur # None
  BY DEF Start, LoadInv
<1>3. QED
  BY <1>1, <1>2 DEF Start, LoadInv, HeapInv, CollectorInv, ScrapeInv, FileStarts,
     scrapes, threads, heap

LEMMA ProcessEndsInv ==
  ASSUME IInv, ProcessEnds, Event \/ UNCHANGED events
  PROVE  IInv'
<1> USE NoneIsNothing DEF IInv
<1>1. events' \in 0..MaxEvents
  BY EventCounts DEF TypeOK
<1>2. NoMetrics \in Metrics
  BY DEF NoMetrics, Metrics
<1>3. TypeOK'
  BY <1>1, <1>2 DEF ProcessEnds, TypeOK, server, heap
<1>4. QED
  BY <1>3 DEF ProcessEnds, LoadInv, HeapInv, CollectorInv, ScrapeInv, FileStarts

LEMMA ReloadInv == ASSUME IInv, Reload PROVE IInv'
<1> USE DEF IInv
<1>1. TypeOK'
  BY DEF Reload, TypeOK, server, heap, scrapes, threads, history
<1>2. QED
  BY <1>1 DEF Reload, LoadInv, HeapInv, CollectorInv, ScrapeInv, FileStarts,
     scrapes, threads, heap

(* The collectors change only when there are some for the new type.        *)
LEMMA ApplyInv == ASSUME IInv, Apply PROVE IInv'
<1> USE NoneIsNothing DEF IInv
<1>1. /\ main = "apply"
      /\ UNCHANGED <<server, file, env, api, flag, cur, heap, scrapes, threads, events,
                     faults, history>>
  BY DEF Apply
<1>2. /\ cur # None /\ new # None /\ collectors # None
      /\ collectors = type[cur] /\ type[cur] \in Supported
  BY <1>1 DEF LoadInv, CollectorInv
<1>3. \/ main' = "swap" /\ collectors' = type[new] /\ type[new] \in Supported /\ new' = new
      \/ main' = "clear" /\ new' = None /\ collectors' = collectors
  BY <1>2 DEF Apply
<1>4. TypeOK'
  BY <1>1, <1>3 DEF TypeOK, server, heap, scrapes, threads, history
<1>5. ScrapeInv' /\ FileStarts'
  BY <1>1, <1>3 DEF ScrapeInv, FileStarts, scrapes
<1>6. LoadInv' /\ HeapInv' /\ CollectorInv'
  BY <1>1, <1>2, <1>3 DEF LoadInv, HeapInv, CollectorInv, threads, heap
<1>7. QED
  BY <1>4, <1>5, <1>6

LEMMA SwapInv == ASSUME IInv, Swap PROVE IInv'
<1> USE NoneIsNothing DEF IInv
<1>1. /\ main = "swap" /\ main' = "save" /\ cur' = new
      /\ UNCHANGED <<server, file, env, api, flag, new, collectors, heap, scrapes, threads,
                     events, faults, history>>
  BY DEF Swap
<1>2. new # None /\ cur # None /\ collectors # None /\ collectors = type[new]
  BY <1>1 DEF LoadInv, CollectorInv
<1>3. TypeOK'
  BY <1>1 DEF TypeOK, server, heap, scrapes, threads, history
<1>4. type[new] \in Supported
  BY <1>2 DEF TypeOK
<1>5. QED
  BY <1>1, <1>2, <1>3, <1>4 DEF LoadInv, HeapInv, CollectorInv, ScrapeInv, FileStarts,
     scrapes, threads, heap

(* What is saved has collectors, so the exporter can start with it.        *)
LEMMA SaveInv == ASSUME IInv, Save PROVE IInv'
<1> USE NoneIsNothing DEF IInv
<1>1. /\ main = "save" /\ main' = "clear" /\ new' = None
      /\ file' = Content(new) \/ file' = file
      /\ UNCHANGED <<server, env, api, flag, cur, collectors, heap, scrapes, threads,
                     events, history>>
      /\ Fault \/ UNCHANGED faults
  BY DEF Save
<1>2. cur # None /\ new = cur /\ collectors # None /\ type[cur] \in Supported
  BY <1>1 DEF LoadInv, CollectorInv
<1>3. cur \in Obj /\ type[cur] \in Type
  BY <1>2 DEF TypeOK, HeapInv
<1>4. Content(new) \in Config /\ Content(new).type \in Supported
  BY <1>2, <1>3, ContentIsConfig
<1>5. faults' \in 0..MaxFaults
  BY <1>1, FaultCounts
<1>6. TypeOK'
  BY <1>1, <1>4, <1>5 DEF TypeOK, server, heap, scrapes, threads, history
<1>7. FileStarts'
  BY <1>1, <1>4 DEF FileStarts
<1>8. QED
  BY <1>1, <1>2, <1>6, <1>7 DEF LoadInv, HeapInv, CollectorInv, ScrapeInv,
     scrapes, threads, heap

LEMMA ClearFlagInv == ASSUME IInv, ClearFlag PROVE IInv'
<1> USE DEF IInv
<1>1. TypeOK'
  BY DEF ClearFlag, TypeOK, server, heap, scrapes, threads, history
<1>2. QED
  BY <1>1 DEF ClearFlag, LoadInv, HeapInv, CollectorInv, ScrapeInv, FileStarts,
     scrapes, threads, heap

LEMMA MainInv == ASSUME IInv, Main PROVE IInv'
<1>1. CASE StartFails
  BY <1>1, ProcessEndsInv DEF StartFails
<1>2. CASE ~StartFails
  BY <1>2, FetchInv, FallbackInv, StubStartInv, PollInv, StartInv, ReloadInv, ApplyInv,
     SwapInv, SaveInv, ClearFlagInv DEF Main
<1>3. QED
  BY <1>1, <1>2

-----------------------------------------------------------------------------
(* Scrapes                                                                 *)

LEMMA SnapshotInv == ASSUME IInv, NEW s \in Scrape, Snapshot(s) PROVE IInv'
<1> USE NoneIsNothing DEF IInv
<1>1. /\ collectors # None /\ at' = [at EXCEPT ![s] = "collect"]
      /\ UNCHANGED <<server, file, env, main, api, flag, cur, new, collectors, found,
                     health, threads, events, faults, history>>
  BY DEF Snapshot
<1>2. cur # None /\ main \notin {"waiting", "init"}
  BY <1>1 DEF LoadInv
<1>3. /\ cur \in Obj /\ type[cur] \in Type
  BY <1>2 DEF TypeOK, HeapInv
<1>4. /\ type' \in [Obj -> Type \cup {None}]
      /\ ref' \in [Obj -> Obj] /\ dict' \in [Obj -> Metrics]
      /\ cur # None => type'[cur] = type[cur]
      /\ new # None => type'[new] = type[new]
      /\ \A t \in Sync : carries[t] # None => type'[carries[t]] = type[carries[t]]
      /\ \E o \in Obj : held' = [held EXCEPT ![s] = o]
  <2> DEFINE c == [type |-> type[cur], metrics |-> NoMetrics]
  <2>1. CASE Allocate(c) /\ held' = [held EXCEPT ![s] = Fresh]
    <3>1. c \in Config
      BY <1>3 DEF Config, Metrics, NoMetrics
    <3> HIDE DEF c
    <3>2. QED
      BY <2>1, <3>1, AllocateTypes, FreshIsFree
  <2>2. CASE held' = [held EXCEPT ![s] = ref[cur]] /\ UNCHANGED heap
    BY <1>3, <2>2 DEF TypeOK, heap
  <2>3. QED
    BY <2>1, <2>2 DEF Snapshot
<1>5. TypeOK'
  BY <1>1, <1>4 DEF TypeOK, server, threads, history
<1>6. LoadInv' /\ FileStarts'
  BY <1>1 DEF LoadInv, FileStarts
<1>7. HeapInv'
  BY <1>1, <1>4 DEF HeapInv, threads
<1>8. CollectorInv'
  BY <1>1, <1>2, <1>4 DEF CollectorInv, LoadInv
<1>9. ScrapeInv'
  BY <1>1, <1>4 DEF ScrapeInv, TypeOK
<1>10. QED
  BY <1>5, <1>6, <1>7, <1>8, <1>9

LEMMA FinishTypes ==
  ASSUME TypeOK, NEW s \in Scrape, Finish(s)
  PROVE  /\ at' \in [Scrape -> {"idle", "collect", "register"}]
         /\ held' \in [Scrape -> Obj \cup {None}]
         /\ found' \in [Scrape -> SUBSET Metric]
         /\ \A r \in Scrape : at'[r] # "idle" => at[r] # "idle" /\ held'[r] = held[r]
  BY DEF Finish, TypeOK

LEMMA CollectInv == ASSUME IInv, NEW s \in Scrape, Collect(s) PROVE IInv'
<1> USE NoneIsNothing DEF IInv
<1>1. /\ at[s] = "collect"
      /\ UNCHANGED <<server, file, env, main, api, flag, cur, new, collectors, heap,
                     threads, events, faults, history>>
  BY DEF Collect
<1>2. collectors \in Type
  BY <1>1, ExporterConstants DEF ScrapeInv, TypeOK
<1>3. /\ at' \in [Scrape -> {"idle", "collect", "register"}]
      /\ held' \in [Scrape -> Obj \cup {None}]
      /\ found' \in [Scrape -> SUBSET Metric]
      /\ health' \in {"starting", "healthy", "degraded"}
      /\ \A r \in Scrape : at'[r] # "idle" => at[r] # "idle" /\ held'[r] = held[r]
  <2>1. PICK ms \in SUBSET Offers[collectors] :
          \/ Finish(s) /\ health' = "degraded"
          \/ /\ health' = "healthy"
             /\ found' = [found EXCEPT ![s] = ms]
             /\ at' = [at EXCEPT ![s] = "register"]
             /\ UNCHANGED held
    BY DEF Collect
  <2>2. ms \in SUBSET Metric
    BY <1>2, ExporterConstants
  <2>3. CASE Finish(s)
    BY <2>1, <2>3, FinishTypes
  <2>4. CASE ~Finish(s)
    BY <1>1, <2>1, <2>2, <2>4 DEF TypeOK
  <2>5. QED
    BY <2>3, <2>4
<1>4. TypeOK'
  BY <1>1, <1>3 DEF TypeOK, server, heap, threads, history
<1>5. ScrapeInv'
  BY <1>1, <1>3 DEF ScrapeInv
<1>6. QED
  BY <1>1, <1>4, <1>5 DEF LoadInv, HeapInv, CollectorInv, FileStarts, threads, heap

(* A request or a scrape that changes the metrics of the current           *)
(* configuration may save and sync it; its device type stays.              *)
LEMMA MetricsInv ==
  ASSUME IInv, cur # None, env # None => type[cur] \in Supported,
         UNCHANGED <<server, env, main, api, flag, cur, new, collectors, type>>,
         ref' \in [Obj -> Obj], dict' \in [Obj -> Metrics],
         \/ file' = Content(cur)' /\ Spawn(cur)
         \/ UNCHANGED <<file, threads>>,
         Fault \/ UNCHANGED faults,
         Event \/ UNCHANGED events,
         at' \in [Scrape -> {"idle", "collect", "register"}],
         held' \in [Scrape -> Obj \cup {None}],
         found' \in [Scrape -> SUBSET Metric],
         \A r \in Scrape : at'[r] # "idle" => at[r] # "idle" /\ held'[r] = held[r],
         UNCHANGED health,
         owed' \in BOOLEAN, promised' \in Metrics
  PROVE  IInv'
<1> USE NoneIsNothing DEF IInv
<1>1. cur \in Obj /\ type[cur] \in Type
  BY DEF TypeOK, HeapInv
<1>2. faults' \in 0..MaxFaults /\ events' \in 0..MaxEvents
  BY FaultCounts, EventCounts DEF TypeOK
<1>3. /\ carries' \in [Sync -> Obj \cup {None}]
      /\ \A t \in Sync : carries'[t] \in {carries[t], cur}
      /\ sends' = sends
  <2>1. CASE Spawn(cur)
    BY <1>1, <2>1, SpawnTypes
  <2>2. CASE UNCHANGED threads
    BY <2>2 DEF threads, TypeOK
  <2>3. QED
    BY <2>1, <2>2
<1>4. file' \in Config \cup {None} /\ FileStarts'
  <2>1. CASE file' = Content(cur)'
    <3>1. ref'[cur] \in Obj
      BY <1>1
    <3>2. file' = [type |-> type[cur], metrics |-> dict'[ref'[cur]]]
      BY <2>1 DEF Content
    <3>3. file' \in Config /\ file'.type = type[cur]
      BY <1>1, <3>1, <3>2 DEF Config
    <3>4. QED
      BY <3>3 DEF FileStarts
  <2>2. CASE UNCHANGED file
    BY <2>2 DEF FileStarts, TypeOK
  <2>3. QED
    BY <2>1, <2>2
<1>5. TypeOK'
  BY <1>2, <1>3, <1>4 DEF TypeOK, server
<1>6. LoadInv' /\ CollectorInv' /\ ScrapeInv'
  BY DEF LoadInv, CollectorInv, ScrapeInv
<1>7. HeapInv'
  BY <1>1, <1>3 DEF HeapInv
<1>8. QED
  BY <1>4, <1>5, <1>6, <1>7

LEMMA RegisterInv == ASSUME IInv, NEW s \in Scrape, Register(s) PROVE IInv'
<1> USE NoneIsNothing DEF IInv
<1> DEFINE fresh == {m \in found[s] : dict[held[s]][m] = "unset"}
<1>1. /\ at[s] = "register" /\ Finish(s)
      /\ UNCHANGED <<server, env, main, api, flag, cur, new, collectors, health, events,
                     history>>
  BY DEF Register
<1>2. collectors # None /\ cur # None /\ held[s] \in Obj /\ type[cur] \in Supported
  BY <1>1 DEF ScrapeInv, LoadInv, CollectorInv, TypeOK
<1>3. /\ at' \in [Scrape -> {"idle", "collect", "register"}]
      /\ held' \in [Scrape -> Obj \cup {None}]
      /\ found' \in [Scrape -> SUBSET Metric]
      /\ \A r \in Scrape : at'[r] # "idle" => at[r] # "idle" /\ held'[r] = held[r]
  BY <1>1, FinishTypes
<1>4. owed' \in BOOLEAN /\ promised' \in Metrics
  BY <1>1 DEF TypeOK, history
<1>5. /\ type' = type /\ ref' \in [Obj -> Obj] /\ dict' \in [Obj -> Metrics]
      /\ \/ file' = Content(cur)' /\ Spawn(cur)
         \/ UNCHANGED <<file, threads>>
      /\ Fault \/ UNCHANGED faults
  <2>1. CASE UNCHANGED <<file, heap, threads, faults>>
    BY <2>1 DEF heap, TypeOK
  <2>2. CASE /\ dict' = [dict EXCEPT ![held[s]] =
                           [m \in Metric |-> IF m \in fresh THEN "on" ELSE @[m]]]
             /\ ref' = [ref EXCEPT ![cur] = held[s]]
             /\ UNCHANGED type
             /\ \/ file' = Content(cur)' /\ Spawn(cur) /\ UNCHANGED faults
                \/ Fault /\ UNCHANGED <<file, threads>>
    <3>1. ref' \in [Obj -> Obj]
      BY <1>2, <2>2 DEF TypeOK
    <3>2. [m \in Metric |-> IF m \in fresh THEN "on" ELSE dict[held[s]][m]] \in Metrics
      BY <1>2 DEF TypeOK, Metrics
    <3>3. dict' \in [Obj -> Metrics]
      BY <1>2, <2>2, <3>2 DEF TypeOK
    <3>4. QED
      BY <2>2, <3>1, <3>3
  <2>3. QED
    BY <2>1, <2>2 DEF Register
<1>6. QED
  BY <1>1, <1>2, <1>3, <1>4, <1>5, MetricsInv

-----------------------------------------------------------------------------
(* The management API, the background PUTs and the server                  *)

(* With a DEVICE_TYPE the API is not up before the collectors are, so what *)
(* it saves has collectors.                                                *)
LEMMA EnableMetricsInv ==
  ASSUME IInv, NEW ms \in SUBSET Metric, NEW v \in {"on", "off"}, NEW b \in BOOLEAN,
         EnableMetrics(ms, v, b)
  PROVE  IInv'
<1> USE NoneIsNothing DEF IInv
<1> DEFINE d == ref[cur]
           known == {m \in ms : dict[d][m] # "unset"}
           Promised(x) == [m \in Metric |-> IF m \in ms THEN x ELSE promised[m]]
<1>1. /\ Event /\ api /\ cur # None
      /\ UNCHANGED <<server, env, main, api, flag, cur, new, collectors, type, ref,
                     scrapes, owed>>
      /\ dict' = [dict EXCEPT ![d] = [m \in Metric |-> IF m \in known THEN v ELSE @[m]]]
      /\ promised' \in {Promised("unset"), Promised(v)}
      /\ \/ file' = Content(cur)' /\ Spawn(cur)
         \/ UNCHANGED <<file, threads>>
      /\ Fault \/ UNCHANGED faults
  BY DEF EnableMetrics
<1>2. env # None => type[cur] \in Supported
  BY <1>1 DEF LoadInv, CollectorInv
<1>3. d \in Obj
  BY <1>1 DEF TypeOK
<1>4. [m \in Metric |-> IF m \in known THEN v ELSE dict[d][m]] \in Metrics
  BY <1>3 DEF TypeOK, Metrics
<1>5. dict' \in [Obj -> Metrics] /\ ref' \in [Obj -> Obj]
  BY <1>1, <1>3, <1>4 DEF TypeOK
<1>6. promised' \in Metrics
  BY <1>1 DEF TypeOK, Metrics
<1>7. /\ at' \in [Scrape -> {"idle", "collect", "register"}]
      /\ held' \in [Scrape -> Obj \cup {None}]
      /\ found' \in [Scrape -> SUBSET Metric]
      /\ owed' \in BOOLEAN
      /\ UNCHANGED <<at, held, health>>
  BY <1>1 DEF TypeOK, scrapes
<1>8. QED
  BY <1>1, <1>2, <1>5, <1>6, <1>7, MetricsInv

LEMMA ReloadArrivesInv == ASSUME IInv, ReloadArrives PROVE IInv'
<1> USE DEF IInv
<1>1. /\ reloads > 0 /\ reloads' = reloads - 1
      /\ flag' \in {flag, api} /\ owed' \in {owed, api}
      /\ UNCHANGED <<row, file, env, main, api, cur, new, collectors, heap, scrapes,
                     threads, events, promised>>
      /\ Fault \/ UNCHANGED faults
  BY DEF ReloadArrives
<1>2. faults' \in 0..MaxFaults /\ reloads' \in Nat
  BY <1>1, FaultCounts DEF TypeOK
<1>3. TypeOK'
  BY <1>1, <1>2 DEF TypeOK, heap, scrapes, threads
<1>4. QED
  BY <1>1, <1>3 DEF LoadInv, HeapInv, CollectorInv, ScrapeInv, FileStarts,
     scrapes, threads, heap

LEMMA SendPutInv == ASSUME IInv, NEW t \in Sync, SendPut(t) PROVE IInv'
<1> USE NoneIsNothing DEF IInv
<1>1. /\ carries[t] # None
      /\ sends' = [sends EXCEPT ![t] = Content(carries[t])]
      /\ carries' = [carries EXCEPT ![t] = None]
      /\ UNCHANGED <<server, file, env, main, api, flag, cur, new, collectors, heap,
                     scrapes, events, faults, history>>
  BY DEF SendPut
<1>2. carries[t] \in Obj /\ type[carries[t]] \in Type
  BY <1>1 DEF TypeOK, HeapInv
<1>3. Content(carries[t]) \in Config
  BY <1>2, ContentIsConfig
<1>4. TypeOK'
  BY <1>1, <1>3 DEF TypeOK, server, heap, scrapes, history
<1>5. HeapInv'
  BY <1>1 DEF HeapInv, heap, TypeOK
<1>6. QED
  BY <1>1, <1>4, <1>5 DEF LoadInv, CollectorInv, ScrapeInv, FileStarts, scrapes, heap

LEMMA PutArrivesInv == ASSUME IInv, NEW t \in Sync, PutArrives(t) PROVE IInv'
<1> USE NoneIsNothing DEF IInv
<1> DEFINE ip == row # None /\ row.ip
<1>1. /\ sends[t] # None /\ sends' = [sends EXCEPT ![t] = None]
      /\ \/ /\ row' = [conf |-> sends[t], ip |-> ip]
            /\ reloads' = reloads + (IF ip THEN 1 ELSE 0)
         \/ UNCHANGED server
      /\ Fault \/ UNCHANGED faults
      /\ UNCHANGED <<file, env, main, api, flag, cur, new, collectors, heap, scrapes,
                     carries, events, history>>
  BY DEF PutArrives
<1>2. sends[t] \in Config
  BY <1>1 DEF TypeOK
<1>3. row' \in {None} \cup [conf : Config, ip : BOOLEAN] /\ reloads' \in Nat
  <2>1. ip \in BOOLEAN
    BY DEF TypeOK
  <2> HIDE DEF ip
  <2>2. CASE UNCHANGED server
    BY <2>2 DEF TypeOK, server
  <2>3. CASE row' = [conf |-> sends[t], ip |-> ip] /\ reloads' = reloads + (IF ip THEN 1 ELSE 0)
    <3>1. reloads' \in Nat
      BY <2>3 DEF TypeOK
    <3>2. QED
      BY <1>2, <2>1, <2>3, <3>1
  <2>4. QED
    BY <1>1, <2>2, <2>3
<1>4. faults' \in 0..MaxFaults
  BY <1>1, FaultCounts
<1>5. TypeOK'
  BY <1>1, <1>3, <1>4 DEF TypeOK, heap, scrapes, history
<1>6. QED
  BY <1>1, <1>5 DEF LoadInv, HeapInv, CollectorInv, ScrapeInv, FileStarts, scrapes, heap

(* What operators do to the server's row does not touch the exporter.      *)
LEMMA OperatorInv ==
  ASSUME IInv,
         (\E c \in Edits, n \in {0, 1} : Edit(c, n)) \/ Remove \/ AskReload
  PROVE  IInv'
<1> USE DEF IInv
<1>1. /\ Event
      /\ UNCHANGED <<file, env, main, api, flag, cur, new, collectors, heap, scrapes,
                     threads, faults, owed>>
  BY DEF Edit, Remove, AskReload, history
<1>2. events' \in 0..MaxEvents
  BY <1>1, EventCounts
<1>3. /\ row' \in {None} \cup [conf : Config, ip : BOOLEAN]
      /\ reloads' \in Nat
      /\ promised' \in Metrics
  <2>1. NoMetrics \in Metrics
    BY DEF NoMetrics, Metrics
  <2>2. CASE \E c \in Edits, n \in {0, 1} : Edit(c, n)
    <3>1. PICK c \in Edits, n \in {0, 1} : Edit(c, n)
      BY <2>2
    <3>2. c \in Config
      BY ExporterConstants
    <3>3. QED
      BY <2>1, <3>1, <3>2 DEF Edit, TypeOK
  <2>3. CASE Remove
    BY <2>1, <2>3 DEF Remove, TypeOK
  <2>4. CASE AskReload
    BY <2>4 DEF AskReload, TypeOK, history
  <2>5. QED
    BY <2>2, <2>3, <2>4
<1>4. TypeOK'
  BY <1>1, <1>2, <1>3 DEF TypeOK, heap, scrapes, threads
<1>5. QED
  BY <1>1, <1>4 DEF LoadInv, HeapInv, CollectorInv, ScrapeInv, FileStarts,
     scrapes, threads, heap

-----------------------------------------------------------------------------
LEMMA StutterInv == ASSUME IInv, UNCHANGED vars PROVE IInv'
  BY DEF IInv, TypeOK, LoadInv, HeapInv, CollectorInv, ScrapeInv, FileStarts, vars,
     server, heap, scrapes, threads, history

LEMMA NextInv == ASSUME IInv, Next PROVE IInv'
<1>1. CASE Main
  BY <1>1, MainInv
<1>2. CASE \E s \in Scrape : Snapshot(s) \/ Scraping(s)
  BY <1>2, SnapshotInv, CollectInv, RegisterInv DEF Scraping
<1>3. CASE \E t \in Sync : Syncing(t)
  BY <1>3, SendPutInv, PutArrivesInv DEF Syncing
<1>4. CASE ReloadArrives
  BY <1>4, ReloadArrivesInv
<1>5. CASE \E ms \in SUBSET Metric, v \in {"on", "off"}, b \in BOOLEAN :
             EnableMetrics(ms, v, b)
  BY <1>5, EnableMetricsInv
<1>6. CASE (\E c \in Edits, n \in {0, 1} : Edit(c, n)) \/ Remove \/ AskReload
  BY <1>6, OperatorInv
<1>7. CASE Kill
  BY <1>7, ProcessEndsInv DEF Kill
<1>8. QED
  BY <1>1, <1>2, <1>3, <1>4, <1>5, <1>6, <1>7 DEF Next

(* The invariant holds from every initial state and along every step.      *)
THEOREM Inductive == Spec => []IInv
<1>1. IInv /\ [Next]_vars => IInv'
  BY NextInv, StutterInv
<1>2. QED
  BY InitInv, <1>1, PTL DEF Spec

(* Every variable stays in the set its code allows, with any number of     *)
(* threads on the shared dictionaries.                                     *)
THEOREM TypeCorrect == Spec => []TypeOK
<1>1. IInv => TypeOK
  BY DEF IInv
<1>2. QED
  BY Inductive, <1>1, PTL

(* Whenever the reload loop is idle, the collectors are those of the       *)
(* configuration in use, whatever the last reload came to.                 *)
THEOREM CollectorsAreCurrent == Spec => []CollectorsMatch
<1>1. IInv => CollectorsMatch
  BY DEF IInv, LoadInv, CollectorInv, CollectorsMatch
<1>2. QED
  BY Inductive, <1>1, PTL

(* With a DEVICE_TYPE, no thread ever leaves a local file behind that the  *)
(* next start could not use.                                               *)
THEOREM FileAlwaysStarts == Spec => []FileStarts
<1>1. IInv => FileStarts
  BY DEF IInv
<1>2. QED
  BY Inductive, <1>1, PTL

-----------------------------------------------------------------------------
(* From the answer of the server to the clearing of reload_flag, a reload  *)
(* is deaf: what the flag is set for is cleared with it.                   *)
Deaf == cur # None /\ main \in {"fallback", "apply", "swap", "save", "clear"}

(* An answered /reload that no load has followed yet is still in the flag, *)
(* and no reload is past the point where it would be forgotten.            *)
OwedInv == owed => flag /\ ~Deaf

LEMMA OwedStep ==
  ASSUME IInv, env # StubMode, OwedInv, [Next]_vars, ReloadArrives => ~Deaf
  PROVE  OwedInv' /\ env' = env
<1> DEFINE kept == UNCHANGED <<owed, flag, env>>
<1>1. CASE Fetch
  BY <1>1 DEF Fetch, OwedInv
<1>2. CASE Fallback
  <2>1. kept /\ main = "fallback"
    BY <1>2 DEF Fallback, history
  <2>2. CASE cur = None
    BY <1>2, <2>1, <2>2 DEF Fallback, Loaded, OwedInv, Deaf
  <2>3. CASE cur # None
    BY <2>1, <2>3 DEF OwedInv, Deaf
  <2>4. QED
    BY <2>2, <2>3
<1>3. CASE Poll \/ Start \/ Reload
  BY <1>3 DEF Poll, Start, Reload, OwedInv, Deaf, history
<1>4. CASE StartFails \/ Kill
  BY <1>4 DEF StartFails, Kill, ProcessEnds, OwedInv
<1>5. CASE Apply \/ Swap \/ Save
  <2>1. Deaf /\ kept
    BY <1>5 DEF Apply, Swap, Save, Deaf, history, IInv, LoadInv
  <2>2. QED
    BY <2>1 DEF OwedInv
<1>6. CASE ClearFlag
  <2>1. Deaf /\ UNCHANGED <<owed, env>>
    BY <1>6 DEF ClearFlag, Deaf, history, IInv, LoadInv
  <2>2. QED
    BY <2>1 DEF OwedInv
<1>7. CASE ReloadArrives
  BY <1>7 DEF ReloadArrives, OwedInv, Deaf
<1>8. ASSUME UNCHANGED <<owed, flag, env, main, cur>> PROVE OwedInv' /\ env' = env
  BY <1>8 DEF OwedInv, Deaf
<1>9. CASE \E s \in Scrape : Snapshot(s) \/ Scraping(s)
  BY <1>8, <1>9 DEF Snapshot, Scraping, Collect, Register, history
<1>10. CASE \E t \in Sync : Syncing(t)
  BY <1>8, <1>10 DEF Syncing, SendPut, PutArrives, history
<1>11. CASE \E ms \in SUBSET Metric, v \in {"on", "off"}, b \in BOOLEAN :
              EnableMetrics(ms, v, b)
  BY <1>8, <1>11 DEF EnableMetrics
<1>12. CASE (\E c \in Edits, n \in {0, 1} : Edit(c, n)) \/ Remove \/ AskReload
  BY <1>8, <1>12 DEF Edit, Remove, AskReload, history
<1>13. CASE UNCHANGED vars
  BY <1>8, <1>13 DEF vars, history
<1>14. ~StubStart
  BY DEF StubStart
<1>15. QED
  BY <1>1, <1>2, <1>3, <1>4, <1>5, <1>6, <1>7, <1>9, <1>10, <1>11, <1>12, <1>13, <1>14
  DEF Next, Main

(* ReloadIsHonoured, which the reload loop breaks, holds of every answered *)
(* /reload that does not arrive between a reload's answer from the server  *)
(* and its end: that stretch of the loop is the only one that forgets.     *)
THEOREM ReloadsHonouredOutsideReloads ==
  Init /\ env # StubMode /\ [][Next /\ (ReloadArrives => ~Deaf)]_vars
    => []ReloadIsHonoured
<1>1. Init => OwedInv
  BY DEF Init, OwedInv
<1>2. IInv /\ [Next /\ (ReloadArrives => ~Deaf)]_vars => IInv'
  BY NextInv, StutterInv
<1>3. IInv /\ OwedInv /\ env # StubMode /\ [Next /\ (ReloadArrives => ~Deaf)]_vars
        => OwedInv' /\ (env # StubMode)'
  <2> SUFFICES ASSUME IInv, OwedInv, env # StubMode,
                      [Next /\ (ReloadArrives => ~Deaf)]_vars
               PROVE  OwedInv' /\ env' = env
    OBVIOUS
  <2>1. CASE UNCHANGED vars
    BY <2>1 DEF vars, history, OwedInv, Deaf
  <2>2. CASE Next /\ (ReloadArrives => ~Deaf)
    BY <2>2, OwedStep
  <2>3. QED
    BY <2>1, <2>2
<1>4. OwedInv => ReloadIsHonoured
  BY DEF OwedInv, ReloadIsHonoured
<1>5. QED
  BY <1>1, <1>2, <1>3, <1>4, InitInv, PTL

-----------------------------------------------------------------------------
(* When an acknowledged POST /metrics/enable can be lost                   *)

NoPut == \A t \in Sync : carries[t] = None /\ sends[t] = None
Enabling ==
  \E ms \in SUBSET Metric, v \in {"on", "off"}, b \in BOOLEAN : EnableMetrics(ms, v, b)

(* A request does not fall between the answer of the server to a reload    *)
(* and its swap, nor into a scrape, nor does it follow another one so      *)
(* closely that its PUT could be overtaken; and no load asks the server    *)
(* while a PUT is on its way there.                                        *)
TakesTurns ==
  /\ Enabling => /\ main \notin {"fallback", "apply", "swap"}
                 /\ \A s \in Scrape : at[s] = "idle"
                 /\ NoPut
  /\ Fetch => NoPut

Holds(d, m) == dict[d][m] = promised[m]

(* Then every dict a thread will put somewhere, every PUT, and without a   *)
(* PUT the server, hold the value that was acknowledged.                   *)
PromiseInv(m) ==
  promised[m] # "unset" /\ faults = 0 =>
    /\ cur # None /\ main # "fallback"
    /\ Holds(ref[cur], m)
    /\ main \in {"apply", "swap", "save"} => Holds(ref[new], m)
    /\ \A s \in Scrape : at[s] # "idle" => Holds(held[s], m)
    /\ \A t \in Sync : carries[t] # None => Holds(ref[carries[t]], m)
    /\ \A t \in Sync : sends[t] # None => sends[t].metrics[m] = promised[m]
    /\ NoPut => row # None /\ row.conf.metrics[m] = promised[m]

LEMMA AllocateKeeps ==
  ASSUME TypeOK, NEW c, Allocate(c)
  PROVE  /\ Fresh \in Obj /\ ref'[Fresh] = Fresh /\ dict'[Fresh] = c.metrics
         /\ \A o \in Roots : ref'[o] = ref[o] /\ dict'[ref[o]] = dict[ref[o]]
         /\ \A s \in Scrape : held[s] # None => dict'[held[s]] = dict[held[s]]
<1>1. \E o \in Obj : o \notin InUse
  BY DEF Allocate
<1>2. Fresh \in Obj /\ Fresh \notin InUse
  BY <1>1 DEF Fresh
<1>3. Roots \subseteq Obj
  BY DEF Roots, TypeOK
<1>4. \A o \in Roots : o # Fresh /\ ref[o] # Fresh
  BY <1>2 DEF InUse
<1>5. \A s \in Scrape : held[s] # None => held[s] # Fresh
  BY <1>2 DEF InUse
<1> HIDE DEF Fresh, Roots
<1>6. QED
  BY <1>2, <1>3, <1>4, <1>5 DEF Allocate, TypeOK

(* Steps that change no dict, no configuration and no message.             *)
LEMMA PromiseCalm ==
  ASSUME NEW m \in Metric, TypeOK, PromiseInv(m), faults' = 0 => faults = 0,
         UNCHANGED <<row, cur, heap, threads, promised>>, main' # "fallback",
         main' \in {"apply", "swap", "save"} => main' = main /\ new' = new,
         \A s \in Scrape : at'[s] # "idle" => at[s] # "idle" /\ held'[s] = held[s]
  PROVE  PromiseInv(m)'
  BY DEF PromiseInv, Holds, NoPut, heap, threads

LEMMA PromiseMain ==
  ASSUME NEW m \in Metric, IInv, PromiseInv(m), Main, TakesTurns
  PROVE  PromiseInv(m)'
<1> USE NoneIsNothing DEF IInv
<1>1. CASE Fetch
  <2>1. NoPut /\ UNCHANGED <<row, promised, scrapes, threads>>
    BY <1>1 DEF TakesTurns, Fetch, server
  <2> SUFFICES ASSUME promised[m] # "unset", faults' = 0 PROVE PromiseInv(m)'
    BY <2>1 DEF PromiseInv
  <2>2. faults = 0 /\ ~Fault
    BY <1>1 DEF Fetch, Fault, TypeOK
  <2>3. cur # None /\ row # None /\ row.conf.metrics[m] = promised[m]
    BY <2>1, <2>2 DEF PromiseInv
  <2>4. Allocate(row.conf) /\ new' = Fresh /\ main' = "apply" /\ UNCHANGED cur
    BY <1>1, <2>2, <2>3 DEF Fetch, Loaded
  <2>5. cur \in Roots
    BY <2>3 DEF Roots
  <2>6. Holds(ref[cur], m)' /\ Holds(ref[new], m)'
    BY <2>1, <2>2, <2>3, <2>4, <2>5, AllocateKeeps DEF Holds, PromiseInv
  <2>7. \A s \in Scrape : at[s] # "idle" => Holds(held[s], m)'
    <3>1. \A s \in Scrape : at[s] # "idle" => held[s] # None /\ Holds(held[s], m)
      BY <2>2 DEF PromiseInv, ScrapeInv
    <3>2. QED
      BY <2>1, <2>4, <3>1, AllocateKeeps DEF Holds, scrapes
  <2>8. QED
    BY <2>1, <2>3, <2>4, <2>6, <2>7 DEF PromiseInv, NoPut, threads, scrapes
<1>2. CASE Fallback
  <2>1. faults' = faults /\ UNCHANGED promised /\ main = "fallback"
    BY <1>2 DEF Fallback, history
  <2>2. QED
    BY <2>1 DEF PromiseInv
<1>3. CASE StubStart
  <2>1. cur = None /\ UNCHANGED <<promised, faults>>
    BY <1>3 DEF StubStart, LoadInv, history
  <2>2. QED
    BY <2>1 DEF PromiseInv
<1>4. CASE Poll \/ Start \/ Reload \/ ClearFlag
  <2>1. /\ UNCHANGED <<row, cur, heap, threads, promised, faults, at, held>>
        /\ main' \in {"fetch", "idle", "clear"}
    BY <1>4 DEF Poll, Start, Reload, ClearFlag, server, scrapes, history
  <2>2. QED
    BY <2>1, PromiseCalm
<1>5. CASE StartFails
  <2>1. promised' = NoMetrics
    BY <1>5 DEF StartFails, ProcessEnds
  <2>2. QED
    BY <2>1 DEF PromiseInv, NoMetrics
<1>6. CASE Apply
  BY <1>6 DEF Apply, PromiseInv, Holds, NoPut, server, heap, threads, scrapes, history
<1>7. CASE Swap
  BY <1>7
  DEF Swap, LoadInv, PromiseInv, Holds, NoPut, server, heap, threads, scrapes, history
<1>8. CASE Save
  <2>1. /\ UNCHANGED <<row, cur, heap, threads, promised, at, held>> /\ main' = "clear"
        /\ Fault \/ UNCHANGED faults
    BY <1>8 DEF Save, server, scrapes, history
  <2>2. faults' = 0 => faults = 0
    BY <2>1 DEF Fault, TypeOK
  <2>3. QED
    BY <2>1, <2>2, PromiseCalm
<1>9. QED
  BY <1>1, <1>2, <1>3, <1>4, <1>5, <1>6, <1>7, <1>8 DEF Main

(* A scrape takes the dict of the current configuration or, if no metric   *)
(* was ever enabled in it, a new one; it changes only what is unset.       *)
LEMMA PromiseScrape ==
  ASSUME NEW m \in Metric, IInv, PromiseInv(m), NEW s \in Scrape,
         Snapshot(s) \/ Scraping(s)
  PROVE  PromiseInv(m)'
<1> USE NoneIsNothing DEF IInv
<1>1. CASE Snapshot(s)
  <2>1. /\ UNCHANGED <<row, main, cur, new, threads, promised, faults>>
        /\ at' = [at EXCEPT ![s] = "collect"] /\ collectors # None
    BY <1>1 DEF Snapshot, server, history
  <2> SUFFICES ASSUME promised[m] # "unset", faults = 0 PROVE PromiseInv(m)'
    BY <2>1 DEF PromiseInv
  <2>2. dict[ref[cur]] # NoMetrics
    BY DEF PromiseInv, Holds, NoMetrics
  <2>3. held' = [held EXCEPT ![s] = ref[cur]] /\ UNCHANGED heap
    BY <1>1, <2>2 DEF Snapshot
  <2>4. \A r \in Scrape : at'[r] # "idle" => Holds(held[r], m)'
    <3>1. \A r \in Scrape : at'[r] # "idle" => (at[r] # "idle" \/ r = s)
      BY <2>1 DEF TypeOK
    <3>2. \A r \in Scrape : held'[r] = IF r = s THEN ref[cur] ELSE held[r]
      BY <2>3 DEF TypeOK
    <3>3. QED
      BY <2>1, <2>3, <3>1, <3>2 DEF PromiseInv, Holds, heap
  <2>5. QED
    BY <2>1, <2>3, <2>4 DEF PromiseInv, Holds, NoPut, heap, threads
<1>2. CASE Collect(s)
  <2>1. UNCHANGED <<row, main, cur, new, heap, threads, promised, faults>>
    BY <1>2 DEF Collect, server, history
  <2>2. \A r \in Scrape : at'[r] # "idle" => at[r] # "idle" /\ held'[r] = held[r]
    <3>1. PICK ms \in SUBSET Offers[collectors] :
            \/ Finish(s)
            \/ at' = [at EXCEPT ![s] = "register"] /\ UNCHANGED held
      BY <1>2 DEF Collect
    <3>2. QED
      BY <1>2, <3>1, FinishTypes DEF Collect, TypeOK
  <2>3. CASE main = "fallback"
    BY <2>1, <2>3 DEF PromiseInv
  <2>4. CASE main # "fallback"
    BY <2>1, <2>2, <2>4, PromiseCalm
  <2>5. QED
    BY <2>3, <2>4
<1>3. CASE Register(s)
  <2> DEFINE fresh == {x \in found[s] : dict[held[s]][x] = "unset"}
  <2>1. /\ at[s] = "register" /\ Finish(s)
        /\ UNCHANGED <<row, main, cur, new, promised>>
    BY <1>3 DEF Register, server, history
  <2> SUFFICES ASSUME promised[m] # "unset", faults' = 0 PROVE PromiseInv(m)'
    BY <2>1 DEF PromiseInv
  <2>2. faults = 0 /\ ~Fault
    BY <1>3 DEF Register, Fault, TypeOK
  <2>3. \A r \in Scrape : at'[r] # "idle" => at[r] # "idle" /\ held'[r] = held[r]
    BY <2>1, FinishTypes
  <2>4. CASE fresh = {}
    <3>1. UNCHANGED <<heap, threads>>
      BY <1>3, <2>4 DEF Register
    <3>2. QED
      BY <2>1, <2>2, <2>3, <3>1 DEF PromiseInv, Holds, NoPut, heap, threads
  <2>5. CASE fresh # {}
    <3>1. /\ dict' = [dict EXCEPT ![held[s]] =
                        [x \in Metric |-> IF x \in fresh THEN "on" ELSE @[x]]]
          /\ ref' = [ref EXCEPT ![cur] = held[s]]
          /\ Spawn(cur)
      BY <1>3, <2>2, <2>5 DEF Register
    <3>2. held[s] \in Obj /\ cur \in Obj
      BY <2>1, <2>2 DEF ScrapeInv, TypeOK, PromiseInv
    <3>3. \A d \in Obj : Holds(d, m) => Holds(d, m)'
      BY <2>1, <3>1, <3>2 DEF Holds, TypeOK
    <3>4. Holds(held[s], m)
      BY <2>1, <2>2 DEF PromiseInv
    <3>5. \A o \in Obj : Holds(ref[o], m) \/ o = cur => Holds(ref[o], m)'
      <4>1. \A o \in Obj : ref'[o] = IF o = cur THEN held[s] ELSE ref[o]
        BY <3>1 DEF TypeOK
      <4>2. \A o \in Obj : ref[o] \in Obj
        BY DEF TypeOK
      <4>3. \A o \in Obj : Holds(ref'[o], m) => dict'[ref'[o]][m] = promised'[m]
        BY <3>2, <3>3, <4>1, <4>2 DEF Holds
      <4>4. QED
        BY <3>4, <4>1, <4>3 DEF Holds
    <3>6. /\ \A t \in Sync : carries'[t] \in {carries[t], cur}
          /\ sends' = sends /\ ~NoPut'
      <4>1. PICK t \in Sync : carries' = [carries EXCEPT ![t] = cur] /\ sends' = sends
        BY <3>1 DEF Spawn
      <4>2. QED
        BY <3>2, <4>1 DEF TypeOK, NoPut
    <3>7. \A t \in Sync : carries'[t] # None => Holds(ref[carries[t]], m)'
      <4>1. \A t \in Sync : carries'[t] # None =>
              carries'[t] \in Obj /\ (Holds(ref[carries'[t]], m) \/ carries'[t] = cur)
        BY <2>2, <3>2, <3>6 DEF PromiseInv, TypeOK
      <4>2. \A o \in Obj : Holds(ref[o], m) \/ o = cur => dict'[ref'[o]][m] = promised'[m]
        BY <3>5 DEF Holds
      <4>3. QED
        BY <4>1, <4>2 DEF Holds
    <3>8. main \in {"apply", "swap", "save"} => new \in Obj /\ Holds(ref[new], m)'
      BY <2>1, <2>2, <3>5 DEF PromiseInv, LoadInv, TypeOK, Holds
    <3>9. \A r \in Scrape : at'[r] # "idle" => Holds(held[r], m)'
      <4>1. \A r \in Scrape : at'[r] # "idle" =>
              held[r] \in Obj /\ held'[r] = held[r] /\ Holds(held[r], m)
        BY <2>2, <2>3 DEF PromiseInv, ScrapeInv, TypeOK
      <4>2. QED
        BY <3>3, <4>1 DEF Holds
    <3>10. Holds(ref[cur], m)'
      BY <2>1, <3>2, <3>5 DEF Holds
    <3>11. QED
      BY <2>1, <2>2, <3>2, <3>6, <3>7, <3>8, <3>9, <3>10 DEF PromiseInv
  <2>6. QED
    BY <2>4, <2>5
<1>4. QED
  BY <1>1, <1>2, <1>3 DEF Scraping

(* An acknowledged request is in the only dict there is, and in its PUT.   *)
LEMMA PromiseEnable ==
  ASSUME NEW m \in Metric, IInv, PromiseInv(m), TakesTurns, NEW ms \in SUBSET Metric,
         NEW v \in {"on", "off"}, NEW b \in BOOLEAN, EnableMetrics(ms, v, b)
  PROVE  PromiseInv(m)'
<1> USE NoneIsNothing DEF IInv
<1> DEFINE d == ref[cur]
           known == {x \in ms : dict[d][x] # "unset"}
<1>1. /\ cur # None
      /\ UNCHANGED <<row, main, cur, new, ref, at, held>>
      /\ dict' = [dict EXCEPT ![d] = [x \in Metric |-> IF x \in known THEN v ELSE @[x]]]
  BY DEF EnableMetrics, server, scrapes
<1>2. /\ main \notin {"fallback", "apply", "swap"} /\ NoPut
      /\ \A s \in Scrape : at[s] = "idle"
  BY DEF TakesTurns, Enabling
<1> SUFFICES ASSUME promised'[m] # "unset", faults' = 0 PROVE PromiseInv(m)'
  BY DEF PromiseInv
<1>3. faults = 0 /\ ~Fault
  BY DEF EnableMetrics, Fault, TypeOK
<1>4. cur \in Obj /\ d \in Obj /\ (main = "save" => new = cur)
  BY <1>1 DEF TypeOK, LoadInv
<1>5. dict'[d][m] = IF m \in known THEN v ELSE dict[d][m]
  BY <1>1, <1>4 DEF TypeOK
<1>6. Holds(ref[cur], m)' /\ (m \in ms => known = ms)
  <2>1. CASE m \in ms
    <3>1. known = ms /\ promised'[m] = v
      BY <1>3, <2>1 DEF EnableMetrics
    <3>2. QED
      BY <1>1, <1>5, <2>1, <3>1 DEF Holds
  <2>2. CASE m \notin ms
    <3>1. promised'[m] = promised[m]
      BY <2>2 DEF EnableMetrics
    <3>2. QED
      BY <1>1, <1>3, <1>5, <2>2, <3>1 DEF Holds, PromiseInv
  <2>3. QED
    BY <2>1, <2>2
<1>7. CASE Spawn(cur)
  <2>1. PICK t \in Sync : carries' = [carries EXCEPT ![t] = cur] /\ sends' = sends
    BY <1>7 DEF Spawn
  <2>2. carries'[t] # None /\ \A u \in Sync : carries'[u] \in {None, cur} /\ sends'[u] = None
    BY <1>1, <1>2, <2>1 DEF NoPut, TypeOK
  <2>3. QED
    BY <1>1, <1>2, <1>4, <1>6, <2>2 DEF PromiseInv, Holds, NoPut
<1>8. CASE UNCHANGED threads
  <2>1. promised' = [x \in Metric |-> IF x \in ms THEN "unset" ELSE promised[x]]
    BY <1>3, <1>8 DEF EnableMetrics, Spawn, threads, TypeOK
  <2>2. promised'[m] = promised[m]
    BY <2>1
  <2>3. QED
    BY <1>1, <1>2, <1>3, <1>4, <1>6, <1>8, <2>2 DEF PromiseInv, Holds, NoPut, threads
<1>9. QED
  BY <1>7, <1>8 DEF EnableMetrics

(* What is sent is what was acknowledged, and the server keeps it.         *)
LEMMA PromisePut ==
  ASSUME NEW m \in Metric, IInv, PromiseInv(m), NEW t \in Sync, Syncing(t)
  PROVE  PromiseInv(m)'
<1> USE NoneIsNothing DEF IInv
<1>1. UNCHANGED <<main, cur, new, heap, at, held, promised>>
  BY DEF Syncing, SendPut, PutArrives, scrapes, history
<1> SUFFICES ASSUME promised[m] # "unset", faults' = 0 PROVE PromiseInv(m)'
  BY <1>1 DEF PromiseInv
<1>2. faults = 0 /\ ~Fault
  BY DEF Syncing, SendPut, PutArrives, Fault, TypeOK
<1>3. CASE SendPut(t)
  <2>1. /\ carries[t] # None /\ UNCHANGED row
        /\ sends' = [sends EXCEPT ![t] = Content(carries[t])]
        /\ carries' = [carries EXCEPT ![t] = None]
    BY <1>3 DEF SendPut, server
  <2>2. Content(carries[t]) # None /\ Content(carries[t]).metrics[m] = promised[m]
    <3>1. carries[t] \in Obj /\ type[carries[t]] \in Type
      BY <2>1 DEF TypeOK, HeapInv
    <3>2. Content(carries[t]).metrics = dict[ref[carries[t]]]
      BY DEF Content
    <3>3. QED
      BY <1>2, <2>1, <3>1, <3>2, ContentIsConfig DEF PromiseInv, Holds
  <2>3. ~NoPut'
    BY <2>1, <2>2 DEF NoPut, TypeOK
  <2>4. \A u \in Sync : sends'[u] # None => sends'[u].metrics[m] = promised[m]
    BY <1>2, <2>1, <2>2 DEF PromiseInv, TypeOK
  <2>5. \A u \in Sync : carries'[u] # None => carries'[u] = carries[u]
    BY <2>1 DEF TypeOK
  <2>6. QED
    BY <1>1, <1>2, <2>3, <2>4, <2>5 DEF PromiseInv, Holds, heap
<1>4. CASE PutArrives(t)
  <2>1. /\ sends[t] # None /\ sends' = [sends EXCEPT ![t] = None] /\ carries' = carries
        /\ row' = [conf |-> sends[t], ip |-> row # None /\ row.ip]
    BY <1>2, <1>4 DEF PutArrives
  <2>2. row' # None
    <3>1. sends[t] \in Config /\ (row # None /\ row.ip) \in BOOLEAN
      BY <2>1 DEF TypeOK
    <3>2. [conf |-> sends[t], ip |-> row # None /\ row.ip] \in [conf : Config, ip : BOOLEAN]
      BY <3>1
    <3>3. QED
      BY <2>1, <3>2, ExporterConstants
  <2>3. row'.conf.metrics[m] = promised[m]
    BY <1>2, <2>1 DEF PromiseInv
  <2>4. \A u \in Sync : sends'[u] # None => sends'[u] = sends[u]
    BY <2>1 DEF TypeOK
  <2>5. QED
    BY <1>1, <1>2, <2>1, <2>2, <2>3, <2>4 DEF PromiseInv, Holds, heap
<1>5. QED
  BY <1>3, <1>4 DEF Syncing

LEMMA PromiseStep ==
  ASSUME NEW m \in Metric, IInv, PromiseInv(m), [Next /\ TakesTurns]_vars
  PROVE  PromiseInv(m)'
<1>1. CASE Main /\ TakesTurns
  BY <1>1, PromiseMain
<1>2. CASE \E s \in Scrape : Snapshot(s) \/ Scraping(s)
  BY <1>2, PromiseScrape
<1>3. CASE \E t \in Sync : Syncing(t)
  BY <1>3, PromisePut
<1>4. CASE Enabling /\ TakesTurns
  BY <1>4, PromiseEnable DEF Enabling
<1>5. CASE ReloadArrives
  <2>1. UNCHANGED <<row, main, cur, new, heap, threads, at, held, promised>>
    BY <1>5 DEF ReloadArrives, scrapes
  <2>2. faults' = 0 => faults = 0
    BY <1>5 DEF ReloadArrives, Fault, IInv, TypeOK
  <2>3. QED
    BY <2>1, <2>2 DEF PromiseInv, Holds, NoPut, heap, threads
<1>6. CASE (\E c \in Edits, n \in {0, 1} : Edit(c, n)) \/ Remove \/ Kill
  <2>1. promised' = NoMetrics
    BY <1>6 DEF Edit, Remove, Kill, ProcessEnds
  <2>2. QED
    BY <2>1 DEF PromiseInv, NoMetrics
<1>7. CASE AskReload \/ UNCHANGED vars
  <2>1. UNCHANGED <<row, main, cur, new, heap, threads, at, held, promised, faults>>
    BY <1>7 DEF AskReload, vars, server, scrapes, history
  <2>2. QED
    BY <2>1 DEF PromiseInv, Holds, NoPut, heap, threads
<1>8. QED
  BY <1>1, <1>2, <1>3, <1>4, <1>5, <1>6, <1>7 DEF Next, Enabling

(* EnableSticks, which can fail, holds while requests, scrapes, reloads    *)
(* and PUTs take turns: an acknowledged POST /metrics/enable can be lost   *)
(* to a swap, to a scrape, to an older PUT or to a load before its PUT     *)
(* arrives, and to nothing else.                                           *)
THEOREM EnableSticksInTurns ==
  Init /\ [][Next /\ TakesTurns]_vars => []EnableSticks
<1> DEFINE PInv == \A m \in Metric : PromiseInv(m)
<1>1. Init => IInv /\ PInv
  <2>1. Init => PInv
    BY DEF Init, PromiseInv, NoMetrics
  <2>2. QED
    BY <2>1, InitInv
<1>2. IInv /\ PInv /\ [Next /\ TakesTurns]_vars => IInv' /\ PInv'
  <2>1. IInv /\ [Next /\ TakesTurns]_vars => IInv'
    BY NextInv, StutterInv
  <2>2. QED
    BY <2>1, PromiseStep
<1>3. PInv => EnableSticks
  BY DEF EnableSticks, PromiseInv, Holds
<1> HIDE DEF PInv
<1>4. QED
  BY <1>1, <1>2, <1>3, PTL
=============================================================================
