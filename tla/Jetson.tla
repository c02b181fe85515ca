------------------------------ MODULE Jetson ------------------------------
(***************************************************************************)
(* The Jetson collectors (exporter/collectors/jetson.py and jetson_*.py).  *)
(* A scrape starts tegrastats, which prints a line every 100 ms for ever,  *)
(* takes the first line, parses it, and gets rid of the process again.     *)
(*                                                                         *)
(* Scrapes run in threads of their own.  The exporter may not be root: it  *)
(* then runs tegrastats under sudo and may not signal it.  A process that  *)
(* has ended stays a zombie until somebody waits for it.                   *)
(*                                                                         *)
(* A line is a record of what the regular expressions look for: a field is *)
(* Absent, or holds the numbers they extract.  The name of a metric is a   *)
(* tuple of its parts; rounding and units are left out.                    *)
(***************************************************************************)
EXTENDS Integers, Sequences, FiniteSets

CONSTANTS
  Thread,  \* threads that may be scraping at the same time
  Pid,     \* bound: processes at the same time
  Line,    \* lines tegrastats may print
  Absent

Board == {"orin", "orin_nano", "xavier", "nano"}

(* The regular expressions match digits: int() of them is a natural.       *)
CoreList(cores) ==
  /\ Len(cores) \in Nat /\ DOMAIN cores = 1..Len(cores)
  /\ \A i \in DOMAIN cores : cores[i].usage \in Nat

ASSUME JetsonConstants ==
  /\ Absent \notin Thread \cup Pid \cup Line
  /\ \A line \in Line : line.cores # Absent => CoreList(line.cores)

-----------------------------------------------------------------------------
(* _parse_all_metrics                                                      *)

IfFound(field, metrics) == IF field = Absent THEN {} ELSE metrics
Metric(name, value) == [name |-> name, value |-> value]

(* Rails with or without the unit mW; each parser reads one of the forms.  *)
Rails(line, unit) ==
  IF line.unit # unit THEN {}
  ELSE UNION {LET rail == line.rails[n] IN
              {Metric(<<"power", n, "now">>, rail.now)}
                \cup IfFound(rail.avg, {Metric(<<"power", n, "avg">>, rail.avg)})
                : n \in DOMAIN line.rails \ {"NC"}}

(* An unconnected sensor reads -256.                                       *)
Temperatures(line) ==
  {Metric(<<"temp", n, "celsius">>, line.temps[n]) :
     n \in {x \in DOMAIN line.temps : line.temps[x] >= -100}}

Percent(m) == (100 * m.used) \div m.total

Memory(line) ==
  LET ram == line.ram IN
  IfFound(ram, {Metric(<<"ram", "used">>, ram.used),
                Metric(<<"ram", "total">>, ram.total),
                Metric(<<"ram", "percent">>, Percent(ram))})

Swap(line) ==
  LET swap == line.swap IN
  IfFound(swap, {Metric(<<"swap", "used">>, swap.used),
                 Metric(<<"swap", "total">>, swap.total)})

SwapCached(line) ==
  LET swap == line.swap IN
  IfFound(swap, IfFound(swap.cached, {Metric(<<"swap", "cached">>, swap.cached)}))

Iram(line) ==
  LET iram == line.iram IN
  IfFound(iram, {Metric(<<"iram", "used">>, iram.used),
                 Metric(<<"iram", "total">>, iram.total),
                 Metric(<<"iram", "percent">>,
                        IF iram.total > 0 THEN Percent(iram) ELSE 0)}
                \cup IfFound(iram.lfb, {Metric(<<"iram", "lfb">>, iram.lfb)}))

LargestFreeBlock(line) ==
  LET lfb == line.lfb IN
  IfFound(lfb, {Metric(<<"lfb", "blocks">>, lfb.blocks),
                Metric(<<"lfb", "total">>, lfb.blocks * lfb.size)})

(* A core that is neither "off" nor "N%@F" gives nothing and is numbered   *)
(* all the same; the average is taken over the cores that are on.          *)
On(cores) == {i \in DOMAIN cores : cores[i].status = "on"}

Usage(cores) ==
  LET total[n \in 0..Len(cores)] ==
        IF n = 0 THEN 0
        ELSE total[n - 1] + (IF n \in On(cores) THEN cores[n].usage ELSE 0)
  IN total[Len(cores)]

AverageOverAll(cores) ==  \* variant: over the cores that are off as well
  IF cores = <<>> THEN {}
  ELSE {Metric(<<"cpu", "avg", "usage">>, Usage(cores) \div Len(cores)),
        Metric(<<"cpu", "active", "cores">>, Cardinality(On(cores)))}

Average(cores) ==
  IF On(cores) = {} THEN {}
  ELSE {Metric(<<"cpu", "avg", "usage">>, Usage(cores) \div Cardinality(On(cores))),
        Metric(<<"cpu", "active", "cores">>, Cardinality(On(cores)))}

OfCore(cores, i) ==
  CASE cores[i].status = "on" -> {Metric(<<"core", i - 1, "usage">>, cores[i].usage),
                                  Metric(<<"core", i - 1, "freq">>, cores[i].freq),
                                  Metric(<<"core", i - 1, "status">>, 1)}
    [] cores[i].status = "off" -> {Metric(<<"core", i - 1, "status">>, 0)}
    [] OTHER -> {}

Cores(line) ==
  LET cores == line.cores IN
  IfFound(cores, Average(cores) \cup (UNION {OfCore(cores, i) : i \in DOMAIN cores}))

MemoryController(line) ==
  LET emc == line.emc IN
  IfFound(emc, {Metric(<<"emc", "usage">>, emc.usage)}
               \cup IfFound(emc.freq, {Metric(<<"emc", "freq">>, emc.freq)}))

(* GR3D_FREQ is printed as "N%", "N%@F" or "N%@[F,...]"; a parser that     *)
(* does not know the form finds no GPU.                                    *)
Gpu(line, forms) ==
  LET gpu == line.gpu IN
  IfFound(gpu, IF gpu.form \notin forms THEN {}
               ELSE {Metric(<<"gpu", "usage">>, gpu.usage)}
                      \cup {Metric(<<"gpu", i - 1, "freq">>, gpu.freqs[i]) :
                               i \in DOMAIN gpu.freqs})

Vic(line) == IfFound(line.vic, {Metric(<<"vic", "freq">>, line.vic)})
Ape(line) == IfFound(line.ape, {Metric(<<"ape", "freq">>, line.ape)})

Orin(line) ==
  Rails(line, "mW") \cup Temperatures(line) \cup Memory(line) \cup Swap(line)
    \cup LargestFreeBlock(line) \cup Cores(line) \cup MemoryController(line)
    \cup Gpu(line, {"clusters"}) \cup Vic(line) \cup Ape(line)

Xavier(line) ==
  Rails(line, "mW") \cup Temperatures(line) \cup Memory(line) \cup Swap(line)
    \cup SwapCached(line) \cup LargestFreeBlock(line) \cup Cores(line)
    \cup MemoryController(line) \cup Gpu(line, {"clusters"}) \cup Vic(line) \cup Ape(line)

OrinNano(line) ==
  Rails(line, "mW") \cup Temperatures(line) \cup Memory(line) \cup Swap(line)
    \cup SwapCached(line) \cup LargestFreeBlock(line) \cup Cores(line)
    \cup MemoryController(line) \cup Gpu(line, {"bare", "single", "clusters"})
    \cup Vic(line) \cup Ape(line)

Nano(line) ==
  Rails(line, "raw") \cup Temperatures(line) \cup Memory(line) \cup Swap(line)
    \cup SwapCached(line) \cup Iram(line) \cup LargestFreeBlock(line) \cup Cores(line)
    \cup MemoryController(line) \cup Gpu(line, {"single"}) \cup Ape(line)

Metrics(b, line) ==
  CASE b = "orin" -> Orin(line)
    [] b = "xavier" -> Xavier(line)
    [] b = "orin_nano" -> OrinNano(line)
    [] b = "nano" -> Nano(line)

(* A total of no RAM at all is a division by zero, and one exception costs *)
(* every metric of the line.                                               *)
Raises(line) == line.ram # Absent /\ line.ram.total = 0
Parsed(b, line) == IF Raises(line) THEN {} ELSE Metrics(b, line)

-----------------------------------------------------------------------------
VARIABLES
  board,  \* whose parser the collector has
  root,   \* geteuid() = 0
  step,   \* of a thread: "idle" or what get_metrics does next
  child,  \* of a thread: its process, or Absent
  proc,   \* [Pid -> "free", "running" or "zombie"]
  pipe,   \* of a process: the exporter still holds the other end
  out,    \* of a process: it has printed a line
  got     \* of a thread: the line it read; Absent if none

jetsonVars == <<board, root, step, child, proc, pipe, out, got>>

At(t, label) == step' = [step EXCEPT ![t] = label]

(* Processes whose Popen object is gone: the thread gave up on them.       *)
Abandoned == {p \in Pid : proc[p] # "free" /\ \A t \in Thread : child[t] # p}

(* Popen: first reaps what abandoned processes have ended by now.  If it   *)
(* fails (there is no tegrastats) there is nothing to clean up.            *)
StartTool(t) ==
  LET reaped == {p \in Abandoned : proc[p] = "zombie"} IN
  /\ step[t] = "idle"
  /\ \E p \in Pid :
       /\ proc[p] = "free" \/ p \in reaped
       /\ proc' = [q \in Pid |-> IF q = p THEN "running"
                                 ELSE IF q \in reaped THEN "free" ELSE proc[q]]
       /\ child' = [child EXCEPT ![t] = p]
       /\ pipe' = [pipe EXCEPT ![p] = TRUE]
       /\ out' = [out EXCEPT ![p] = FALSE]
  /\ got' = [got EXCEPT ![t] = Absent]
  /\ At(t, "read")
  /\ UNCHANGED <<board, root>>

(* readline blocks until there is a line or the end of the output; an      *)
(* empty output, like a line that cannot be parsed, is an exception, and   *)
(* safe_get_metrics makes {} of it.  The finally block runs either way.    *)
ReadLine(t) ==
  LET p == child[t] IN
  /\ step[t] = "read"
  /\ \/ out[p] /\ \E line \in Line : got' = [got EXCEPT ![t] = line]
     \/ ~out[p] /\ proc[p] = "zombie" /\ UNCHANGED got
  /\ At(t, "close")
  /\ UNCHANGED <<board, root, child, proc, pipe, out>>

ClosePipesLate(t) ==  \* variant: leaves that to the garbage collector
  /\ step[t] = "close"
  /\ At(t, "terminate")
  /\ UNCHANGED <<board, root, child, proc, pipe, out, got>>

ClosePipes(t) ==
  /\ step[t] = "close"
  /\ pipe' = [pipe EXCEPT ![child[t]] = FALSE]
  /\ At(t, "terminate")
  /\ UNCHANGED <<board, root, child, proc, out, got>>

LeaveUnfinished(t) ==  \* variant: goes on without a process
  /\ child' = [child EXCEPT ![t] = Absent]
  /\ UNCHANGED <<board, root, step, pipe, out, got>>

(* The Popen object goes with the return of get_metrics.                   *)
Leave(t) ==
  /\ child' = [child EXCEPT ![t] = Absent]
  /\ At(t, "idle")
  /\ UNCHANGED <<board, root, pipe, out, got>>

(* terminate looks whether the process has ended before it sends SIGTERM,  *)
(* which the process may ignore.  Without root there is a PermissionError, *)
(* which ends the cleanup.                                                 *)
Terminate(t) ==
  LET p == child[t] IN
  /\ step[t] = "terminate"
  /\ \/ proc[p] = "zombie" /\ proc' = [proc EXCEPT ![p] = "free"] /\ Leave(t)
     \/ proc[p] = "running" /\ ~root /\ Leave(t) /\ UNCHANGED proc
     \/ /\ proc[p] = "running" /\ root
        /\ proc' \in {proc, [proc EXCEPT ![p] = "zombie"]}
        /\ At(t, "wait")
        /\ UNCHANGED <<board, root, child, pipe, out, got>>

(* wait(timeout=1)                                                         *)
Wait(t) ==
  /\ step[t] = "wait"
  /\ proc[child[t]] = "zombie"
  /\ proc' = [proc EXCEPT ![child[t]] = "free"]
  /\ Leave(t)

WaitGivesUp(t) ==  \* variant: the timeout is left to the except clause outside
  /\ step[t] = "wait"
  /\ proc[child[t]] = "running"
  /\ UNCHANGED proc
  /\ Leave(t)

(* TimeoutExpired: SIGKILL cannot be ignored.                              *)
WaitExpires(t) ==
  /\ step[t] = "wait"
  /\ proc[child[t]] = "running"
  /\ proc' = [proc EXCEPT ![child[t]] = "zombie"]
  /\ At(t, "reap")
  /\ UNCHANGED <<board, root, child, pipe, out, got>>

Reap(t) ==
  /\ step[t] = "reap"
  /\ proc' = [proc EXCEPT ![child[t]] = "free"]
  /\ Leave(t)

Scraping(t) == ReadLine(t) \/ ClosePipes(t) \/ Terminate(t) \/ Wait(t) \/ WaitExpires(t)
               \/ Reap(t)

-----------------------------------------------------------------------------
(* tegrastats                                                              *)

PrintLine(p) ==
  /\ proc[p] = "running" /\ pipe[p] /\ ~out[p]
  /\ out' = [out EXCEPT ![p] = TRUE]
  /\ UNCHANGED <<board, root, step, child, proc, pipe, got>>

(* It ends by itself, or of the signal a write to a closed pipe is.        *)
EndTool(p) ==
  /\ proc[p] = "running"
  /\ proc' = [proc EXCEPT ![p] = "zombie"]
  /\ UNCHANGED <<board, root, step, child, pipe, out, got>>

JetsonInit ==
  /\ board \in Board
  /\ root \in BOOLEAN
  /\ step = [t \in Thread |-> "idle"]
  /\ child = [t \in Thread |-> Absent]
  /\ proc = [p \in Pid |-> "free"]
  /\ pipe = [p \in Pid |-> FALSE]
  /\ out = [p \in Pid |-> FALSE]
  /\ got = [t \in Thread |-> Absent]

JetsonNext ==
  \/ \E t \in Thread : StartTool(t) \/ Scraping(t)
  \/ \E p \in Pid : PrintLine(p) \/ EndTool(p)

JetsonSpec == JetsonInit /\ [][JetsonNext]_jetsonVars

-----------------------------------------------------------------------------
(* Properties                                                              *)

JetsonTypeOK ==
  /\ board \in Board /\ root \in BOOLEAN
  /\ step \in [Thread -> {"idle", "read", "close", "terminate", "wait", "reap"}]
  /\ child \in [Thread -> Pid \cup {Absent}]
  /\ \A t \in Thread : step[t] # "idle" => child[t] # Absent
  /\ proc \in [Pid -> {"free", "running", "zombie"}]
  /\ pipe \in [Pid -> BOOLEAN]
  /\ out \in [Pid -> BOOLEAN]
  /\ got \in [Thread -> Line \cup {Absent}]

(* Overlapping scrapes have processes of their own, alive or unreaped as   *)
(* long as they need them; and as root a scrape that returns, whether its  *)
(* line could be parsed, there was none, or the process ignored SIGTERM,   *)
(* leaves no process behind, not even a zombie.                            *)
NoProcessLeft ==
  /\ \A t, u \in Thread : t # u /\ child[t] # Absent => child[t] # child[u]
  /\ \A t \in Thread : child[t] # Absent => proc[child[t]] # "free"
  /\ root => Abandoned = {}

(* Without root a process may outlive the scrape that started it, but not  *)
(* for long: nobody holds the other end of its output, so the next line it *)
(* prints ends it.                                                         *)
AbandonedEnds == \A p \in Abandoned : ~pipe[p]

(* What is exported of the cores is one story: the average lies between    *)
(* the usages of the cores reported as on, their number is the number of   *)
(* active cores, no core is reported twice, and there is no average when   *)
(* all are off.                                                            *)
CoresAgree ==
  \A t \in Thread :
    step[t] = "close" /\ got[t] # Absent =>
      LET ms == Parsed(board, got[t])
          values(name) == {m.value : m \in {x \in ms : x.name = name}}
          core(kind) == {x \in ms : x.name[1] = "core" /\ x.name[3] = kind}
          usages == {m.value : m \in core("usage")}
          on == {m.name[2] : m \in {x \in core("status") : x.value = 1}}
          off == {m.name[2] : m \in {x \in core("status") : x.value = 0}}
          avg == values(<<"cpu", "avg", "usage">>)
          active == values(<<"cpu", "active", "cores">>)
      IN
      /\ on \cap off = {}
      /\ IF on = {} THEN avg = {} /\ active = {}
         ELSE /\ active = {Cardinality(on)}
              /\ \A a \in avg : (\E u \in usages : u <= a) /\ (\E u \in usages : a <= u)
=============================================================================
