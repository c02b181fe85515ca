----------------------------- MODULE EdgeServer -----------------------------
(***************************************************************************)
(* The rates EdgeServerCollector computes                                  *)
(* (exporter/collectors/edge_server.py): power from the RAPL energy        *)
(* counter, which wraps around, and CPU usage from /proc/stat.  Each is    *)
(* the difference to the previous reading, which the collector keeps.      *)
(*                                                                         *)
(* The metrics server answers every scrape in a thread of its own and all  *)
(* of them use one collector, so scrapes interleave.  A step is one read   *)
(* of a file, one calculation with the previous reading, or one store of   *)
(* it.  RAPL domains and CPUs share nothing: there is one of each.         *)
(***************************************************************************)
EXTENDS Integers

CONSTANTS
  Scrape,     \* threads that may be collecting at the same time
  MaxRange,   \* max_energy_range_uj, the last value before the counter wraps
  MaxEnergy,  \* bound: energy consumed
  MaxClock,   \* bound: time
  MaxJiffies, \* bound: CPU time
  None

ASSUME EdgeServerConstants ==
  /\ MaxRange \in Nat \ {0}
  /\ MaxEnergy \in Nat /\ MaxClock \in Nat /\ MaxJiffies \in Nat

Sample == [energy : 0..MaxRange, time : 0..MaxClock, spent : 0..MaxEnergy]
Times == [idle : 0..MaxJiffies, total : 0..MaxJiffies]

VARIABLES
  spent,     \* the energy consumed so far, which nobody can read
  register,  \* energy_uj
  clock,     \* time.monotonic()
  jiffies,   \* the cpu line of /proc/stat: idle and total
  range,     \* of the domain: max_range, or 0 if it could not be read
  prevRapl,  \* _prev_rapl: Sample or None; `spent' is a history field
  prevCpu,   \* _prev_cpu_times: Times or None
  pc,        \* of a scrape: "idle" or the step it is at
  sample,    \* of a scrape: its reading of the counter
  times,     \* of a scrape: its reading of /proc/stat
  power,     \* of a scrape: the energy and time it divides, or None; a history
             \* field says how much was consumed between the two readings
  usage      \* of a scrape: the busy and total time it divides, or None

machine == <<spent, register, clock, jiffies>>
local == <<sample, times, power, usage>>
vars == <<machine, range, prevRapl, prevCpu, pc, local>>

Goto(s, label) == pc' = [pc EXCEPT ![s] = label]

-----------------------------------------------------------------------------
(* The machine                                                             *)

Consume ==
  /\ spent < MaxEnergy
  /\ spent' = spent + 1
  /\ register' = IF register = MaxRange THEN 0 ELSE register + 1
  /\ UNCHANGED <<clock, jiffies, range, prevRapl, prevCpu, pc, local>>

Tick ==
  /\ clock < MaxClock
  /\ clock' = clock + 1
  /\ UNCHANGED <<spent, register, jiffies, range, prevRapl, prevCpu, pc, local>>

Run(idle) ==
  /\ jiffies.total < MaxJiffies
  /\ jiffies' = [idle |-> jiffies.idle + idle, total |-> jiffies.total + 1]
  /\ UNCHANGED <<spent, register, clock, range, prevRapl, prevCpu, pc, local>>

-----------------------------------------------------------------------------
(* get_metrics, one scrape                                                 *)

(* The time is taken once, before anything is read.                        *)
GetMetrics(s) ==
  /\ pc[s] = "idle"
  /\ sample' = [sample EXCEPT ![s] = [energy |-> 0, time |-> clock, spent |-> 0]]
  /\ power' = [power EXCEPT ![s] = None]
  /\ usage' = [usage EXCEPT ![s] = None]
  /\ Goto(s, "read_energy")
  /\ UNCHANGED <<machine, range, prevRapl, prevCpu, times>>

(* A domain that cannot be read is skipped.                                *)
ReadEnergy(s) ==
  /\ pc[s] = "read_energy"
  /\ \/ /\ sample' = [sample EXCEPT ![s].energy = register, ![s].spent = spent]
        /\ Goto(s, "power")
     \/ Goto(s, "read_stat") /\ UNCHANGED sample
  /\ UNCHANGED <<machine, range, prevRapl, prevCpu, times, power, usage>>

DeltaIgnoringWrap(e, p) == e - p                         \* variant: no wrap-around
DeltaFromZero(e, p) == IF e < p THEN e ELSE e - p        \* variant: a reset instead
Delta(e, p) == IF e < p THEN e - p + range ELSE e - p

CollectPower(s) ==
  /\ pc[s] = "power"
  /\ power' =
       IF prevRapl # None /\ sample[s].time > prevRapl.time
       THEN [power EXCEPT ![s] =
               [energy |-> Delta(sample[s].energy, prevRapl.energy),
                time |-> sample[s].time - prevRapl.time,
                consumed |-> sample[s].spent - prevRapl.spent]]
       ELSE power
  /\ Goto(s, "store_energy")
  /\ UNCHANGED <<machine, range, prevRapl, prevCpu, sample, times, usage>>

StoreEnergy(s) ==
  /\ pc[s] = "store_energy"
  /\ prevRapl' = sample[s]
  /\ Goto(s, "read_stat")
  /\ UNCHANGED <<machine, range, prevCpu, local>>

(* Without /proc/stat there is nothing left to do here.                    *)
ReadStat(s) ==
  /\ pc[s] = "read_stat"
  /\ \/ /\ times' = [times EXCEPT ![s] = jiffies]
        /\ Goto(s, "usage")
     \/ Goto(s, "idle") /\ UNCHANGED times
  /\ UNCHANGED <<machine, range, prevRapl, prevCpu, sample, power, usage>>

ElapsedOrSame(d) == d >= 0  \* variant: divides although no time has passed
Elapsed(d) == d > 0

CollectUsage(s) ==
  /\ pc[s] = "usage"
  /\ usage' =
       IF prevCpu # None /\ Elapsed(times[s].total - prevCpu.total)
       THEN [usage EXCEPT ![s] =
               [busy |-> (times[s].total - prevCpu.total)
                           - (times[s].idle - prevCpu.idle),
                total |-> times[s].total - prevCpu.total]]
       ELSE usage
  /\ Goto(s, "store_stat")
  /\ UNCHANGED <<machine, range, prevRapl, prevCpu, sample, times, power>>

StoreStat(s) ==
  /\ pc[s] = "store_stat"
  /\ prevCpu' = times[s]
  /\ Goto(s, "idle")
  /\ UNCHANGED <<machine, range, prevRapl, local>>

-----------------------------------------------------------------------------
Init ==
  /\ spent = 0
  /\ register \in 0..MaxRange
  /\ clock = 0
  /\ jiffies = [idle |-> 0, total |-> 0]
  /\ range \in {0, MaxRange}
  /\ prevRapl = None /\ prevCpu = None
  /\ pc = [s \in Scrape |-> "idle"]
  /\ sample = [s \in Scrape |-> [energy |-> 0, time |-> 0, spent |-> 0]]
  /\ times = [s \in Scrape |-> [idle |-> 0, total |-> 0]]
  /\ power = [s \in Scrape |-> None]
  /\ usage = [s \in Scrape |-> None]

Collect(s) ==
  \/ GetMetrics(s)
  \/ ReadEnergy(s) \/ CollectPower(s) \/ StoreEnergy(s)
  \/ ReadStat(s) \/ CollectUsage(s) \/ StoreStat(s)

Next ==
  \/ Consume \/ Tick
  \/ \E idle \in {0, 1} : Run(idle)
  \/ \E s \in Scrape : Collect(s)

Spec == Init /\ [][Next]_vars

-----------------------------------------------------------------------------
(* Properties                                                              *)

(* Energy is negative for a domain of unknown range at most.               *)
TypeOK ==
  /\ spent \in 0..MaxEnergy
  /\ register \in 0..MaxRange
  /\ clock \in 0..MaxClock
  /\ jiffies \in Times
  /\ range \in {0, MaxRange}
  /\ prevRapl \in Sample \cup {None}
  /\ prevCpu \in Times \cup {None}
  /\ pc \in [Scrape -> {"idle", "read_energy", "power", "store_energy", "read_stat",
                        "usage", "store_stat"}]
  /\ sample \in [Scrape -> Sample]
  /\ times \in [Scrape -> Times]
  /\ power \in [Scrape -> [energy : (range - MaxRange)..MaxRange, time : 1..MaxClock,
                           consumed : Int] \cup {None}]
  /\ usage \in [Scrape -> [busy : Int, total : Int] \cup {None}]

(* The energy a scrape reports is what was consumed between the previous   *)
(* reading and its own, as long as the counter has not gone round more     *)
(* than once; at a wrap-around one unit is lost, because the range is the  *)
(* last value of the counter and not the number of its values, or the      *)
(* whole round if the range is unknown.  This is said of readings stored   *)
(* in the order they were taken: a scrape that finds a later reading than  *)
(* its own, stored by a scrape that started earlier, takes the difference  *)
(* for a wrap-around.                                                      *)
PowerHonest ==
  \A s \in Scrape :
    power[s] # None /\ power[s].consumed \in 0..MaxRange =>
      power[s].energy - power[s].consumed \in {0, range - (MaxRange + 1)}

(* CPU usage lies between 0 and 100 percent, and no scrape divides by      *)
(* zero, however scrapes overlap and in whatever order they store what     *)
(* they have read.                                                         *)
UsageIsPercent ==
  \A s \in Scrape :
    usage[s] # None => usage[s].total > 0 /\ usage[s].busy \in 0..usage[s].total
=============================================================================
