-------------------------- MODULE EdgeServer_proofs --------------------------
(* Proofs about EdgeServer for any number of scrapes, any counter range    *)
(* and any bounds.                                                         *)
EXTENDS EdgeServer, TLAPS

(* The readings of the energy counter somebody may still use.              *)
Holding == {s \in Scrape : pc[s] \in {"power", "store_energy"}}
Readings == {sample[s] : s \in Holding} \cup ({prevRapl} \ {None})

(* Between two readings less than one round apart the counter grows by     *)
(* what was consumed, or wraps around once.                                *)
Gap(e, d) == d \in 0..MaxRange => e = d \/ e = d - (MaxRange + 1)

EnergyInv ==
  /\ \A x \in Readings : x \in Sample
  /\ \A x \in Readings : x.spent <= spent /\ Gap(register - x.energy, spent - x.spent)
  /\ \A x, y \in Readings : Gap(y.energy - x.energy, y.spent - x.spent)

(* The readings of /proc/stat somebody may still use: each of them is      *)
(* earlier or later than each other one, in both of its numbers.           *)
Counting == {s \in Scrape : pc[s] \in {"usage", "store_stat"}}
Snapshots == {times[s] : s \in Counting} \cup ({prevCpu} \ {None})

Before(x, y) == x.idle <= y.idle /\ y.idle - x.idle <= y.total - x.total

StatInv ==
  /\ jiffies.idle <= jiffies.total
  /\ \A x \in Snapshots : x \in Times
  /\ \A x \in Snapshots : Before(x, jiffies)
  /\ \A x, y \in Snapshots : Before(x, y) \/ Before(y, x)

IInv == TypeOK /\ EnergyInv /\ StatInv /\ PowerHonest /\ UsageIsPercent

-----------------------------------------------------------------------------
(* Initially nobody holds a reading.                                       *)
LEMMA InitInv == ASSUME Init PROVE IInv
<1>1. Holding = {} /\ Counting = {}
  BY DEF Init, Holding, Counting
<1>2. Readings = {} /\ Snapshots = {}
  BY <1>1 DEF Init, Readings, Snapshots
<1>3. TypeOK
  BY EdgeServerConstants DEF Init, TypeOK, Sample, Times
<1>4. PowerHonest /\ UsageIsPercent
  BY DEF Init, PowerHonest, UsageIsPercent
<1>5. jiffies.idle <= jiffies.total
  BY DEF Init
<1> QED
  BY <1>2, <1>3, <1>4, <1>5 DEF IInv, EnergyInv, StatInv

(* The difference is that of the true counter, or less by what a wrap-     *)
(* around loses; with a known range it is never negative.                  *)
LEMMA DeltaFacts ==
  ASSUME NEW e \in 0..MaxRange, NEW p \in 0..MaxRange, NEW d \in Int, Gap(e - p, d),
         range \in {0, MaxRange}
  PROVE  /\ Delta(e, p) \in (range - MaxRange)..MaxRange
         /\ d \in 0..MaxRange => Delta(e, p) - d \in {0, range - (MaxRange + 1)}
  BY EdgeServerConstants DEF Delta, Gap

(* An invariant of readings survives a step that makes none.               *)
LEMMA SameReadings ==
  ASSUME EnergyInv, Readings' \subseteq Readings, UNCHANGED <<spent, register>>
  PROVE  EnergyInv'
  BY DEF EnergyInv, Gap

LEMMA SameSnapshots ==
  ASSUME StatInv, Snapshots' \subseteq Snapshots, UNCHANGED jiffies
  PROVE  StatInv'
  BY DEF StatInv, Before

-----------------------------------------------------------------------------
(* Who holds a reading after a step.                                       *)

LEMMA KeepReadings ==
  ASSUME TypeOK, NEW s \in Scrape,
         \/ GetMetrics(s) \/ CollectPower(s) \/ StoreEnergy(s)
         \/ ReadStat(s) \/ CollectUsage(s) \/ StoreStat(s)
  PROVE  Readings' \subseteq Readings
<1>1. \A t \in Scrape : t # s => pc'[t] = pc[t] /\ sample'[t] = sample[t]
  BY DEF TypeOK, GetMetrics, CollectPower, StoreEnergy, ReadStat, CollectUsage,
         StoreStat, Goto, local
<1>2. s \in Holding' => s \in Holding /\ sample'[s] = sample[s]
  BY DEF TypeOK, GetMetrics, CollectPower, StoreEnergy, ReadStat, CollectUsage,
         StoreStat, Goto, local, Holding
<1>3. \A t \in Holding' : t \in Holding /\ sample'[t] = sample[t]
  BY <1>1, <1>2 DEF Holding
<1>4. prevRapl' = prevRapl \/ (s \in Holding /\ prevRapl' = sample[s])
  BY DEF GetMetrics, CollectPower, StoreEnergy, ReadStat, CollectUsage, StoreStat,
         Holding, local
<1> QED
  BY <1>3, <1>4 DEF Readings

LEMMA KeepSnapshots ==
  ASSUME TypeOK, NEW s \in Scrape,
         \/ GetMetrics(s) \/ ReadEnergy(s) \/ CollectPower(s) \/ StoreEnergy(s)
         \/ CollectUsage(s) \/ StoreStat(s)
  PROVE  Snapshots' \subseteq Snapshots
<1>1. \A t \in Scrape : t # s => pc'[t] = pc[t] /\ times'[t] = times[t]
  BY DEF TypeOK, GetMetrics, ReadEnergy, CollectPower, StoreEnergy, CollectUsage,
         StoreStat, Goto, local
<1>2. s \in Counting' => s \in Counting /\ times'[s] = times[s]
  BY DEF TypeOK, GetMetrics, ReadEnergy, CollectPower, StoreEnergy, CollectUsage,
         StoreStat, Goto, local, Counting
<1>3. \A t \in Counting' : t \in Counting /\ times'[t] = times[t]
  BY <1>1, <1>2 DEF Counting
<1>4. prevCpu' = prevCpu \/ (s \in Counting /\ prevCpu' = times[s])
  BY DEF GetMetrics, ReadEnergy, CollectPower, StoreEnergy, CollectUsage, StoreStat,
         Counting, local
<1> QED
  BY <1>3, <1>4 DEF Snapshots

-----------------------------------------------------------------------------
(* The steps that matter to the readings are those of the counter and of   *)
(* those who read it.                                                      *)

LEMMA ConsumeInv == ASSUME TypeOK, EnergyInv, Consume PROVE EnergyInv'
<1>1. Readings' = Readings
  BY DEF Consume, Readings, Holding, local
<1>2. ASSUME NEW x \in Readings
      PROVE  x.spent <= spent' /\ Gap(register' - x.energy, spent' - x.spent)
  <2>1. x.energy \in 0..MaxRange /\ x.spent \in Nat /\ x.spent <= spent
    BY DEF EnergyInv, Sample
  <2>2. Gap(register - x.energy, spent - x.spent)
    BY DEF EnergyInv
  <2>3. spent \in Nat /\ register \in 0..MaxRange /\ spent' = spent + 1
    BY DEF TypeOK, Consume
  <2>4. register' = IF register = MaxRange THEN 0 ELSE register + 1
    BY DEF Consume
  <2> QED
    BY <2>1, <2>2, <2>3, <2>4, EdgeServerConstants DEF Gap
<1> QED
  BY <1>1, <1>2 DEF EnergyInv, Gap

LEMMA ReadEnergyInv ==
  ASSUME TypeOK, EnergyInv, NEW s \in Scrape, ReadEnergy(s)
  PROVE  EnergyInv'
<1> DEFINE r == sample'[s]
<1>1. UNCHANGED <<spent, register, prevRapl>>
  BY DEF ReadEnergy, machine
<1>2. \A t \in Scrape : t # s => pc'[t] = pc[t] /\ sample'[t] = sample[t]
  BY DEF TypeOK, ReadEnergy, Goto
<1>3. CASE pc'[s] # "power"
  <2>1. s \notin Holding'
    BY <1>3 DEF TypeOK, ReadEnergy, Goto, Holding
  <2>2. Readings' \subseteq Readings
    BY <1>1, <1>2, <2>1 DEF Readings, Holding
  <2> QED
    BY <1>1, <2>2, SameReadings
<1>4. CASE pc'[s] = "power"
  <2>1. r \in Sample /\ r.energy = register /\ r.spent = spent
    BY <1>4 DEF TypeOK, ReadEnergy, Goto, Sample
  <2>2. Readings' \subseteq Readings \cup {r}
    BY <1>1, <1>2 DEF Readings, Holding
  <2>3. spent \in Nat /\ register \in 0..MaxRange
    BY DEF TypeOK
  <2>4. ASSUME NEW x \in Readings
        PROVE  /\ Gap(r.energy - x.energy, r.spent - x.spent)
               /\ Gap(x.energy - r.energy, x.spent - r.spent)
    <3>1. x.energy \in 0..MaxRange /\ x.spent \in Nat /\ x.spent <= spent
      BY DEF EnergyInv, Sample
    <3>2. Gap(register - x.energy, spent - x.spent)
      BY DEF EnergyInv
    <3> HIDE DEF r
    <3> QED
      BY <2>1, <2>3, <3>1, <3>2, EdgeServerConstants DEF Gap
  <2>5. Gap(r.energy - r.energy, r.spent - r.spent)
    BY <2>1, <2>3, EdgeServerConstants DEF Gap
  <2>6. \A x, y \in Readings' : Gap(y.energy - x.energy, y.spent - x.spent)
    BY <2>2, <2>4, <2>5 DEF EnergyInv
  <2>7. \A x \in Readings' : x \in Sample
    BY <2>1, <2>2 DEF EnergyInv
  <2>8. \A x \in Readings' : x.spent <= spent /\ Gap(register - x.energy, spent - x.spent)
    BY <2>1, <2>2, <2>3, <2>5 DEF EnergyInv
  <2>9. /\ \A x \in Readings' : x.spent <= spent' /\ Gap(register' - x.energy, spent' - x.spent)
    BY <1>1, <2>8
  <2> QED
    BY <2>6, <2>7, <2>9 DEF EnergyInv, Gap
<1> QED
  BY <1>3, <1>4

LEMMA RunInv == ASSUME TypeOK, StatInv, NEW idle \in {0, 1}, Run(idle) PROVE StatInv'
<1>1. Snapshots' = Snapshots
  BY DEF Run, Snapshots, Counting, local
<1>2. ASSUME NEW x \in Snapshots
      PROVE  Before(x, jiffies')
  <2>1. x.idle \in Nat /\ x.total \in Nat /\ Before(x, jiffies)
    BY DEF StatInv, Times
  <2>2. jiffies.idle \in Nat /\ jiffies.total \in Nat
    BY DEF TypeOK, Times
  <2>3. jiffies'.idle = jiffies.idle + idle /\ jiffies'.total = jiffies.total + 1
    BY DEF Run
  <2> QED
    BY <2>1, <2>2, <2>3 DEF Before
<1>3. jiffies'.idle <= jiffies'.total
  BY DEF Run, StatInv, TypeOK, Times
<1> QED
  BY <1>1, <1>2, <1>3 DEF StatInv, Before

LEMMA ReadStatInv ==
  ASSUME TypeOK, StatInv, NEW s \in Scrape, ReadStat(s)
  PROVE  StatInv'
<1>1. UNCHANGED <<jiffies, prevCpu>>
  BY DEF ReadStat, machine
<1>2. \A t \in Scrape : t # s => pc'[t] = pc[t] /\ times'[t] = times[t]
  BY DEF TypeOK, ReadStat, Goto
<1>3. s \in Counting' => times'[s] = jiffies
  BY DEF TypeOK, ReadStat, Goto, Counting
<1>4. Snapshots' \subseteq Snapshots \cup {jiffies}
  BY <1>1, <1>2, <1>3 DEF Snapshots, Counting
<1>5. jiffies \in Times /\ Before(jiffies, jiffies)
  BY DEF TypeOK, Times, Before
<1>6. \A x \in Snapshots' : x \in Times /\ Before(x, jiffies)
  BY <1>4, <1>5 DEF StatInv
<1>7. \A x, y \in Snapshots' : Before(x, y) \/ Before(y, x)
  BY <1>4, <1>5 DEF StatInv
<1> QED
  BY <1>1, <1>6, <1>7 DEF StatInv, Before
-----------------------------------------------------------------------------
(* What a calculation uses, and what it makes of it.                       *)

LEMMA PowerFacts ==
  ASSUME TypeOK, EnergyInv, NEW s \in Scrape, CollectPower(s), power'[s] # power[s]
  PROVE  /\ power'[s].consumed \in 0..MaxRange =>
              power'[s].energy - power'[s].consumed \in {0, range - (MaxRange + 1)}
         /\ power'[s] \in [energy : (range - MaxRange)..MaxRange, time : 1..MaxClock, consumed : Int]
<1> DEFINE r == sample[s]
           p == prevRapl
<1>1. prevRapl # None /\ r.time > p.time
  BY DEF CollectPower
<1>2. power'[s] = [energy |-> Delta(r.energy, p.energy),
                   time |-> r.time - p.time, consumed |-> r.spent - p.spent]
  BY <1>1 DEF CollectPower, TypeOK
<1>3. r \in Readings /\ p \in Readings
  BY <1>1 DEF CollectPower, Readings, Holding
<1>4. r \in Sample /\ p \in Sample /\ Gap(r.energy - p.energy, r.spent - p.spent)
  BY <1>3 DEF EnergyInv
<1> HIDE DEF r, p
<1>5. /\ r.energy \in 0..MaxRange /\ p.energy \in 0..MaxRange
      /\ r.spent - p.spent \in Int
      /\ r.time \in 0..MaxClock /\ p.time \in 0..MaxClock
  BY <1>4, EdgeServerConstants DEF Sample
<1>6. /\ Delta(r.energy, p.energy) \in (range - MaxRange)..MaxRange
      /\ r.spent - p.spent \in 0..MaxRange =>
           Delta(r.energy, p.energy) - (r.spent - p.spent)
             \in {0, range - (MaxRange + 1)}
  BY <1>4, <1>5, DeltaFacts DEF TypeOK
<1>7. r.time - p.time \in 1..MaxClock
  BY <1>1, <1>5, EdgeServerConstants DEF r, p
<1> QED
  BY <1>2, <1>5, <1>6, <1>7

LEMMA UsageFacts ==
  ASSUME TypeOK, StatInv, NEW s \in Scrape, CollectUsage(s), usage'[s] # usage[s]
  PROVE  /\ usage'[s].total > 0 /\ usage'[s].busy \in 0..usage'[s].total
         /\ usage'[s] \in [busy : Int, total : Int]
<1> DEFINE r == times[s]
           p == prevCpu
<1>1. prevCpu # None /\ r.total - p.total > 0
  BY DEF CollectUsage, Elapsed
<1>2. usage'[s] = [busy |-> (r.total - p.total) - (r.idle - p.idle),
                   total |-> r.total - p.total]
  BY <1>1 DEF CollectUsage, TypeOK, Elapsed
<1>3. r \in Snapshots /\ p \in Snapshots
  BY <1>1 DEF CollectUsage, Snapshots, Counting
<1>4. r \in Times /\ p \in Times /\ (Before(r, p) \/ Before(p, r))
  BY <1>3 DEF StatInv
<1>5. /\ r.idle \in Nat /\ r.total \in Nat
      /\ p.idle \in Nat /\ p.total \in Nat
  BY <1>4 DEF Times
<1> HIDE DEF r, p
<1>6. /\ r.total - p.total \in Int
      /\ (r.total - p.total) - (r.idle - p.idle) \in 0..(r.total - p.total)
  BY <1>1, <1>4, <1>5 DEF Before, r, p
<1> QED
  BY <1>1, <1>2, <1>6 DEF r, p

-----------------------------------------------------------------------------
(* Every step.                                                             *)

LEMMA TypeStep == ASSUME IInv, [Next]_vars PROVE TypeOK'
<1> USE DEF IInv
<1>1. CASE Consume
  BY <1>1, EdgeServerConstants DEF TypeOK, Consume, local
<1>2. CASE Tick
  BY <1>2, EdgeServerConstants DEF TypeOK, Tick, local
<1>3. ASSUME NEW idle \in {0, 1}, Run(idle)
      PROVE  TypeOK'
  <2>1. jiffies \in Times /\ jiffies.idle <= jiffies.total
    BY DEF TypeOK, StatInv
  <2> QED
    BY <1>3, <2>1, EdgeServerConstants DEF TypeOK, Run, Times, local
<1>4. ASSUME NEW s \in Scrape, GetMetrics(s)
      PROVE  TypeOK'
  BY <1>4, EdgeServerConstants DEF TypeOK, GetMetrics, Goto, Sample, machine
<1>5. ASSUME NEW s \in Scrape, ReadEnergy(s)
      PROVE  TypeOK'
  <2>1. sample' \in [Scrape -> Sample]
    BY <1>5 DEF TypeOK, ReadEnergy, Sample
  <2> QED
    BY <1>5, <2>1 DEF TypeOK, ReadEnergy, Goto, machine
<1>6. ASSUME NEW s \in Scrape, CollectPower(s)
      PROVE  TypeOK'
  <2>1. power'[s] # power[s] =>
          power'[s] \in [energy : (range - MaxRange)..MaxRange, time : 1..MaxClock,
                        consumed : Int]
    BY <1>6, PowerFacts
  <2>2. power' = [power EXCEPT ![s] = power'[s]]
    BY <1>6 DEF TypeOK, CollectPower
  <2>3. power' \in [Scrape -> [energy : (range - MaxRange)..MaxRange,
                                time : 1..MaxClock, consumed : Int] \cup {None}]
    BY <2>1, <2>2 DEF TypeOK
  <2> QED
    BY <1>6, <2>3 DEF TypeOK, CollectPower, Goto, machine
<1>7. ASSUME NEW s \in Scrape, StoreEnergy(s)
      PROVE  TypeOK'
  BY <1>7 DEF TypeOK, StoreEnergy, Goto, machine, local
<1>8. ASSUME NEW s \in Scrape, ReadStat(s)
      PROVE  TypeOK'
  BY <1>8 DEF TypeOK, ReadStat, Goto, machine
<1>9. ASSUME NEW s \in Scrape, CollectUsage(s)
      PROVE  TypeOK'
  <2>1. usage'[s] # usage[s] => usage'[s] \in [busy : Int, total : Int]
    BY <1>9, UsageFacts
  <2>2. usage' = [usage EXCEPT ![s] = usage'[s]]
    BY <1>9 DEF TypeOK, CollectUsage
  <2>3. usage' \in [Scrape -> [busy : Int, total : Int] \cup {None}]
    BY <2>1, <2>2 DEF TypeOK
  <2> QED
    BY <1>9, <2>3 DEF TypeOK, CollectUsage, Goto, machine
<1>10. ASSUME NEW s \in Scrape, StoreStat(s)
       PROVE  TypeOK'
  BY <1>10 DEF TypeOK, StoreStat, Goto, machine, local
<1>11. CASE UNCHANGED vars
  BY <1>11 DEF TypeOK, vars, machine, local
<1> QED
  BY <1>1, <1>2, <1>3, <1>4, <1>5, <1>6, <1>7, <1>8, <1>9, <1>10, <1>11 DEF Next, Collect

LEMMA EnergyStep == ASSUME TypeOK, EnergyInv, [Next]_vars PROVE EnergyInv'
<1>1. CASE Consume
  BY <1>1, ConsumeInv
<1>2. CASE Tick \/ (\E idle \in {0, 1} : Run(idle)) \/ UNCHANGED vars
  <2>1. UNCHANGED <<spent, register, prevRapl, pc, sample>>
    BY <1>2 DEF Tick, Run, vars, machine, local
  <2> QED
    BY <2>1, SameReadings DEF Readings, Holding
<1>3. ASSUME NEW s \in Scrape, ReadEnergy(s)
      PROVE  EnergyInv'
  BY <1>3, ReadEnergyInv
<1>4. ASSUME NEW s \in Scrape, Collect(s), ~ReadEnergy(s)
      PROVE  EnergyInv'
  <2>1. Readings' \subseteq Readings
    BY <1>4, KeepReadings DEF Collect
  <2>2. UNCHANGED <<spent, register>>
    BY <1>4 DEF Collect, GetMetrics, CollectPower, StoreEnergy, ReadStat, CollectUsage,
                StoreStat, machine
  <2> QED
    BY <2>1, <2>2, SameReadings
<1> QED
  BY <1>1, <1>2, <1>3, <1>4 DEF Next

LEMMA StatStep == ASSUME TypeOK, StatInv, [Next]_vars PROVE StatInv'
<1>1. CASE Consume \/ Tick \/ UNCHANGED vars
  <2>1. UNCHANGED <<jiffies, prevCpu, pc, times>>
    BY <1>1 DEF Consume, Tick, vars, machine, local
  <2> QED
    BY <2>1, SameSnapshots DEF Snapshots, Counting
<1>2. ASSUME NEW idle \in {0, 1}, Run(idle)
      PROVE  StatInv'
  BY <1>2, RunInv
<1>3. ASSUME NEW s \in Scrape, ReadStat(s)
      PROVE  StatInv'
  BY <1>3, ReadStatInv
<1>4. ASSUME NEW s \in Scrape, Collect(s), ~ReadStat(s)
      PROVE  StatInv'
  <2>1. Snapshots' \subseteq Snapshots
    BY <1>4, KeepSnapshots DEF Collect
  <2>2. UNCHANGED jiffies
    BY <1>4 DEF Collect, GetMetrics, ReadEnergy, CollectPower, StoreEnergy, CollectUsage,
                StoreStat, machine
  <2> QED
    BY <2>1, <2>2, SameSnapshots
<1> QED
  BY <1>1, <1>2, <1>3, <1>4 DEF Next

(* Only the calculation makes a power, and only get_metrics drops one.     *)
LEMMA PowerStep == ASSUME IInv, [Next]_vars PROVE PowerHonest'
<1> USE DEF IInv
<1>1. ASSUME NEW s \in Scrape, GetMetrics(s)
      PROVE  PowerHonest'
  BY <1>1 DEF GetMetrics, PowerHonest, TypeOK
<1>2. ASSUME NEW s \in Scrape, CollectPower(s)
      PROVE  PowerHonest'
  <2>1. \A t \in Scrape : t # s => power'[t] = power[t]
    BY <1>2 DEF CollectPower, TypeOK
  <2>2. power'[s] # power[s] =>
          (power'[s].consumed \in 0..MaxRange =>
             power'[s].energy - power'[s].consumed \in {0, range - (MaxRange + 1)})
    BY <1>2, PowerFacts
  <2>3. UNCHANGED range
    BY <1>2 DEF CollectPower
  <2> QED
    BY <2>1, <2>2, <2>3 DEF PowerHonest
<1>3. CASE UNCHANGED <<range, power>>
  BY <1>3 DEF PowerHonest
<1>4. ASSUME NEW s \in Scrape, Collect(s), ~GetMetrics(s), ~CollectPower(s)
      PROVE  UNCHANGED <<range, power>>
  BY <1>4 DEF Collect, ReadEnergy, StoreEnergy, ReadStat, CollectUsage, StoreStat, local
<1>5. Consume \/ Tick \/ (\E idle \in {0, 1} : Run(idle)) \/ UNCHANGED vars
        => UNCHANGED <<range, power>>
  BY DEF Consume, Tick, Run, vars, local
<1> QED
  BY <1>1, <1>2, <1>3, <1>4, <1>5 DEF Next

LEMMA UsageStep == ASSUME IInv, [Next]_vars PROVE UsageIsPercent'
<1> USE DEF IInv
<1>1. ASSUME NEW s \in Scrape, GetMetrics(s)
      PROVE  UsageIsPercent'
  BY <1>1 DEF GetMetrics, UsageIsPercent, TypeOK
<1>2. ASSUME NEW s \in Scrape, CollectUsage(s)
      PROVE  UsageIsPercent'
  <2>1. \A t \in Scrape : t # s => usage'[t] = usage[t]
    BY <1>2 DEF CollectUsage, TypeOK
  <2>2. usage'[s] # usage[s] =>
          usage'[s].total > 0 /\ usage'[s].busy \in 0..usage'[s].total
    BY <1>2, UsageFacts
  <2> QED
    BY <2>1, <2>2 DEF UsageIsPercent
<1>3. CASE UNCHANGED usage
  BY <1>3 DEF UsageIsPercent
<1>4. ASSUME NEW s \in Scrape, Collect(s), ~GetMetrics(s), ~CollectUsage(s)
      PROVE  UNCHANGED usage
  BY <1>4 DEF Collect, ReadEnergy, CollectPower, StoreEnergy, ReadStat, StoreStat, local
<1>5. Consume \/ Tick \/ (\E idle \in {0, 1} : Run(idle)) \/ UNCHANGED vars
        => UNCHANGED usage
  BY DEF Consume, Tick, Run, vars, local
<1> QED
  BY <1>1, <1>2, <1>3, <1>4, <1>5 DEF Next

LEMMA Invariance == Spec => []IInv
<1>1. Init => IInv
  BY InitInv
<1>2. IInv /\ [Next]_vars => IInv'
  BY TypeStep, EnergyStep, StatStep, PowerStep, UsageStep DEF IInv
<1> QED
  BY <1>1, <1>2, PTL DEF Spec

-----------------------------------------------------------------------------
(* The type invariant, which says among other things that the energy a     *)
(* scrape divides is never negative and the time never zero.               *)
THEOREM TypeCorrect == Spec => []TypeOK
  BY Invariance, PTL DEF IInv

(* Power is what was consumed between two readings, give or take the one   *)
(* unit lost at a wrap-around, for any range of the counter and any number *)
(* of overlapping scrapes.                                                 *)
THEOREM PowerIsHonest == Spec => []PowerHonest
  BY Invariance, PTL DEF IInv

(* CPU usage is a percentage and is never divided by zero, in whatever     *)
(* order overlapping scrapes store what they have read.                    *)
THEOREM UsageIsAlwaysPercent == Spec => []UsageIsPercent
  BY Invariance, PTL DEF IInv
=============================================================================
