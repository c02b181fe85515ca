--------------------------- MODULE Jetson_proofs ---------------------------
(***************************************************************************)
(* Theorems about Jetson, for any number of threads and processes and any  *)
(* lines tegrastats may print.                                             *)
(***************************************************************************)
EXTENDS Jetson, FiniteSetTheorems, WellFoundedInduction, TLAPS

(* What holds between the steps of one scrape: it has a process exactly    *)
(* until it returns, its pipe is closed before it is signalled, and what   *)
(* was killed is dead.                                                     *)
ScrapeInv(t) ==
  /\ step[t] # "idle" <=> child[t] # Absent
  /\ child[t] # Absent => proc[child[t]] # "free"
  /\ step[t] \in {"terminate", "wait", "reap"} => ~pipe[child[t]]
  /\ step[t] = "reap" => proc[child[t]] = "zombie"
  /\ step[t] \in {"wait", "reap"} => root

Own == \A t, u \in Thread : t # u /\ child[t] # Absent => child[t] # child[u]

IInv ==
  /\ JetsonTypeOK
  /\ \A t \in Thread : ScrapeInv(t)
  /\ Own
  /\ root => Abandoned = {}
  /\ \A p \in Abandoned : ~pipe[p]

LEMMA AbsentIsNoPid == Absent \notin Pid
  BY JetsonConstants

LEMMA InitInv == JetsonInit => IInv
<1> SUFFICES ASSUME JetsonInit PROVE IInv
  OBVIOUS
<1>1. JetsonTypeOK
  BY DEF JetsonInit, JetsonTypeOK
<1>2. Abandoned = {}
  BY DEF JetsonInit, Abandoned
<1>3. QED
  BY <1>1, <1>2 DEF JetsonInit, IInv, ScrapeInv, Own

LEMMA StartInv == ASSUME IInv, NEW t \in Thread, StartTool(t) PROVE IInv'
<1> USE AbsentIsNoPid
<1> DEFINE reaped == {q \in Abandoned : proc[q] = "zombie"}
<1>0. PICK p \in Pid :
        /\ proc[p] = "free" \/ p \in reaped
        /\ proc' = [q \in Pid |-> IF q = p THEN "running"
                                  ELSE IF q \in reaped THEN "free" ELSE proc[q]]
        /\ child' = [child EXCEPT ![t] = p]
        /\ pipe' = [pipe EXCEPT ![p] = TRUE]
  BY DEF StartTool
<1>1. /\ proc[p] = "free" \/ p \in Abandoned
      /\ child' = [child EXCEPT ![t] = p]
      /\ pipe' = [pipe EXCEPT ![p] = TRUE]
      /\ proc'[p] = "running"
      /\ \A q \in Pid \ {p} :
           \/ proc'[q] = proc[q]
           \/ q \in Abandoned /\ proc'[q] = "free"
      /\ proc' \in [Pid -> {"free", "running", "zombie"}]
  BY <1>0 DEF IInv, JetsonTypeOK
<1>2. JetsonTypeOK'
  BY <1>1 DEF StartTool, At, IInv, JetsonTypeOK
<1>3. step[t] = "idle" /\ child[t] = Absent /\ step'[t] = "read"
  BY DEF StartTool, At, IInv, JetsonTypeOK, ScrapeInv
<1>4. \A u \in Thread : child[u] # p
  BY <1>1 DEF IInv, ScrapeInv, Abandoned
<1>5. ASSUME NEW u \in Thread PROVE ScrapeInv(u)'
  <2>1. CASE u = t
    BY <1>1, <1>2, <1>3, <2>1 DEF ScrapeInv, StartTool, JetsonTypeOK, IInv
  <2>2. CASE u # t
    <3>1. child'[u] = child[u] /\ step'[u] = step[u] /\ ScrapeInv(u)
      BY <1>1, <2>2 DEF StartTool, At, IInv, JetsonTypeOK
    <3>2. child[u] # Absent => proc'[child[u]] = proc[child[u]]
                                 /\ pipe'[child[u]] = pipe[child[u]]
      BY <1>1, <1>4 DEF IInv, JetsonTypeOK, Abandoned
    <3>3. QED
      BY <3>1, <3>2 DEF ScrapeInv, StartTool
  <2>3. QED
    BY <2>1, <2>2
<1>6. Own'
  BY <1>1, <1>3, <1>4 DEF Own, IInv, JetsonTypeOK
<1>7. Abandoned' \subseteq Abandoned \ {p}
  BY <1>1, <1>3 DEF Abandoned, IInv, JetsonTypeOK
<1>8. QED
  BY <1>1, <1>2, <1>5, <1>6, <1>7 DEF IInv, StartTool, JetsonTypeOK

(* A step of a scrape, or the end of a process, disturbs no other process. *)
LEMMA ReadInv == ASSUME IInv, NEW t \in Thread, ReadLine(t) PROVE IInv'
<1>1. got' \in [Thread -> Line \cup {Absent}]
  BY DEF ReadLine, IInv, JetsonTypeOK
<1>2. step' = [step EXCEPT ![t] = "close"] /\ step[t] = "read"
      /\ UNCHANGED <<board, root, child, proc, pipe, out>>
  BY DEF ReadLine, At
<1>3. JetsonTypeOK'
  BY <1>1, <1>2 DEF IInv, JetsonTypeOK
<1>4. Abandoned' = Abandoned
  BY <1>2 DEF Abandoned
<1>5. \A u \in Thread : ScrapeInv(u)'
  BY <1>2 DEF IInv, JetsonTypeOK, ScrapeInv
<1>6. QED
  BY <1>2, <1>3, <1>4, <1>5 DEF IInv, Own

LEMMA CloseInv == ASSUME IInv, NEW t \in Thread, ClosePipes(t) PROVE IInv'
<1>1. step' = [step EXCEPT ![t] = "terminate"] /\ step[t] = "close"
      /\ pipe' = [pipe EXCEPT ![child[t]] = FALSE]
      /\ UNCHANGED <<board, root, child, proc, out, got>>
  BY DEF ClosePipes, At
<1>2. JetsonTypeOK'
  BY <1>1 DEF IInv, JetsonTypeOK
<1>3. Abandoned' = Abandoned
  BY <1>1 DEF Abandoned
<1>4. child[t] \in Pid
  BY <1>1 DEF IInv, JetsonTypeOK
<1>5. ASSUME NEW u \in Thread PROVE ScrapeInv(u)'
  BY <1>1, <1>4 DEF IInv, JetsonTypeOK, ScrapeInv
<1>6. QED
  BY <1>1, <1>2, <1>3, <1>5 DEF IInv, Own, JetsonTypeOK

(* The scrape returns, and nothing is left of its process, or, without     *)
(* root, a process whose pipe is closed.                                   *)
LEMMA LeaveInv ==
  ASSUME IInv, NEW t \in Thread, Leave(t),
         step[t] \in {"terminate", "wait", "reap"},
         \/ proc' = [proc EXCEPT ![child[t]] = "free"]
         \/ ~root /\ UNCHANGED proc
  PROVE  IInv'
<1> USE AbsentIsNoPid
<1>1. child[t] \in Pid /\ ~pipe[child[t]]
  BY DEF IInv, JetsonTypeOK, ScrapeInv
<1>2. child' = [child EXCEPT ![t] = Absent] /\ step' = [step EXCEPT ![t] = "idle"]
      /\ UNCHANGED <<board, root, pipe, out, got>>
  BY DEF Leave, At
<1>3. \A u \in Thread \ {t} : child[u] # child[t]
  BY <1>1, AbsentIsNoPid DEF IInv, Own
<1>4. JetsonTypeOK'
  BY <1>1, <1>2 DEF IInv, JetsonTypeOK
<1>5. ASSUME NEW u \in Thread PROVE ScrapeInv(u)'
  <2>1. CASE u = t
    BY <1>2, <2>1 DEF ScrapeInv, IInv, JetsonTypeOK
  <2>2. CASE u # t
    BY <1>1, <1>2, <1>3, <2>2 DEF ScrapeInv, IInv, JetsonTypeOK
  <2>3. QED
    BY <2>1, <2>2
<1>6. Own'
  BY <1>2 DEF IInv, Own, JetsonTypeOK
<1>7. Abandoned' \subseteq Abandoned \cup (IF root THEN {} ELSE {child[t]})
  BY <1>1, <1>2 DEF Abandoned, IInv, JetsonTypeOK
<1>8. QED
  BY <1>1, <1>2, <1>4, <1>5, <1>6, <1>7 DEF IInv

(* A process dies; if it belongs to a scrape, that scrape is t, which goes *)
(* on or stays where it is.                                                *)
LEMMA DieInv ==
  ASSUME IInv, NEW p \in Pid, proc[p] # "free",
         proc' \in {proc, [proc EXCEPT ![p] = "zombie"]},
         UNCHANGED <<board, root, child, pipe, out, got>>,
         \/ UNCHANGED step
         \/ \E t \in Thread :
              \/ /\ step[t] = "terminate" /\ step' = [step EXCEPT ![t] = "wait"]
                 /\ root
              \/ /\ step[t] = "wait" /\ step' = [step EXCEPT ![t] = "reap"]
                 /\ proc'[child[t]] = "zombie"
  PROVE  IInv'
<1> USE AbsentIsNoPid
<1>1. JetsonTypeOK'
  BY DEF IInv, JetsonTypeOK
<1>2. Abandoned' = Abandoned
  BY DEF Abandoned, IInv, JetsonTypeOK
<1>3. ASSUME NEW u \in Thread PROVE ScrapeInv(u)'
  <2>1. child[u] # Absent => child[u] \in Pid
    BY DEF IInv, JetsonTypeOK
  <2>2. CASE UNCHANGED step
    BY <2>1, <2>2 DEF ScrapeInv, IInv, JetsonTypeOK
  <2>3. CASE ~UNCHANGED step
    BY <2>1, <2>3 DEF ScrapeInv, IInv, JetsonTypeOK
  <2>4. QED
    BY <2>2, <2>3
<1>4. QED
  BY <1>1, <1>2, <1>3 DEF IInv, Own

LEMMA CleanupInv ==
  ASSUME IInv, NEW t \in Thread,
         Terminate(t) \/ Wait(t) \/ WaitExpires(t) \/ Reap(t)
  PROVE  IInv'
<1>0. step[t] \in {"terminate", "wait", "reap"} => child[t] \in Pid
  BY DEF IInv, JetsonTypeOK
<1>1. CASE Terminate(t)
  <2>1. CASE proc[child[t]] = "zombie" /\ Leave(t)
              /\ proc' = [proc EXCEPT ![child[t]] = "free"]
    BY <1>1, <2>1, LeaveInv DEF Terminate
  <2>2. CASE ~root /\ Leave(t) /\ UNCHANGED proc
    BY <1>1, <2>2, LeaveInv DEF Terminate
  <2>3. CASE proc[child[t]] = "running" /\ root /\ At(t, "wait")
              /\ proc' \in {proc, [proc EXCEPT ![child[t]] = "zombie"]}
              /\ UNCHANGED <<board, root, child, pipe, out, got>>
    BY <1>0, <1>1, <2>3, DieInv DEF Terminate, At
  <2>4. QED
    BY <1>1, <2>1, <2>2, <2>3 DEF Terminate
<1>2. CASE Wait(t)
  BY <1>2, LeaveInv DEF Wait
<1>3. CASE WaitExpires(t)
  <2>1. proc'[child[t]] = "zombie"
    BY <1>0, <1>3 DEF WaitExpires, IInv, JetsonTypeOK
  <2>2. QED
    BY <1>0, <1>3, <2>1, DieInv DEF WaitExpires, At
<1>4. CASE Reap(t)
  BY <1>4, LeaveInv DEF Reap
<1>5. QED
  BY <1>1, <1>2, <1>3, <1>4

LEMMA ToolInv == ASSUME IInv, NEW p \in Pid, PrintLine(p) \/ EndTool(p) PROVE IInv'
<1>1. CASE PrintLine(p)
  <2>1. JetsonTypeOK'
    BY <1>1 DEF PrintLine, IInv, JetsonTypeOK
  <2>2. Abandoned' = Abandoned
    BY <1>1 DEF PrintLine, Abandoned
  <2>3. QED
    BY <1>1, <2>1, <2>2 DEF PrintLine, IInv, ScrapeInv, Own
<1>2. CASE EndTool(p)
  BY <1>2, DieInv DEF EndTool
<1>3. QED
  BY <1>1, <1>2

LEMMA NextInv == IInv /\ [JetsonNext]_jetsonVars => IInv'
<1> SUFFICES ASSUME IInv, [JetsonNext]_jetsonVars PROVE IInv'
  OBVIOUS
<1>1. ASSUME UNCHANGED jetsonVars PROVE IInv'
  <2>1. JetsonTypeOK'
    BY <1>1 DEF jetsonVars, IInv, JetsonTypeOK
  <2>2. Abandoned' = Abandoned
    BY <1>1 DEF jetsonVars, Abandoned
  <2>3. QED
    BY <1>1, <2>1, <2>2 DEF jetsonVars, IInv, ScrapeInv, Own
<1>2. QED
  BY <1>1, StartInv, ReadInv, CloseInv, CleanupInv, ToolInv DEF JetsonNext, Scraping

-----------------------------------------------------------------------------
(* The state of the scrapes and their processes keeps its types; a scrape  *)
(* that runs has a process.                                                *)
THEOREM TypeCorrect == JetsonSpec => []JetsonTypeOK
<1>1. IInv => JetsonTypeOK
  BY DEF IInv
<1>2. QED
  BY <1>1, InitInv, NextInv, PTL DEF JetsonSpec

(* However many scrapes overlap, each has a process of its own, and as     *)
(* root get_metrics leaves none behind, on any way out.                    *)
THEOREM NothingIsLeft == JetsonSpec => []NoProcessLeft
<1>1. IInv => NoProcessLeft
  BY DEF IInv, NoProcessLeft, Own, ScrapeInv
<1>2. QED
  BY <1>1, InitInv, NextInv, PTL DEF JetsonSpec

(* A process that is left behind has lost the reader of its output.        *)
THEOREM AbandonedHaveNoReader == JetsonSpec => []AbandonedEnds
<1>1. IInv => AbandonedEnds
  BY DEF IInv, AbandonedEnds
<1>2. QED
  BY <1>1, InitInv, NextInv, PTL DEF JetsonSpec

-----------------------------------------------------------------------------
(* Induction over the numbers.  The library states it for an operator,     *)
(* which no prover here can instantiate; a set of numbers does as well,    *)
(* because the library also knows that < is well founded.                  *)
LEMMA Least ==
  ASSUME NEW S, S \subseteq Nat, S # {}
  PROVE  \E m \in S : \A n \in S : m <= n
<1> DEFINE Less == OpToRel(<, Nat)
<1>1. IsWellFoundedOn(Less, Nat)
  BY NatLessThanWellFounded
<1>2. \A m, n \in Nat : m < n => <<m, n>> \in Less
  BY DEF OpToRel
<1> HIDE DEF Less
<1>3. PICK m \in S : \A n \in S : ~ (<<n, m>> \in Less)
  BY <1>1, WFMin
<1>4. ASSUME NEW n \in S PROVE m <= n
  <2>1. m \in Nat /\ n \in Nat
    OBVIOUS
  <2>2. ~ (n < m)
    BY <1>2, <1>3, <2>1, Zenon
  <2>3. QED
    BY <2>1, <2>2
<1>5. QED
  BY <1>4

LEMMA Induction ==
  ASSUME NEW N \in Nat, NEW S, 0 \in S, \A n \in 1..N : n - 1 \in S => n \in S
  PROVE  0..N \subseteq S
<1>1. SUFFICES ASSUME (0..N) \ S # {} PROVE FALSE
  OBVIOUS
<1>2. PICK m \in (0..N) \ S : \A n \in (0..N) \ S : m <= n
  <2> DEFINE T == (0..N) \ S
  <2>1. T \subseteq Nat /\ T # {}
    BY <1>1
  <2> HIDE DEF T
  <2>2. \E m \in T : \A n \in T : m <= n
    BY <2>1, Least
  <2>3. QED
    BY <2>2 DEF T
<1>3. m \in 1..N /\ m - 1 \in 0..N
  BY <1>2
<1>4. QED
  BY <1>2, <1>3

(* What the loop over the cores adds up: its totals exist, however many    *)
(* cores there are, and Usage is the last of them.                         *)
Weight(cores, n) == IF n \in On(cores) THEN cores[n].usage ELSE 0
Totals(cores, N, g) ==
  g = [n \in 0..N |-> IF n = 0 THEN 0 ELSE g[n - 1] + Weight(cores, n)]

LEMMA TotalsExist ==
  ASSUME NEW cores, NEW N \in Nat
  PROVE  \E g : Totals(cores, N, g)
<1> DEFINE S == {k \in 0..N : \E g : Totals(cores, k, g)}
<1>1. 0 \in S
  <2> DEFINE g == [n \in 0..0 |-> 0]
  <2>1. Totals(cores, 0, g)
    BY DEF Totals
  <2>2. QED
    BY <2>1
<1>2. ASSUME NEW k \in 1..N, k - 1 \in S PROVE k \in S
  <2>1. PICK g : Totals(cores, k - 1, g)
    BY <1>2
  <2> DEFINE h == [n \in 0..k |-> IF n = k THEN g[k - 1] + Weight(cores, k) ELSE g[n]]
  <2>2. \A n \in 0..(k - 1) : h[n] = g[n] /\ g[n] = IF n = 0 THEN 0 ELSE g[n - 1] + Weight(cores, n)
    BY <2>1 DEF Totals
  <2>3. ASSUME NEW n \in 0..k
        PROVE h[n] = IF n = 0 THEN 0 ELSE h[n - 1] + Weight(cores, n)
    <3>1. CASE n = k
      <4>1. n # 0 /\ k - 1 \in 0..(k-1) /\ k - 1 # k /\ k - 1 \in 0..k
        BY <3>1
      <4>2. h[n] = g[k-1] + Weight(cores, k)
        BY <3>1
      <4>3. QED
        BY <2>2, <3>1, <4>1, <4>2
    <3>2. CASE n # k
      <4>1. n \in 0..(k-1) /\ (n # 0 => n - 1 \in 0..(k-1))
        BY <3>2
      <4> HIDE DEF h
      <4>2. QED
        BY <2>2, <4>1
    <3>3. QED
      BY <3>1, <3>2
  <2>4. h = [n \in 0..k |-> IF n = 0 THEN 0 ELSE h[n - 1] + Weight(cores, n)]
    <3>1. h = [n \in 0..k |-> h[n]]
      OBVIOUS
    <3> HIDE DEF h
    <3>2. QED
      BY <2>3, <3>1
  <2>5. Totals(cores, k, h)
    BY <2>4, Zenon DEF Totals
  <2>6. QED
    BY <2>5
<1> HIDE DEF S
<1>3. 0..N \subseteq S
  BY <1>1, <1>2, Induction
<1>4. QED
  BY <1>3 DEF S

LEMMA UsageIsTotal ==
  ASSUME NEW cores, Len(cores) \in Nat
  PROVE  \E g : Totals(cores, Len(cores), g) /\ Usage(cores) = g[Len(cores)]
<1> DEFINE g == CHOOSE f : Totals(cores, Len(cores), f)
<1>1. Totals(cores, Len(cores), g)
  BY TotalsExist
<1>2. Usage(cores) = g[Len(cores)]
  BY Zenon DEF Usage, Totals, Weight
<1>3. QED
  BY <1>1, <1>2

(* The cores that are on and were counted so far.                          *)
OnUpTo(cores, n) == {i \in On(cores) : i <= n}

LEMMA OnUpToStep ==
  ASSUME NEW cores, CoreList(cores), NEW n \in 1..Len(cores)
  PROVE  /\ IsFiniteSet(OnUpTo(cores, n))
         /\ Cardinality(OnUpTo(cores, n)) \in Nat
         /\ Cardinality(OnUpTo(cores, n)) =
              Cardinality(OnUpTo(cores, n - 1)) + (IF n \in On(cores) THEN 1 ELSE 0)
<1>1. ASSUME NEW m \in Nat
      PROVE  IsFiniteSet(OnUpTo(cores, m)) /\ Cardinality(OnUpTo(cores, m)) \in Nat
  <2>1. OnUpTo(cores, m) \subseteq 1..m
    BY DEF OnUpTo, On, CoreList
  <2>2. IsFiniteSet(1..m)
    BY FS_Interval
  <2>3. QED
    BY <2>1, <2>2, FS_Subset, FS_CardinalityType
<1>2. n \in Nat /\ n - 1 \in Nat /\ n \notin OnUpTo(cores, n - 1)
  BY DEF OnUpTo, CoreList
<1>3. CASE n \in On(cores)
  <2>1. OnUpTo(cores, n) = OnUpTo(cores, n - 1) \cup {n}
    BY <1>2, <1>3 DEF OnUpTo, On, CoreList
  <2>2. QED
    BY <1>1, <1>2, <1>3, <2>1, FS_AddElement
<1>4. CASE n \notin On(cores)
  <2>1. OnUpTo(cores, n) = OnUpTo(cores, n - 1)
    BY <1>2, <1>4 DEF OnUpTo, On, CoreList
  <2>2. QED
    BY <1>1, <1>2, <1>4, <2>1
<1>5. QED
  BY <1>3, <1>4, <1>1, <1>2

LEMMA OnUpToEnds ==
  ASSUME NEW cores, CoreList(cores)
  PROVE  /\ Cardinality(OnUpTo(cores, 0)) = 0
         /\ OnUpTo(cores, Len(cores)) = On(cores)
<1>1. OnUpTo(cores, 0) = {} /\ OnUpTo(cores, Len(cores)) = On(cores)
  BY DEF OnUpTo, On, CoreList
<1>2. QED
  BY <1>1, FS_EmptySet

LEMMA Successor ==
  ASSUME NEW b \in Int, NEW c \in Int
  PROVE  b * (c + 1) = b * c + b /\ b * 0 = 0
  OBVIOUS

LEMMA Predecessor ==
  ASSUME NEW q \in Int, NEW c \in Int
  PROVE  (q - 1) * c = q * c - c
  OBVIOUS

(* A bound of every core that is on bounds the total of all of them.       *)
LEMMA UsageIsBounded ==
  ASSUME NEW cores, CoreList(cores), NEW lo \in Int, NEW hi \in Int
  PROVE  /\ Usage(cores) \in Nat
         /\ (\A i \in On(cores) : lo <= cores[i].usage)
              => lo * Cardinality(On(cores)) <= Usage(cores)
         /\ (\A i \in On(cores) : cores[i].usage <= hi)
              => Usage(cores) <= hi * Cardinality(On(cores))
<1> DEFINE N == Len(cores)
           above == \A i \in On(cores) : lo <= cores[i].usage
           below == \A i \in On(cores) : cores[i].usage <= hi
           c(n) == Cardinality(OnUpTo(cores, n))
<1>1. PICK g : Totals(cores, N, g) /\ Usage(cores) = g[N]
  BY UsageIsTotal DEF CoreList
<1> DEFINE S == {n \in 0..N : /\ g[n] \in Nat
                              /\ above => lo * c(n) <= g[n]
                              /\ below => g[n] <= hi * c(n)}
<1>2. N \in Nat
  BY DEF CoreList
<1>3. g[0] = 0 /\ \A n \in 1..N : g[n] = g[n - 1] + Weight(cores, n)
  BY <1>1, <1>2 DEF Totals
<1>4. 0 \in S
  BY <1>2, <1>3, OnUpToEnds, Successor
<1>5. ASSUME NEW n \in 1..N, n - 1 \in S PROVE n \in S
  <2> DEFINE d == c(n - 1)
  <2>1. d \in Nat
    <3>1. CASE n = 1
      BY <3>1, OnUpToEnds
    <3>2. CASE n # 1
      <4>1. n - 1 \in 1..N
        BY <1>2, <3>2
      <4>2. QED
        BY <4>1, OnUpToStep
    <3>3. QED
      BY <3>1, <3>2
  <2>2. c(n) = d + (IF n \in On(cores) THEN 1 ELSE 0)
    BY OnUpToStep
  <2>3. /\ g[n - 1] \in Nat
        /\ above => lo * d <= g[n - 1]
        /\ below => g[n - 1] <= hi * d
    BY <1>5
  <2>4. g[n] = g[n - 1] + Weight(cores, n)
    BY <1>3
  <2>5. n \in On(cores) =>
          /\ cores[n].usage \in Nat
          /\ above => lo <= cores[n].usage
          /\ below => cores[n].usage <= hi
    BY DEF On, CoreList
  <2>6. lo * (d + 1) = lo * d + lo /\ hi * (d + 1) = hi * d + hi
    BY <2>1, Successor
  <2>7. lo * d \in Int /\ hi * d \in Int
    BY <2>1
  <2> HIDE DEF d
  <2>8. c(n) \in Nat /\ lo * c(n) \in Int /\ hi * c(n) \in Int
    BY <2>1, <2>2
  <2>9. CASE n \in On(cores)
    <3>1. c(n) = d + 1 /\ Weight(cores, n) = cores[n].usage
      BY <2>2, <2>9 DEF Weight
    <3>2. lo * c(n) = lo * d + lo /\ hi * c(n) = hi * d + hi
      BY <2>6, <3>1
    <3> HIDE DEF c
    <3>3. g[n] = g[n - 1] + cores[n].usage /\ g[n] \in Nat
      BY <2>3, <2>4, <2>5, <2>9, <3>1
    <3>4. ASSUME above PROVE lo * c(n) <= g[n]
      <4>1. lo * d <= g[n - 1] /\ lo <= cores[n].usage
        BY <2>3, <2>9, <3>4
      <4>2. QED
        BY <2>3, <2>5, <2>7, <2>9, <3>2, <3>3, <4>1
    <3>5. ASSUME below PROVE g[n] <= hi * c(n)
      <4>1. g[n - 1] <= hi * d /\ cores[n].usage <= hi
        BY <2>3, <2>9, <3>5
      <4>2. QED
        BY <2>3, <2>5, <2>7, <2>9, <3>2, <3>3, <4>1
    <3>6. QED
      BY <1>2, <3>3, <3>4, <3>5
  <2>10. CASE n \notin On(cores)
    <3>1. c(n) = d /\ Weight(cores, n) = 0
      BY <2>1, <2>2, <2>10 DEF Weight
    <3>2. g[n] = g[n - 1]
      BY <2>3, <2>4, <3>1
    <3> HIDE DEF c
    <3>3. QED
      BY <1>2, <2>3, <3>1, <3>2
  <2>11. QED
    BY <2>9, <2>10
<1>6. N \in S
  <2> HIDE DEF S, N
  <2>1. 0..N \subseteq S
    BY <1>2, <1>4, <1>5, Induction
  <2>2. QED
    BY <1>2, <2>1
<1>7. /\ g[N] \in Nat
      /\ above => lo * c(N) <= g[N]
      /\ below => g[N] <= hi * c(N)
  <2> HIDE DEF N, c, above, below
  <2>1. QED
    BY <1>6
<1>8. c(N) = Cardinality(On(cores)) /\ g[N] = Usage(cores)
  BY <1>1, OnUpToEnds
<1>9. QED
  <2> HIDE DEF N, c
  <2>1. QED
    BY <1>7, <1>8

LEMMA Quotient ==
  ASSUME NEW a \in Nat, NEW c \in Nat, c > 0
  PROVE  /\ a \div c \in Nat
         /\ (a \div c) * c <= a /\ a < (a \div c + 1) * c
  OBVIOUS

(* Which metrics are about the cores: no other field gives one.            *)
CoreParts == {"core", "cpu"}

LEMMA OtherFields ==
  ASSUME NEW line, NEW unit, NEW forms,
         NEW x \in Rails(line, unit) \cup Temperatures(line) \cup Memory(line)
                     \cup Swap(line) \cup SwapCached(line) \cup Iram(line)
                     \cup LargestFreeBlock(line) \cup MemoryController(line)
                     \cup Gpu(line, forms) \cup Vic(line) \cup Ape(line)
  PROVE  x.name[1] \notin CoreParts
<1>1. CASE x \in Rails(line, unit)
  BY <1>1 DEF Rails, IfFound, Metric, CoreParts
<1>2. CASE x \in Temperatures(line)
  BY <1>2 DEF Temperatures, Metric, CoreParts
<1>3. CASE x \in Memory(line) \cup Iram(line)
  BY <1>3 DEF Memory, Iram, IfFound, Metric, CoreParts
<1>4. CASE x \in Swap(line) \cup SwapCached(line)
  BY <1>4 DEF Swap, SwapCached, IfFound, Metric, CoreParts
<1>5. CASE x \in LargestFreeBlock(line) \cup MemoryController(line)
  BY <1>5 DEF LargestFreeBlock, MemoryController, IfFound, Metric, CoreParts
<1>6. CASE x \in Gpu(line, forms) \cup Vic(line) \cup Ape(line)
  BY <1>6 DEF Gpu, Vic, Ape, IfFound, Metric, CoreParts
<1>7. QED
  BY <1>1, <1>2, <1>3, <1>4, <1>5, <1>6

LEMMA MetricsOfCores ==
  ASSUME NEW b \in Board, NEW line
  PROVE  {x \in Metrics(b, line) : x.name[1] \in CoreParts} =
           {x \in Cores(line) : x.name[1] \in CoreParts}
<1>1. CASE b = "orin"
  BY <1>1, OtherFields, Zenon DEF Metrics, Orin
<1>2. CASE b = "xavier"
  BY <1>2, OtherFields, Zenon DEF Metrics, Xavier
<1>3. CASE b = "orin_nano"
  BY <1>3, OtherFields, Zenon DEF Metrics, OrinNano
<1>4. CASE b = "nano"
  BY <1>4, OtherFields, Zenon DEF Metrics, Nano
<1>5. QED
  BY <1>1, <1>2, <1>3, <1>4 DEF Board

(* What the parsers say of the cores, spelled out.                         *)
Story(ms, cores) ==
  /\ \A x \in ms : x.name[1] = "core" /\ x.name[3] = "usage" =>
       \E i \in On(cores) : x.value = cores[i].usage
  /\ \A i \in On(cores) :
       \E x \in ms : x.name[1] = "core" /\ x.name[3] = "usage" /\ x.value = cores[i].usage
  /\ \A x \in ms : x.name[1] = "core" /\ x.name[3] = "status" =>
       \E i \in DOMAIN cores :
         /\ x.name[2] = i - 1
         /\ \/ x.value = 1 /\ cores[i].status = "on"
            \/ x.value = 0 /\ cores[i].status = "off"
  /\ \A i \in On(cores) :
       \E x \in ms : /\ x.name[1] = "core" /\ x.name[3] = "status"
                     /\ x.value = 1 /\ x.name[2] = i - 1
  /\ \A x \in ms : x.name = <<"cpu", "avg", "usage">> =>
       On(cores) # {} /\ x.value = Usage(cores) \div Cardinality(On(cores))
  /\ {x.value : x \in {y \in ms : y.name = <<"cpu", "active", "cores">>}} =
       IF On(cores) = {} THEN {} ELSE {Cardinality(On(cores))}

LEMMA CoresTell ==
  ASSUME NEW line, line.cores # Absent, CoreList(line.cores)
  PROVE  Story({x \in Cores(line) : x.name[1] \in CoreParts}, line.cores)
<1> DEFINE cores == line.cores
           ms == {x \in Cores(line) : x.name[1] \in CoreParts}
<1>1. \A x \in Cores(line) :
        x \in Average(cores) \/ \E i \in DOMAIN cores : x \in OfCore(cores, i)
  BY DEF Cores, IfFound
<1>2. /\ Average(cores) \subseteq Cores(line)
      /\ \A i \in DOMAIN cores : OfCore(cores, i) \subseteq Cores(line)
  BY DEF Cores, IfFound
<1> HIDE DEF cores
<1>3. \A x \in Average(cores) :
        /\ On(cores) # {}
        /\ x \in {Metric(<<"cpu", "avg", "usage">>, Usage(cores) \div Cardinality(On(cores))),
                  Metric(<<"cpu", "active", "cores">>, Cardinality(On(cores)))}
  BY DEF Average
<1>4. \A x \in ms : x.name[1] = "core" => \E i \in DOMAIN cores : x \in OfCore(cores, i)
  BY <1>1, <1>3 DEF Metric
<1>5. \A x \in ms : x.name[1] = "cpu" => x \in Average(cores)
  BY <1>1 DEF Metric, OfCore
<1>6. \A x \in ms : x.name[1] = "core" /\ x.name[3] = "usage" =>
        \E i \in On(cores) : x.value = cores[i].usage
  BY <1>4 DEF Metric, OfCore, On
<1>7. \A x \in ms : x.name[1] = "core" /\ x.name[3] = "status" =>
       \E i \in DOMAIN cores :
         /\ x.name[2] = i - 1
         /\ \/ x.value = 1 /\ cores[i].status = "on"
            \/ x.value = 0 /\ cores[i].status = "off"
  BY <1>4 DEF Metric, OfCore
<1>8. \A i \in On(cores) :
       \E x \in ms : x.name[1] = "core" /\ x.name[3] = "usage" /\ x.value = cores[i].usage
  <2> TAKE i \in On(cores)
  <2> DEFINE x == Metric(<<"core", i - 1, "usage">>, cores[i].usage)
  <2>1. x \in Cores(line)
    BY <1>2 DEF OfCore, On
  <2>2. x.name[1] = "core" /\ x.name[3] = "usage" /\ x.value = cores[i].usage
    BY DEF Metric
  <2>3. QED
    BY <2>1, <2>2 DEF CoreParts
<1>9. \A i \in On(cores) :
       \E x \in ms : /\ x.name[1] = "core" /\ x.name[3] = "status"
                     /\ x.value = 1 /\ x.name[2] = i - 1
  <2> TAKE i \in On(cores)
  <2> DEFINE x == Metric(<<"core", i - 1, "status">>, 1)
  <2>1. x \in Cores(line)
    BY <1>2 DEF OfCore, On
  <2>2. x.name[1] = "core" /\ x.name[3] = "status" /\ x.value = 1 /\ x.name[2] = i - 1
    BY DEF Metric
  <2>3. QED
    BY <2>1, <2>2 DEF CoreParts
<1>10. \A x \in ms : x.name = <<"cpu", "avg", "usage">> =>
       On(cores) # {} /\ x.value = Usage(cores) \div Cardinality(On(cores))
  BY <1>3, <1>5 DEF Metric
<1>11. {x.value : x \in {y \in ms : y.name = <<"cpu", "active", "cores">>}} =
       IF On(cores) = {} THEN {} ELSE {Cardinality(On(cores))}
  <2> DEFINE m == Metric(<<"cpu", "active", "cores">>, Cardinality(On(cores)))
  <2>1. \A y \in ms : y.name = <<"cpu", "active", "cores">> => y = m /\ On(cores) # {}
    BY <1>3, <1>5 DEF Metric
  <2>2. On(cores) # {} => m \in ms
    BY <1>2 DEF Average, Metric, CoreParts
  <2>3. m.name = <<"cpu", "active", "cores">> /\ m.value = Cardinality(On(cores))
    BY DEF Metric
  <2> HIDE DEF m
  <2>4. QED
    BY <2>1, <2>2, <2>3
<1>12. QED
  BY <1>6, <1>7, <1>8, <1>9, <1>10, <1>11 DEF Story, cores

(* The cores of a line, as the properties look at them.                    *)
LEMMA StoryAgrees ==
  ASSUME NEW ms, NEW cores, CoreList(cores), Story(ms, cores)
  PROVE
      LET values(name) == {m.value : m \in {x \in ms : x.name = name}}
          core(kind) == {x \in ms : x.name[1] = "core" /\ x.name[3] = kind}
          usages == {m.value : m \in core("usage")}
          on == {m.name[2] : m \in {x \in core("status") : x.value = 1}}
          off == {m.name[2] : m \in {x \in core("status") : x.value = 0}}
          avg == values(<<"cpu", "avg", "usage">>)
          active == values(<<"cpu", "active", "cores">>)
      IN
      /\ on \cap off = {}
      /\ IF on = {} THEN avg = {} /\ active = {}
         ELSE /\ active = {Cardinality(on)}
              /\ \A a \in avg : (\E u \in usages : u <= a) /\ (\E u \in usages : a <= u)
<1> DEFINE values(name) == {m.value : m \in {x \in ms : x.name = name}}
           core(kind) == {x \in ms : x.name[1] = "core" /\ x.name[3] = kind}
           usages == {m.value : m \in core("usage")}
           on == {m.name[2] : m \in {x \in core("status") : x.value = 1}}
           off == {m.name[2] : m \in {x \in core("status") : x.value = 0}}
           avg == values(<<"cpu", "avg", "usage">>)
           active == values(<<"cpu", "active", "cores">>)
<1>1. DOMAIN cores \subseteq Nat /\ On(cores) \subseteq DOMAIN cores
      /\ \A i \in DOMAIN cores : cores[i].usage \in Nat
  BY DEF CoreList, On
<1>2. on = {i - 1 : i \in On(cores)}
  <2>1. ASSUME NEW c \in on PROVE c \in {i - 1 : i \in On(cores)}
    <3>1. PICK x \in ms : /\ x.name[1] = "core" /\ x.name[3] = "status"
                          /\ x.value = 1 /\ c = x.name[2]
      BY <2>1
    <3>2. PICK i \in DOMAIN cores : /\ x.name[2] = i - 1
                                    /\ \/ x.value = 1 /\ cores[i].status = "on"
                                       \/ x.value = 0 /\ cores[i].status = "off"
      BY <3>1 DEF Story
    <3>3. QED
      BY <3>1, <3>2 DEF On
  <2>2. ASSUME NEW i \in On(cores) PROVE i - 1 \in on
    <3>1. PICK x \in ms : /\ x.name[1] = "core" /\ x.name[3] = "status"
                          /\ x.value = 1 /\ x.name[2] = i - 1
      BY DEF Story
    <3>2. QED
      BY <3>1
  <2>3. QED
    BY <2>1, <2>2
<1>3. off \subseteq {i - 1 : i \in DOMAIN cores \ On(cores)}
  <2>1. ASSUME NEW c \in off PROVE c \in {i - 1 : i \in DOMAIN cores \ On(cores)}
    <3>1. PICK x \in ms : /\ x.name[1] = "core" /\ x.name[3] = "status"
                          /\ x.value = 0 /\ c = x.name[2]
      BY <2>1
    <3>2. PICK i \in DOMAIN cores : /\ x.name[2] = i - 1
                                    /\ \/ x.value = 1 /\ cores[i].status = "on"
                                       \/ x.value = 0 /\ cores[i].status = "off"
      BY <3>1 DEF Story
    <3>3. QED
      BY <3>1, <3>2 DEF On
  <2>2. QED
    BY <2>1
<1>4. on \cap off = {}
  <2> HIDE DEF on, off
  <2>1. QED
    BY <1>1, <1>2, <1>3
<1>5. on = {} <=> On(cores) = {}
  <2> HIDE DEF on
  <2>1. QED
    BY <1>2
<1>6. CASE On(cores) = {}
  <2>1. avg = {} /\ active = {}
    BY <1>6 DEF Story
  <2>2. QED
    BY <1>4, <1>5, <1>6, <2>1
<1>7. CASE On(cores) # {}
  <2> DEFINE c == Cardinality(On(cores))
             q == Usage(cores) \div c
  <2>1. IsFiniteSet(On(cores)) /\ c \in Nat /\ c > 0
    <3>1. On(cores) \subseteq 1..Len(cores) /\ Len(cores) \in Nat
      BY <1>1 DEF CoreList
    <3>2. IsFiniteSet(On(cores))
      <4>1. IsFiniteSet(1..Len(cores))
        BY <3>1, FS_Interval
      <4>2. QED
        BY <3>1, <4>1, FS_Subset
    <3>3. QED
      BY <1>7, <3>2, FS_EmptySet, FS_CardinalityType
  <2>2. Cardinality(on) = c
    <3> DEFINE f == [i \in On(cores) |-> i - 1]
    <3>1. f \in Bijection(On(cores), on)
      <4> HIDE DEF on
      <4>1. f \in [On(cores) -> on]
        BY <1>2
      <4>2. \A i, j \in On(cores) : f[i] = f[j] => i = j
        BY <1>1
      <4>3. \A d \in on : \E i \in On(cores) : f[i] = d
        BY <1>2
      <4>4. QED
        BY <4>1, <4>2, <4>3 DEF Bijection, Injection, Surjection, IsInjective
    <3> HIDE DEF f, on
    <3>2. ExistsBijection(On(cores), on)
      BY <3>1 DEF ExistsBijection
    <3>3. QED
      BY <2>1, <3>2, FS_Bijection
  <2>3. active = {Cardinality(on)}
    <3>1. active = {c}
      BY <1>7 DEF Story
    <3>2. QED
      BY <2>2, <3>1
  <2>4. \A a \in avg : a = q
    BY DEF Story
  <2>5. Usage(cores) \in Nat
    BY UsageIsBounded
  <2>6. q \in Nat /\ q * c <= Usage(cores) /\ Usage(cores) < (q + 1) * c
    BY <2>1, <2>5, Quotient
  <2>7. \E i \in On(cores) : cores[i].usage <= q
    <3> SUFFICES ASSUME \A i \in On(cores) : q + 1 <= cores[i].usage PROVE FALSE
      BY <1>1, <2>6
    <3>1. q + 1 \in Int
      BY <2>6
    <3>2. (q + 1) * c <= Usage(cores)
      BY <3>1, UsageIsBounded
    <3>3. (q + 1) * c \in Int
      BY <2>1, <3>1
    <3> HIDE DEF q, c
    <3>4. QED
      BY <2>5, <2>6, <3>2, <3>3
  <2>8. \E i \in On(cores) : q <= cores[i].usage
    <3> SUFFICES ASSUME \A i \in On(cores) : cores[i].usage <= q - 1 PROVE FALSE
      BY <1>1, <2>6
    <3>1. q - 1 \in Int
      BY <2>6
    <3>2. Usage(cores) <= (q - 1) * c
      BY <3>1, UsageIsBounded
    <3>3. (q - 1) * c = q * c - c
      BY <2>1, <2>6, Predecessor
    <3>4. q * c \in Int
      BY <2>1, <2>6
    <3> HIDE DEF q, c
    <3>5. QED
      BY <2>1, <2>5, <2>6, <3>2, <3>3, <3>4
  <2>9. (\E u \in usages : u <= q) /\ (\E u \in usages : q <= u)
    BY <2>7, <2>8 DEF Story
  <2>10. QED
    BY <1>4, <1>5, <1>7, <2>3, <2>4, <2>9
<1>8. QED
  BY <1>6, <1>7

(* A line without cores, or one that cannot be parsed, tells nothing.      *)
LEMMA SilenceAgrees ==
  ASSUME NEW ms, \A x \in ms : x.name[1] \notin CoreParts
  PROVE  /\ {x \in ms : x.name[1] = "core" /\ x.name[3] = "usage"} = {}
         /\ {x \in ms : x.name[1] = "core" /\ x.name[3] = "status"} = {}
         /\ {x \in ms : x.name = <<"cpu", "avg", "usage">>} = {}
         /\ {x \in ms : x.name = <<"cpu", "active", "cores">>} = {}
  BY DEF CoreParts

LEMMA ParsedTell ==
  ASSUME NEW b \in Board, NEW line \in Line
  PROVE  \/ \A x \in Parsed(b, line) : x.name[1] \notin CoreParts
         \/ CoreList(line.cores) /\ Story(Parsed(b, line), line.cores)
<1>1. CASE Raises(line)
  BY <1>1 DEF Parsed
<1>2. CASE ~Raises(line) /\ line.cores = Absent
  <2>1. Cores(line) = {}
    BY <1>2 DEF Cores, IfFound
  <2>2. QED
    BY <1>2, <2>1, MetricsOfCores DEF Parsed
<1>3. CASE ~Raises(line) /\ line.cores # Absent
  <2> DEFINE part(ms) == {x \in ms : x.name[1] \in CoreParts}
             ms == Parsed(b, line)
  <2>1. CoreList(line.cores)
    BY <1>3, JetsonConstants
  <2>2. Story(part(ms), line.cores)
    BY <1>3, <2>1, CoresTell, MetricsOfCores DEF Parsed
  <2> HIDE DEF ms
  <2>3. \A x \in ms : \/ x.name[1] \in CoreParts
                      \/ x.name = <<"cpu", "avg", "usage">>
                      \/ x.name = <<"cpu", "active", "cores">>
                      => x \in part(ms)
    BY DEF CoreParts
  <2>4. \A x \in ms : x.name[1] = "core" => x \in part(ms)
    BY DEF CoreParts
  <2>5. {y \in ms : y.name = <<"cpu", "active", "cores">>} =
          {y \in part(ms) : y.name = <<"cpu", "active", "cores">>}
    BY <2>3
  <2>6. part(ms) \subseteq ms
    OBVIOUS
  <2> HIDE DEF part
  <2>7. Story(ms, line.cores)
    BY <2>2, <2>3, <2>4, <2>5, <2>6 DEF Story
  <2>8. QED
    BY <2>1, <2>7 DEF ms
<1>4. QED
  BY <1>1, <1>2, <1>3

(* Whatever line tegrastats prints, what is exported of the cores is one   *)
(* story: the average over the cores that are on lies between their        *)
(* usages, however many there are, and their number is the one reported.   *)
THEOREM CoresAlwaysAgree == JetsonSpec => []CoresAgree
<1>1. ASSUME IInv PROVE CoresAgree
  <2> SUFFICES ASSUME NEW t \in Thread, step[t] = "close", got[t] # Absent
      PROVE
      LET ms == Parsed(board, got[t])
          values(name) == {m.value : m \in {x \in ms : x.name = name}}
          core(kind) == {x \in ms : x.name[1] = "core" /\ x.name[3] = kind}
          usages == {m.value : m \in core("usage")}
          on == {m.name[2] : m \in {x \in core("status") : x.value = 1}}
          off == {m.name[2] : m \in {x \in core("status") : x.value = 0}}
          avg == values(<<"cpu", "avg", "usage">>)
          active == values(<<"cpu", "active", "cores">>)
      IN
      /\ on \cap off = {}
      /\ IF on = {} THEN avg = {} /\ active = {}
         ELSE /\ active = {Cardinality(on)}
              /\ \A a \in avg : (\E u \in usages : u <= a) /\ (\E u \in usages : a <= u)
    BY Zenon DEF CoresAgree
  <2>1. board \in Board /\ got[t] \in Line
    BY <1>1 DEF IInv, JetsonTypeOK
  <2> DEFINE ms == Parsed(board, got[t])
  <2>2. CASE \A x \in ms : x.name[1] \notin CoreParts
    <3> HIDE DEF ms
    <3>1. QED
      BY <2>2, SilenceAgrees DEF ms
  <2>3. CASE CoreList(got[t].cores) /\ Story(ms, got[t].cores)
    BY <2>3, StoryAgrees, Zenon
  <2>4. QED
    BY <2>1, <2>2, <2>3, ParsedTell
<1>2. QED
  BY <1>1, TypeCorrect, InitInv, NextInv, PTL DEF JetsonSpec
=============================================================================
