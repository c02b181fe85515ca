---------------------------- MODULE MCCollectors ----------------------------
(* Instances of Collectors for TLC: one line of tegrastats as each board   *)
(* prints it, and the ones that are hard to parse.                         *)
EXTENDS Collectors, TLC

Bare ==
  [unit |-> "mW", rails |-> <<>>, temps |-> <<>>, ram |-> Absent, swap |-> Absent,
   iram |-> Absent, lfb |-> Absent, cores |-> Absent, emc |-> Absent, gpu |-> Absent,
   vic |-> Absent, ape |-> Absent]

Core(u, f) == [status |-> "on", usage |-> u, freq |-> f]
Off == [status |-> "off", usage |-> 0, freq |-> 0]
Odd == [status |-> "odd", usage |-> 0, freq |-> 0]

OrinLine ==
  [Bare EXCEPT !.rails =
     "gpu" :> [now |-> 4, avg |-> 3] @@ "NC" :> [now |-> 0, avg |-> 0],
               !.temps = "cpu" :> 45 @@ "cv0" :> -256, !.ram = [used |-> 6, total |-> 62],
               !.swap = [used |-> 0, total |-> 31, cached |-> Absent],
               !.lfb = [blocks |-> 5, size |-> 4],
               !.cores = <<Core(0, 1728), Core(9, 1728), Core(40, 729)>>,
               !.emc = [usage |-> 0, freq |-> 3199],
               !.gpu = [form |-> "clusters", usage |-> 3, freqs |-> <<611, 0>>],
               !.vic = 729, !.ape = 174]

XavierLine ==
  [OrinLine EXCEPT !.cores = <<Core(3, 1904), Off, Core(7, 1906), Odd>>,
                   !.swap.cached = 3, !.emc.freq = Absent]

OrinNanoLine ==
  [Bare EXCEPT !.rails = "in" :> [now |-> 3, avg |-> Absent],
               !.ram = [used |-> 3, total |-> 7],
               !.cores = <<Core(2, 729), Core(6, 729)>>,
               !.gpu = [form |-> "bare", usage |-> 0, freqs |-> <<>>]]

NanoLine ==
  [Bare EXCEPT !.unit = "raw", !.rails = "pom_in" :> [now |-> 2, avg |-> 2],
               !.ram = [used |-> 1, total |-> 4],
               !.iram = [used |-> 0, total |-> 0, lfb |-> 252],
               !.cores = <<Core(22, 518), Core(67, 518), Off, Off>>,
               !.gpu = [form |-> "single", usage |-> 0, freqs |-> <<76>>], !.ape = 25]

AllOff == [Bare EXCEPT !.ram = [used |-> 1, total |-> 4], !.cores = <<Off, Off>>]
NoRam == [OrinLine EXCEPT !.ram.total = 0]

Symmetry == Permutations(Scrape)

MCLine == {OrinLine, XavierLine, OrinNanoLine, NanoLine, AllOff, NoRam}

(* What a scrape has read is dead once it has been used: no step and no    *)
(* property tells more of it than when it was read.                        *)
Live(f, at) == [s \in Scrape |-> IF pc[s] \in at THEN f[s] ELSE None]
View ==
  <<machine, range, prevRapl, prevCpu, pc,
    Live(sample, {"read_energy", "power", "store_energy"}),
    Live(times, {"usage", "store_stat"}),
    Live(power, {"store_energy"}), Live(usage, {"store_stat"}),
    board, root, step, child, proc, pipe, out,
    [t \in Thread |-> IF step[t] = "close" THEN got[t] ELSE Absent], device>>
=============================================================================
