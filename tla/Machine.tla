------------------------------- MODULE Machine -------------------------------
(***************************************************************************)
(* The jobs that the program does with a machine, one of which is at work. *)
(* They share no state: each has a source, which is how things are, and is *)
(* held to it; what it does not govern goes on beside it.                  *)
(*                                                                         *)
(* Here are the transfers of a bus, the counters of the core, the measured *)
(* rates, the kernel's crypto, the passes of a benchmark, and what is made *)
(* of the processor and of a hypervisor.  Display has the jobs whose       *)
(* outcome somebody watches, MCMachine those of firmware and devices.      *)
(***************************************************************************)
EXTENDS Job, Naturals

CONSTANTS
  FifoDepth,                                             \* I2cMaster
  MaxTracked, LegacyCount, CoreDefault, Word, LongestBody,    \* CorePmu
  Rate, Cpus, LongestGap, Slowest, Fastest, Longest,     \* CycleRates
  MostFiles, Payload, Calls, Loops, Repeats,             \* CryptoBench
  Threshold                                              \* HypervisorEvidence

I2cBus     == INSTANCE I2cMaster
Counters   == INSTANCE CorePmu
Rates      == INSTANCE CycleRates
Crypto     == INSTANCE CryptoBench
Features   == INSTANCE IsaChoice
Hypervisor == INSTANCE HypervisorEvidence

\* What is met is a bus, a processor, a guest or none, a session, a benchmark and counters.
ASSUME BusAssumption == FifoDepth \in Nat /\ \A m \in Inputs["i2c"] : m.source \in I2cBus!Buses
ASSUME ProcessorAssumption == \A m \in Inputs["isa"] : m.source \in Features!Processors
ASSUME GuestAssumption == \A m \in Inputs["hyper"] : m.source \in Hypervisor!Guests
ASSUME WorkAssumption ==
  /\ MostFiles \in Nat /\ Payload \in Nat \ {0} /\ Loops \in [1 .. 3 -> Nat] /\ Repeats \in [1 .. 3 -> Nat]
  /\ \A m \in Inputs["crypto"] : m.source \in Crypto!Requests
  /\ \A m \in Inputs["bench"] : m.source \in Crypto!Benchmarks
ASSUME CounterAssumption ==
  /\ {MaxTracked, LegacyCount, CoreDefault, LongestBody, Word, Rate, Slowest, Fastest} \subseteq Nat
  /\ LongestBody < Word /\ Slowest <= Fastest
  /\ \A m \in Inputs["pmu"] : m.source \in Counters!Cores
  /\ \A m \in Inputs["route"] : m.source \in Rates!Routes
  /\ \A m \in Inputs["perf"] : m.source \in Rates!Hosts

Jobs == {"i2c", "pmu", "route", "perf", "crypto", "bench", "isa", "hyper"}

\* Job j begins with machine m.
Started(j, m) ==
  /\ job = j /\ source = m.source
  /\ \/ j = "i2c"    /\ I2cBus!I2cInit
     \/ j = "pmu"    /\ Counters!PmuInit
     \/ j = "route"  /\ Rates!RouteInit
     \/ j = "perf"   /\ Rates!PerfInit
     \/ j = "crypto" /\ Crypto!CryptoInit
     \/ j = "bench"  /\ Crypto!BenchInit
     \/ j = "isa"    /\ Features!IsaInit
     \/ j = "hyper"  /\ Hypervisor!HyperInit

Init == \E j \in Jobs : \E m \in Inputs[j] : Started(j, m)

Work ==
  /\ \/ job = "i2c"    /\ I2cBus!I2cNext
     \/ job = "pmu"    /\ Counters!PmuNext
     \/ job = "route"  /\ Rates!RouteNext
     \/ job = "perf"   /\ Rates!PerfNext
     \/ job = "crypto" /\ Crypto!CryptoNext
     \/ job = "bench"  /\ Crypto!BenchNext
     \/ job = "isa"    /\ Features!IsaNext
     \/ job = "hyper"  /\ Hypervisor!HyperNext
  /\ UNCHANGED job

Finished ==
  \/ job = "i2c"    /\ I2cBus!AllDone
  \/ job = "pmu"    /\ Counters!PmuDone
  \/ job = "route"  /\ Rates!RouteDone
  \/ job = "perf"   /\ Rates!PerfDone
  \/ job = "crypto" /\ Crypto!CryptoDone
  \/ job = "bench"  /\ Crypto!BenchDone
  \/ job = "isa"    /\ Features!IsaDone
  \/ job = "hyper"  /\ Hypervisor!HyperDone

\* Whatever is not finished can always go on.
Next == Work \/ (Finished /\ UNCHANGED vars)

Spec == Init /\ [][Next]_vars

(***************************************************************************)
(* A transfer that succeeds is whole.                                      *)
(***************************************************************************)
TransfersAreWhole == job = "i2c" => I2cBus!TransfersAreWhole

(***************************************************************************)
(* The counters of the core measure the work, a measured rate is never     *)
(* above the true one, and a thread's cycles are counted, or estimated as  *)
(* well as its clock is steady.                                            *)
(***************************************************************************)
CountersAreTrue ==
  /\ job = "pmu"   => Counters!MeasuresTheWork
  /\ job = "route" => Rates!FactorIsNeverFast
  /\ job = "perf"  => Rates!CyclesAreCounted

(***************************************************************************)
(* A session with the kernel's crypto leaves nothing behind, takes nothing *)
(* that is another's, and returns what was made of its data; a benchmark   *)
(* reports as many operations as were run.                                 *)
(***************************************************************************)
WorkIsAccountedFor ==
  /\ job = "crypto" => Crypto!SessionsAreClean
  /\ job = "bench"  => Crypto!PassesCountWhatRan

(***************************************************************************)
(* No instruction is run that the processor lacks.                         *)
(***************************************************************************)
NothingMissingIsRun == job = "isa" => Features!NothingMissingIsRun

(***************************************************************************)
(* What is said of the hypervisor follows from what there is.              *)
(***************************************************************************)
VerdictFollowsTheMachine == job = "hyper" => Hypervisor!VerdictFollowsTheMachine

(***************************************************************************)
(* A transfer ends, even if the device holds the clock (i2c.rs, 527: "wait,*)
(* bounded, for either").                                                  *)
(***************************************************************************)
TransfersEnd == I2cBus!TransfersEnd
=============================================================================
