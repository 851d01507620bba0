---------------------------------- MODULE Nes ----------------------------------
(***************************************************************************)
(* Nes::Run (src/src/nes/nes.cc): the loop of the run thread.              *)
(*                                                                         *)
(* It emulates in bursts of five seconds of samples and sleeps in between. *)
(* Inside a burst it calls the tune's play routine every periodic_ CPU     *)
(* cycles: Cpu::Run executes the routine up to its STP, signalling the     *)
(* cycles of each instruction to Apu::ClockCycles, and the rest of the     *)
(* period is filled by a call of ClockCycles.  Each APU cycle signals      *)
(* AudioAdapter::RanCycles(1), and each completed sample signals           *)
(* Nes::CountSamples.                                                      *)
(*                                                                         *)
(* The user-interface thread calls Stop() at any point; the loop looks at  *)
(* destroy_ while it sleeps and nowhere else.                              *)
(***************************************************************************)
EXTENDS Integers

CONSTANTS
  Period,             \* periodic_, CPU cycles between two play calls
  CyclesPerSample,    \* AudioAdapter::cycles_per_sample_
  Burst,              \* sample_rate_ * 5
  SleepTicks,         \* number of usleep calls that make up 2.5 seconds
  InstructionCycles,  \* what Cpu::RunInstruction may return
  MaxCallCycles,      \* assumption on the tune: a routine reaches its STP
                      \* within this many cycles
  MaxCycles,          \* bound of the model: no call and no filling starts once
                      \* this many cycles were clocked ...
  MaxStopCycles       \* ... and, after Stop(), this many on top; StopHonoured
                      \* shows that the thread exits before it meets the bound

ASSUME PeriodAssumption == Period \in Nat
ASSUME CyclesPerSampleAssumption == CyclesPerSample \in Nat \ {0}
ASSUME BurstAssumption == Burst \in Nat \ {0}
ASSUME SleepTicksAssumption == SleepTicks \in Nat \ {0}
ASSUME InstructionCyclesAssumption == InstructionCycles \subseteq 1 .. 255
ASSUME MaxCallCyclesAssumption == MaxCallCycles \in Nat
ASSUME MaxCyclesAssumption == MaxCycles \in Nat
ASSUME MaxStopCyclesAssumption == MaxStopCycles \in Nat

VARIABLES
  runPc,       \* "head": at the loop tests; "cpu": in Cpu::Run; "fill": in
               \* the ClockCycles call of the else branch; "sleep"; "exited"
  todo,        \* cycles the current ClockCycles call has still to run
  total_cycles,               \* local of Cpu::Run
  cycles_since_last_period_,
  number_of_samples_,
  cycles_since_last_output_,  \* of the AudioAdapter
  slept,                      \* sleep_time, in usleep calls
  destroy_,
  \* History, read by no action of the program:
  clocked,        \* APU cycles run
  calls,          \* calls of Cpu::Run
  returnedAt,     \* value of clocked when the last of them returned
  signals,        \* ReceivedSample signals
  signalsAtStop   \* value of signals when Stop() was called

loop    == <<runPc, total_cycles, cycles_since_last_period_, slept>>
output  == <<number_of_samples_, cycles_since_last_output_, clocked, signals>>
stop    == <<destroy_, signalsAtStop>>
history == <<calls, returnedAt>>
vars    == <<loop, todo, output, stop, history>>

Init ==
  /\ runPc = "head"
  /\ todo = 0
  /\ total_cycles = 0
  /\ cycles_since_last_period_ = 0
  /\ number_of_samples_ = 0
  /\ cycles_since_last_output_ = 0
  /\ slept = 0
  /\ destroy_ = FALSE
  /\ clocked = 0
  /\ calls = 0
  /\ returnedAt = 0
  /\ signals = 0
  /\ signalsAtStop = 0

-----------------------------------------------------------------------------
(* Apu::ClockCycles, one cycle at a time.                                  *)

(* Mutant: the counter restarts one short of the next sample's start.      *)
ClockCycleRestartsAtOne ==
  /\ todo > 0
  /\ todo' = todo - 1
  /\ clocked' = clocked + 1
  /\ IF cycles_since_last_output_ + 1 >= CyclesPerSample
     THEN /\ cycles_since_last_output_' = 1
          /\ number_of_samples_' = number_of_samples_ + 1
          /\ signals' = signals + 1
     ELSE /\ cycles_since_last_output_' = cycles_since_last_output_ + 1
          /\ UNCHANGED <<number_of_samples_, signals>>
  /\ UNCHANGED <<loop, stop, history>>

(* RanCycles(1) reaches AudioAdapter::RanCycles, and a completed sample    *)
(* reaches CountSamples.                                                   *)
ClockCycle ==
  /\ todo > 0
  /\ todo' = todo - 1
  /\ clocked' = clocked + 1
  /\ IF cycles_since_last_output_ + 1 >= CyclesPerSample
     THEN /\ cycles_since_last_output_' =
               cycles_since_last_output_ + 1 - CyclesPerSample
          /\ number_of_samples_' = number_of_samples_ + 1
          /\ signals' = signals + 1
     ELSE /\ cycles_since_last_output_' = cycles_since_last_output_ + 1
          /\ UNCHANGED <<number_of_samples_, signals>>
  /\ UNCHANGED <<loop, stop, history>>

-----------------------------------------------------------------------------
(* The burst: while (number_of_samples_ < sample_rate_ * 5).               *)

(* Mutant: the burst ends at the exact number of samples only.             *)
BurstRunningExact == number_of_samples_ # Burst

BurstRunning == number_of_samples_ < Burst

InBound == clocked < MaxCycles + (IF destroy_ THEN MaxStopCycles ELSE 0)

(* Mutants: the period restarts at the call; the call is not awaited.      *)
CallCpuRestartsPeriod ==
  /\ runPc = "head" /\ BurstRunning /\ InBound
  /\ cycles_since_last_period_ >= Period
  /\ cycles_since_last_period_' = 0
  /\ runPc' = "cpu"
  /\ total_cycles' = 0
  /\ calls' = calls + 1
  /\ UNCHANGED <<todo, slept, output, stop, returnedAt>>
CallCpuAnyTime ==
  /\ runPc = "head" /\ BurstRunning /\ InBound
  /\ cycles_since_last_period_' = cycles_since_last_period_ - Period
  /\ runPc' = "cpu"
  /\ total_cycles' = 0
  /\ calls' = calls + 1
  /\ UNCHANGED <<todo, slept, output, stop, returnedAt>>

(* A period is over: cpu_->Run() is entered.                               *)
CallCpu ==
  /\ runPc = "head" /\ BurstRunning /\ InBound
  /\ cycles_since_last_period_ >= Period
  /\ cycles_since_last_period_' = cycles_since_last_period_ - Period
  /\ runPc' = "cpu"
  /\ total_cycles' = 0
  /\ calls' = calls + 1
  /\ UNCHANGED <<todo, slept, output, stop, returnedAt>>

(* One instruction of Cpu::Run, which signals its cycles to ClockCycles.   *)
Instruction(cycles) ==
  /\ runPc = "cpu" /\ todo = 0
  /\ total_cycles + cycles <= MaxCallCycles
  /\ todo' = cycles
  /\ total_cycles' = total_cycles + cycles
  /\ UNCHANGED <<runPc, cycles_since_last_period_, slept, output, stop, history>>

(* STP: Cpu::Run returns.  The program NSFReader::Cart places at 0x5000    *)
(* and 0x5004 starts with a JSR, so some instruction ran before.           *)
Stp ==
  /\ runPc = "cpu" /\ todo = 0
  /\ total_cycles > 0
  /\ cycles_since_last_period_' = cycles_since_last_period_ + total_cycles
  /\ runPc' = "head"
  /\ returnedAt' = clocked
  /\ UNCHANGED <<todo, total_cycles, slept, output, stop, calls>>

(* Nothing to call yet: ClockCycles runs the rest of the period.           *)
Fill ==
  /\ runPc = "head" /\ BurstRunning /\ InBound
  /\ cycles_since_last_period_ < Period
  /\ todo' = Period - cycles_since_last_period_
  /\ runPc' = "fill"
  /\ UNCHANGED <<total_cycles, cycles_since_last_period_, slept, output, stop,
                 history>>

Filled ==
  /\ runPc = "fill" /\ todo = 0
  /\ cycles_since_last_period_' = Period
  /\ runPc' = "head"
  /\ UNCHANGED <<todo, total_cycles, slept, output, stop, history>>

-----------------------------------------------------------------------------
(* The pause between two bursts.                                           *)

EndBurst ==
  /\ runPc = "head" /\ ~BurstRunning
  /\ runPc' = "sleep"
  /\ slept' = 0
  /\ UNCHANGED <<todo, total_cycles, cycles_since_last_period_, output, stop,
                 history>>

(* Mutant: destroy_ is not looked at.                                      *)
SleepTickUnchecked ==
  /\ runPc = "sleep" /\ slept < SleepTicks
  /\ slept' = slept + 1
  /\ UNCHANGED <<runPc, todo, total_cycles, cycles_since_last_period_, output,
                 stop, history>>

(* usleep(sleep_delay), then the test of destroy_.                         *)
SleepTick ==
  /\ runPc = "sleep" /\ slept < SleepTicks
  /\ slept' = slept + 1
  /\ runPc' = IF destroy_ THEN "exited" ELSE "sleep"
  /\ UNCHANGED <<todo, total_cycles, cycles_since_last_period_, output, stop,
                 history>>

WakeUp ==
  /\ runPc = "sleep" /\ slept >= SleepTicks
  /\ number_of_samples_' = number_of_samples_ - Burst
  /\ runPc' = "head"
  /\ UNCHANGED <<todo, total_cycles, cycles_since_last_period_, slept,
                 cycles_since_last_output_, clocked, signals, stop, history>>

-----------------------------------------------------------------------------
(* Nes::Stop, called once by play_song in the user-interface thread.       *)
Stop ==
  /\ ~destroy_
  /\ destroy_' = TRUE
  /\ signalsAtStop' = signals
  /\ UNCHANGED <<loop, todo, output, history>>

Exited == runPc = "exited" /\ UNCHANGED vars

Run ==
  \/ ClockCycle \/ CallCpu \/ (\E k \in InstructionCycles : Instruction(k)) \/ Stp
  \/ Fill \/ Filled \/ EndBurst \/ SleepTick \/ WakeUp

Next == Run \/ Stop \/ Exited

Spec == Init /\ [][Next]_vars

(* The scheduler keeps running a thread that waits for nothing but usleep. *)
FairSpec == Spec /\ WF_vars(Run)

-----------------------------------------------------------------------------
(* Properties.                                                             *)

(* cycles_since_last_period_ never becomes negative and number_of_samples_ *)
(* (a uint64_t) never wraps below zero.                                    *)
TypeOK ==
  /\ runPc \in {"head", "cpu", "fill", "sleep", "exited"}
  /\ todo \in Nat
  /\ total_cycles \in Nat
  /\ cycles_since_last_period_ \in Nat
  /\ number_of_samples_ \in Nat
  /\ cycles_since_last_output_ \in 0 .. CyclesPerSample - 1
  /\ slept \in 0 .. SleepTicks
  /\ destroy_ \in BOOLEAN
  /\ clocked \in Nat
  /\ calls \in Nat
  /\ returnedAt \in Nat
  /\ signals \in Nat
  /\ signalsAtStop \in Nat

(* The n-th call of the CPU starts exactly n periods after the start or,   *)
(* if the call before it ran longer, as soon as that one returned: calls   *)
(* that overrun delay the next ones but the schedule never drifts, over    *)
(* any number of bursts and pauses.                                        *)
CallsOnSchedule ==
  [][calls' # calls =>
       clocked = IF calls' * Period > returnedAt THEN calls' * Period
                 ELSE returnedAt]_vars

(* No sample is lost or invented: one per CyclesPerSample cycles.          *)
SamplesExact ==
  clocked = signals * CyclesPerSample + cycles_since_last_output_

(* The most cycles one pass of the burst's loop runs, in started samples.  *)
LongestPass == IF Period >= MaxCallCycles THEN Period ELSE MaxCallCycles
Overshoot   == (LongestPass + CyclesPerSample - 1) \div CyclesPerSample

(* A burst overshoots its five seconds by one pass of the loop at most;    *)
(* the surplus is carried into the next burst and never piles up.          *)
PaceBound == number_of_samples_ <= Burst - 1 + Overshoot

(* After Stop() at most the burst in progress is finished, or the one      *)
(* about to start when the pause had just ended: no second one follows.    *)
StopLatency == destroy_ => signals - signalsAtStop <= Burst - 1 + Overshoot

(* Stop() ends the thread, given routines that reach their STP.            *)
StopHonoured == destroy_ ~> runPc = "exited"
=============================================================================
