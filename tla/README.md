# A verification of the NES 2A03 NSF player

The repository is a player for NSF files (music ripped from NES cartridges). It
emulates a 6502 CPU and the 2A03 sound chip, and plays the result through
PortAudio. This directory holds TLA+ models of it, the TLC configurations that
check them on small instances, and theorems about them that TLAPS proves for
every value of the constants.

## 1. Inventory

### Threads

| thread | code | touches |
|---|---|---|
| user interface | `main` in nsf_player.cc, the library calls in nsf.cc | creates every object, sets `destroy_`, flips the enable flags, joins the run thread |
| run thread | `run_nes` in nsf.cc -> `Nes::Run` | CPU, memory, APU, the producer side of the five queues; deletes every object at the end |
| audio callback | `AudioStreamer::PaCallback` -> `AudioAdapter::GetSample` | the consumer side of the five queues, the enable flags |

There is no mutex in the program. The threads meet in the five lock-free
queues, in plain `bool`s (`destroy_`, `enabled_`, ...) and in `pthread_join`.

### Components

| component | state | operations | interacts with |
|---|---|---|---|
| `nsf.cc`, the player library | the globals `g_nes`, `g_as`, `g_reader`, `g_run_thread` | `play_song`, `run_nes`, `play_pause`, `toggle_*`, `song_*` | creates and deletes everything below |
| `nsf_player.cc`, the curses front end | song number | the key loop of `main` | calls nsf.cc |
| `NSFReader` | header fields, banks | constructor, `Cart`, `Banks`, `PlayInterval` | nsf.cc copies its cart and banks into `Memory` |
| `Nes` | `destroy_`, `periodic_`, `cycles_since_last_period_`, `number_of_samples_` | `Run`, `Stop`, `CountSamples`, `SetByte`, `GetByte`, `RunPeriodic` | calls `Cpu::Run` and `Apu::ClockCycles`; is the bus of the CPU and the DMC |
| `Cpu` | the 6502 registers, the instruction tables | `Run`, `RunInstruction`, addressing modes, instructions | signals `RanCycles(n)` to the APU after every instruction |
| `Memory` | 64K of memory, 256 banks | `LoadCart`, `LoadBank`, `BankSwitch`, `SetByte`, `GetByte`, `GetWord` | |
| `Apu` | `frame_counter_`, five channels | `ClockCycles`, `SetByte`, `Get4015`, `GetCurrent` | clocks the channels; signals `RanCycles(1)` to the adapter after every cycle |
| `Pulse` (two) | timer, envelope, sweep, length, sequencer | the `Channel` operations, `SweepClock` | |
| `Triangle` | timer, linear counter, length, sequencer | the `Channel` operations, `LinearClock` | |
| `Noise` | timer, envelope, length, shift register | the `Channel` operations | |
| `DMC` | timer, address, remaining bytes, shift register, output level | the `Channel` operations | reads memory through `Nes::GetByte` |
| `AudioAdapter` | five queues, cycle count, enable flags, mixing tables | `RanCycles`, `GetSample`, flips | signals `ReceivedSample` to `Nes::CountSamples` |
| `ReaderWriterQueue` (vendored) | ring of blocks | `enqueue`, `peek`, `pop` | one per channel |
| `AudioStreamer` | the PortAudio stream | constructor, destructor, `PaCallback` | PortAudio calls back into `AudioAdapter::GetSample` |

### Behaviours that are hard, and what correctness means

*Unlocked sharing.* The five enqueues of a frame, the five peeks and the five
pops of `GetSample` and the flips of the mute flags interleave freely. Correct
means: the races put no more than one frame between two channels, however often
they are run; a failed enqueue, which `RanCycles` ignores, adds no more than the
frame it lost; what is heard is removed exactly once, a muted channel is drained,
and the untested `*queue.peek()` never dereferences a null pointer.

*Lock-free memory.* The queue's two sides decide on stale copies of each other's
indices and hand blocks around a ring that grows. Correct means: it is a FIFO
queue whose consumer never waits.

*Object lifetime.* The run thread deletes, through globals that nobody resets,
objects that the audio callback and the key handlers use, and the next song
starts only after a `pthread_join`. Correct means: no use after free, nothing of
a song survives into the next, the join always returns.

*Pacing.* Emulation runs in bursts of five seconds, calls the play routine once
per period and looks at `destroy_` only while it sleeps. Correct means: the
schedule does not drift, every cycle is accounted for, the unsigned count of
samples never wraps, `Stop()` ends the thread and at most one burst follows it.

*Registers written at any time.* Between any two cycles of the chip the tune may
write any register. Correct means, for the frame sequencer: clocks are neither
lost nor doubled by a write to 0x4017; for the DMC: address, length and shift
register agree, a sample ends; for the pulse channels: the sweep does not take
the period where it does not belong, and the one value that escapes is silent;
for the triangle: the output never jumps and the sequencer keeps its pace; for the
noise: the shift register stays alive; for both: a note that is let go ends.

*Programs nobody wrote a test for.* The CPU runs the tune's code: any opcode, any
nesting of calls, saves and interrupts, any order of bank switches and writes.
Correct means: a return finds what its call left, arithmetic is exact at every
boundary, every instruction takes a number of cycles that the APU can rely on,
and what the tune reads from a window is the bank that was switched in with its
own writes over it, whatever was copied in between and left uninitialised.

*Edges of small integers.* Eleven-bit periods in 16-bit words, a 16-bit address
that wraps to 0x8000, a 7-bit level moved in steps of two, an uninitialised
`frame_counter_`. The list `hazards` in PROJECT.json has every one of them with
its line, those that no property covers too.

## 2. Modules

| module | models | checked by | proofs |
|---|---|---|---|
| `AudioAdapter` | `audio_adapter.cc`, the sample loop of the callback | run `adapter` | `SoundPathProofs` |
| `Nes` | `Nes::Run`, `Stop`, `CountSamples` | run `nes` | `NesProofs` |
| `Player` | `nsf.cc`, the life of `AudioStreamer` and PortAudio | runs `player`, `player_stream` | `PlayerProofs` |
| `Fifo` | what a queue promises (abstract) | | |
| `ReaderWriterQueue` | the lock-free queue; implements `Fifo` | run `queue` | `SoundPathProofs` |
| `Apu` | the frame sequencer of `apu.cc` | run `apu` | `ApuProofs` |
| `Dmc` | `dmc.cc` | run `dmc` | `ApuProofs` |
| `Pulse`, `MCPulse` | `pulse.cc` | run `pulse` | `PulseProofs` |
| `Channel` | the length counter and the table of lengths of `channel.h` | | |
| `Triangle` | `triangle.cc` | run `channels` | |
| `Noise` | `noise.cc` | run `channels` | |
| `Channels` | the APU's clocks and writes over these two | run `channels` | `ChannelsProofs` |
| `Memory` | `memory.cc` and the bus of `nes.cc` (operators) | runs `load`, `cpu` | |
| `Cartridge` | what a tune may rely on of its memory (abstract) | | |
| `NSFReader`, `MCNSFReader` | the data part of `nsf_reader.cc`, the copies of `play_song`, the tune's writes; implements `Cartridge` | run `load` | `NSFReaderProofs` |
| `Cpu`, `MCCpu` | `cpu.cc`, `cpu.h` | runs `cpu`, `cpu_penalty` | `CpuProofs` |

State variables carry the names of the members of the code; a `Divider` gives
two variables, `x_reload` and `x_counter`. Variables that only describe the past
are listed under "History" and no action of the program reads them. A definition
that ends in a mistake on purpose (a dropped guard, a swapped order) is commented
"Mutant"; it is not part of the specification, and putting it in the place of the
definition after it must break a property (PROJECT.json, `mutants`).

How the state and the actions correspond to the code:

- **AudioAdapter.** A sample is abstracted to the number of its frame, so a queue
  is a sequence of such numbers. `RanCycles` is split at every queue access
  (`CountCycle`, `LatchSample`, `Enqueue` or `EnqueueFails` per channel,
  `SignalReceived`): as in `ReaderWriterQueue`, any enqueue may fail for want of
  memory, and as in the code the frame goes on with the next channel and is counted
  all the same. `lost` and `removed` are history. `GetSample` is split likewise (`PeekTest`, `PeekRead`, `Pop`): the
  code's `x_queue_.peek() ? *x_queue_.peek() : 0` is two accesses and so two
  actions. That one access to a queue is one step is what `queue` shows.
- **Nes.** `runPc` is the place in the nested loops. `Instruction` is a turn of
  `Cpu::Run`, which signals the instruction's cycles to `Apu::ClockCycles`;
  `ClockCycle` is one cycle of it, down to `CountSamples`. What the instructions
  compute is left out.
- **Player.** One action per statement of `play_song`, `run_nes` and
  `~AudioStreamer` that creates, publishes, waits for or deletes something.
  Objects are pairs of class and song. A key in `getch()` may reach into the song
  at any time; `NoUseAfterFree` asks this of the state `idle`.
- **ReaderWriterQueue.** One action per access to a variable of the other thread.
  The refinement mapping reads the queue's `items` off the ring from the front to
  the tail block; `Publish` or `AdvanceTail` maps to `Fifo!Enqueue`,
  `AllocFails` to `EnqueueFails`, with what `enqueue` returns (`accepted`),
  `UseSlot` to `ReturnFront`, `ReadTailBlock` to `ReturnEmpty`. The weak memory
  model is out of scope: the actions are sequentially consistent, which is what
  the fences in the header are there for.
- **Apu.** The marks of the frame (7457, 14913, 22371, 29829) are constants. An
  instruction performs its write and then has its cycles clocked, as in
  `Cpu::Run`.
- **Dmc.** The bits of a byte are not kept, each is any bit when it is shifted
  out. `passAddress`, `passLength`, `leftover` and `played` remember what the
  sample should be.
- **Pulse.** Widths are constants; `Signed` and `% WordSize` are the conversions
  to `int16_t` and to `uint16_t` in `SweepGetTarget` and `SweepClock`.
- **Channel**, **Triangle**, **Noise**. `Counted` is the clock of a length counter. The members of a channel are the fields of one record.
  The shift register is a function from its bits to BOOLEAN. `Channels` lets one of
  the two move in a behaviour: they share no state, so nothing is lost by it.
- **Memory**. A memory is a function from the addresses that were ever written to
  bytes, 0 elsewhere, as after `calloc`. `BusSetByte` and `BusGetByte` are
  `Nes::SetByte` and `Nes::GetByte`; `Cpu` and `NSFReader` both work through them.
- **NSFReader**. One action per bank read, one for `Cart` and one for the rest of
  `play_song`. A byte of the file is a value of its own, as are what `malloc` left
  (`Junk`) and the code that `Cart` adds (`Driver`), so that where a byte comes from
  can be told. Null banks are those outside the domain of `reader`; copying from
  one ends in `crashed`, a write beyond `banks_` in `undefined`.
- **Cartridge** says the same without any copying: a window shows a bank of the
  file, and the tune's own writes over it. The refinement mapping shows `memory_`
  from the moment the machine runs.
- **Cpu**. The machine is a record; an addressing mode and an instruction map it to
  the next, by the names of the code. `Step` is one turn of `Cpu::Run`. `saved`
  is the set of what instructions have put on the stack and not taken back.

## 3. Runs

| run | bounds | shows |
|---|---|---|
| `adapter` | 2 queues, 2 cycles a sample, 4 frames, up to 2 failed enqueues on each queue | a queue is ahead of another by one frame and its own failed enqueues at most, the second peek finds an element, what is heard is removed, every frame is drained |
| `channels` | a triangle of 3 levels and periods of 2 bits, a shift register of 5 bits, lengths 1 and 3, the longest a byte of 5 has room for | no clicks, the pace of the sequencer, a shift register that lives, notes that end |
| `load` | 2 windows and 3 banks of 3 bytes above a RAM of 2, files of 0 to 10 bytes at 4 load addresses, every choice of initial banks; all orders of writes to RAM, mirrors, sound registers, windows and bank switches | what the tune reads is what the format promises (`Cartridge`), uninitialised bytes stay where they do no harm, exactly the files whose header names existing banks load |
| `cpu` | every opcode at two addresses with 7 operands, 4 sets of registers and 2 of flags; 2000 routines of 3 instructions called by the driver of `Cart`, 24 instructions each; one routine of 1600 | returns and restores, exact arithmetic, cycle counts |
| `cpu_penalty` | as `cpu` | **fails**: see section 6 |
| `nes` | period 7, samples of 3 cycles, bursts of 4 samples, routines of 2 to 12 cycles, 45 cycles before `Stop()` | the schedule, the pace, the accounting and the end of the run thread |
| `player` | 4 songs | object lifetime, and `play_song` always returns |
| `player_stream` | 2 songs | **fails**: see section 6 |
| `queue` | first block of 2 slots, then blocks of 4, 3 blocks, 8 enqueues | assertions of the header, no slot is used by both sides, the ring is filled up before it grows, the queue implements `Fifo` with a wait-free consumer |
| `apu` | a frame of 23 cycles, counter starting anywhere in 0 .. 39 | timers and half clocks in their rhythm, a write answered in time |
| `dmc` | addresses 3 .. 7, samples of 1, 2 and 4 bytes of 3 bits, level 0 .. 5 | every byte fetched once and in order, every bit accounted for, samples end |
| `pulse` | periods of 3 bits in a word of 5, shifts 0 and 1 | the sweep and its underflow |

Why the bounds are enough. In `adapter` every property is about one queue or two,
the first and the last in the order of enqueues and pops; four frames let slips of
several calls add up if they could, and the bound is reached: a slip and two failed
enqueues put a queue three frames ahead. In `nes` 12 is more than the period, so calls overrun it, and
45 cycles hold several bursts, some of which start with a surplus. In `queue` the ring
grows twice, each block wraps, and blocks are reused while both threads are
inside them. The frame of `apu` has marks at odd cycles and an odd length, as in
the code, because parity is what the timers depend on, and some instructions take longer
than a quarter of it. In `dmc` two of the
samples cross the last address. In `pulse` the sign bit of the word, the limit
of the period and the shortest audible period are all crossed. In `channels` the
periods reach from below the limit at which the timer is frozen to above it, and
the two taps are different bits of the register. In `load` a load address lies in
the middle of a window, at its start, at the last byte and far below; files end
before, in, at the end of and beyond every bank. In `cpu` page zero holds pointers
to sound registers, to the ends of pages and to the last address, the operands and
registers are 0, the signs' and the pages' limits; the address space is the real
one. For every module
with proofs the theorems then remove the bounds.

Fairness, and why the code justifies it:

- `AudioAdapter`: weak fairness of `GetSample`. PortAudio keeps calling while the
  stream is open, and a call has no loop and waits for nothing. The liveness
  property asks, besides, that playback is unpaused in the end.
- `Nes`: weak fairness of the run thread, which waits for nothing but `usleep`.
  A play routine is assumed to reach its STP within `MaxCallCycles`: nothing in
  the code makes it (`Cpu::Run` would loop for ever, and `play_song` with it).
- `Player`: weak fairness of each thread; of `main` inside `play_song` only, for
  nobody has to press a key; of the end of a callback, not of its beginning.
- `ReaderWriterQueue`: weak fairness of the consumer inside an operation, none of
  the producer.
- `Dmc`: weak fairness of the clock, none of the writes.
- `Channels`: weak fairness of the quarter and of the half clocks, which the frame
  sequencer gives for as long as the machine runs (module `Apu`); none of the writes.

Deadlock is checked in every run but `nes`, where the thread does stop (state
`exited`; stopping anywhere else violates `StopHonoured`), `load`, where a file that
does not load ends the program, and `cpu`, where a crash does and the number of
instructions is bounded.

## 4. Proofs

Every theorem holds for all values of the constants under the ASSUMEs of its
module, which the runs evaluate. The argument is always the same: an invariant
`IInv` that implies the property, holds initially and is preserved by each
action; temporal steps by PTL. What had to be added to make it inductive:

- **SoundPathProofs**, the adapter. `QueueOrder`: the frames in a queue increase, and
  each leaves room for the younger ones (`Increasing`). `Skew` compares how often a
  queue was popped (`Pops`) with the frame another one is at (`Position`): not
  counting the round of pops in progress (`Turn`), the first is never more than the
  second, for a round takes one frame at most from a queue and moves every queue on
  by one at least, unless it is drained, and then it is at the next frame to come.
  A bound on positions alone would not survive a pop: how far a queue moves on depends
  on what it has lost, and the pops do not. `HeardFront`: a frame read stays at the
  front until its pop, while other enqueues fail or not. These give `SkewBound`,
  `MixSpread`, `NoNullDereference` and `HeardIsRemoved` for any number of queues,
  frames and failed enqueues.
- **SoundPathProofs**, the queue. `QueueInv` has two parts. `InOrder` is about one
  block: the shadow of the front is behind the front, the front behind the shadow of
  the tail, that behind the tail, in the cyclic order of the slots; so a decision on
  a stale copy errs on the safe side. `Laid(at, t)` is about the ring: its blocks are
  `at[0]`, `at[1]`, ... in the order of `next`, from the front block, and the tail
  block is the `t`-th. `Filled` says which of them are full and which empty,
  `Producer(t)` and `Consumer(t)` what each thread has found out and may still rely
  on, at each place in its operation. Most of the work is with the two steps that
  renumber the ring: `LinkRing` (a block is put in behind the tail block) and
  `AdvanceFrontRing` (the front block becomes the last). From this follow the
  header's assertions, `NoSlotRace` and `BlocksUsedUp`, for blocks of any size and
  any number of them.
- **SoundPathProofs**, the refinement. `QueueImplementsFifo`: every step of the queue
  is a step of `Fifo` or a stutter. `Stored` says what the slots hold, the element
  on its way in included; `View`, that the refinement mapping's `Items` are the
  concatenation (`Cat`) of what the blocks from the front to the tail hold
  (`Held`). Each action then has a lemma on what it does to that concatenation: an
  element at the end (`Publish`; `AdvanceTail`, which makes a block visible that has
  one element already), the first taken (`UseSlot` of a pop, whose slot is the head
  by `SlotIsHead`), an empty block gone from its beginning (`AdvanceFront`), nothing
  (the others). `AllocFails` maps to `EnqueueFails`, `Begin` to `Call`,
  `ReadTailBlock` that finds no further block to `ReturnEmpty`, which `Fifo` allows
  only if the queue was empty at the call. What is said of all the blocks of a ring,
  or of concatenations, is said by functions over their positions, and proved by
  `SetInduction`, induction for the members of a set of numbers, from the
  well-foundedness of their order: the library's rules take an operator that the
  provers cannot instantiate.
- **PlayerProofs.** Only the latest song has anything that refers to it: the threads
  of earlier ones are done and their streams closed, later ones have not begun
  (`OthersAway`). `Globals` says, for each place in `play_song`, which of the four
  globals point to the new song already; `Objects` which objects exist, as the two
  threads get on; `RunThread` that a thread leaves `Nes::Run` only after a `Stop()`
  that reached its own machine, hence that the globals it deletes through are its
  own song's; `Sound` that a callback runs only while the stream does, and none when
  the objects it uses are deleted. `NoUseAfterFree`, `CleanHandOver` and
  `KeysReachTheSong` follow for any number of songs.
- **NesProofs.** `Schedule` relates the cycles clocked to the calls made, per
  place in the loop; `Pace` says how many cycles the current pass may still add;
  `Stopping` that the samples since `Stop()` belong to the burst in progress. The
  bounds `MaxCycles` and `MaxStopCycles` play no part.
- **ApuProofs**, the frame sequencer. `Rhythm` ties the history to the counter
  (`InStep`) from the first half clock on; before it, it bounds what was waited and
  what is still to wait (`ToHalf`) together, from wherever the uninitialised counter
  started. It says that a pending write is at most four cycles from its answer and
  that enough cycles are still to be clocked; `Waited` gives the age of the timers per
  parity of the counter.
- **ApuProofs**, the DMC. `InOrder` (the address follows from the bytes left),
  `IrqMeansLoop` (bit 7 of 0x4010 sets both flags). `Following`, the walk on the
  circle of addresses, has lemmas of its own.
- **PulseProofs.** `TargetOfPeriod`, `TargetOfUnderflow` and `MovedPeriod` bound
  the sweep's target by cases on mode, shift and channel; `TwoParts` shows that a
  low and a high part make a period. The period is then in range or 0xFFFF, whose
  target is out of range whatever the sweep is set to.
- **ChannelsProofs.** `ShiftKeepsAlive`: a set bit other than the last moves down,
  and if the last is the only one the tap is clear, so that the feedback is set.
  `InStep`: the timer's counter and the clocks since the last step of the sequencer
  make two at least, because a step happens only with a reload of two or more, and
  a write to the period leaves the counter alone. `Neighbours`: consecutive
  entries of the sequence differ by one at most, those where it starts over too.
- **NSFReaderProofs.** The lemmas `QuotientIs`, `QuotientBelow` and
  `WindowIsSpot` turn windows, which are intervals, into quotients. `ReadSoFar(k)`
  ties the position in the file to the number of banks read; that the data
  reaches each of them is what makes the loop's end, and its running over, follow
  from the length. `Confined` and `Clean` say where junk may be, at each stage.
  For the refinement `Contents` says of every buffer on the way (reader, cart,
  banks of the memory) that it holds the bytes of the format; `StoreMaps` then
  takes a write to a bank port to `Cartridge!Switch`, one to a sound register to a
  stutter, any other to `Cartridge!Store`, with `MirrorsAreSameCell` for the RAM.
- **CpuProofs.** `CpuInvariant` types the machine and says of each entry of `saved`
  that it is standing (`Standing`): the bytes that were pushed are in their cells,
  and the stack pointer is as many bytes below the entry's as were pushed since,
  modulo 256. `StackRestores` alone is not inductive: it says nothing of the cells
  while something else runs. An entry is kept for 256 pushed bytes at most, and for
  so long `OnStackPushed` finds the cells that are written apart from those of the
  entry, over the end of the page too; `SavesAre`, `PullsAre` and `ReturnsAre` say
  what each instruction writes and reads back, `BitsBack` that the flags come back
  from their byte. The other instructions are dealt with in groups: `Steady` says
  what they leave alone (stack pointer, opcode, operand, extra cycles). The 256
  entries of the opcode table are checked by the prover in rows of 16 (`Rows`), which
  with `PagesNear` (a branch ends on its own page, the next one, or at the other end
  of the address space) gives `CyclesSound`: a store with fewer than four cycles is
  one to page zero. `SumIs` is the arithmetic, for both instructions. All of it holds
  for any program, any contents of the memory and any answers of the sound
  registers; `MachineAssumption` asks that cells and registers hold bytes and that
  pages 0 and 1 are in the RAM.

Theorems that no run repeats: `TypeOK` of `AudioAdapter`, `Apu`, `Pulse`,
`Triangle` and `Noise`; the types of the machine of `Cpu`; `MixSpread` of `AudioAdapter`; `DisabledStops` and `NoIrq`
of `Dmc`; `DisabledIsSilent` of `Pulse`.

Only model-checked:

- the liveness properties, for the prover has no rules for fairness and ENABLED:
  `EveryFrameDrained`, `StopHonoured`, `PlaySongReturns`, `SampleEnds`, `NotesEnd`,
  and of `ImplementsWaitFreeFifo` the part that is fairness (its steps are
  `QueueImplementsFifo`).

Every invariant and every other action property that a passing run checks is the
statement of a theorem.

## 5. Plan

Done, in this order: the hand-over of samples, the emulation loop, the life of a
song, the queue, the frame sequencer, the DMC, the pulse channels, the memory and
the loading of a song into it, the CPU, the triangle and the noise channel. Left:

1. **Chip**: the APU composed with its channels, so that 0x4015, the half clocks
   and the lengths are seen together (`Get4015` truncates the DMC's count), and
   the values that `GetCurrent` hands to the adapter.
2. Proofs about that module. What the runs check now is proved, but for liveness.

Abstract specifications: `Fifo` for the queue and `Cartridge` for the memory are
done; "one song at a time" for `Player` is left.

Not to be modelled: the curses screen, the header's text fields and other pure
I/O, the checks of the header that only print, and files that cannot be opened or
end within their header; the mixing tables (arithmetic on floating point values without state); the
`DEBUG` trace and the log checking of the CPU, which are compiled out or never
switched on; `apu_test.cc`, which no longer compiles against `Apu`; the vendored
signal library, whose emissions are plain calls here because every signal has one
slot; the Xcode front end, which does not call the library.

## 6. What the models say about the code

*A failed open is not handled* (run `player_stream`). When
`Pa_OpenDefaultStream` fails, `AudioStreamer` prints the error and passes the
stream that was never set to `Pa_StartStream`, later to `Pa_StopStream` and
`Pa_CloseStream`, although portaudio.h:835 calls its value invalid.

*The page-crossing penalty is not for crossing a page* (run `cpu_penalty`). The
comment of the opcode table, cpu.h:133, calls its fourth column the penalty for
crossing a page; `RunInstruction` (cpu.cc:71) adds it when the effective address ends
in 0xFF, whichever page it was indexed from.

Not errors by any statement of the repository, but worth knowing:

- `RanCycles` ignores what `enqueue` returns (audio_adapter.cc:26). If a queue needs a
  new block and `malloc` fails (readerwriterqueue.h:474) its channel lacks a frame
  and is ahead of the others from then on; every failure adds a frame, and frames
  that far apart are mixed. Nothing brings the channels together again but the
  queues being drained, which the growth of the queues (below) makes unlikely, as it
  makes the failure likely. `SkewBound` and `MixSpread` say that this is the whole of
  the damage. `ReceivedSample` counts the frame all the same.
- `frame_counter_` is never initialised. Lengths and sweeps may be clocked for the
  first time only after the counter has wrapped, 35707 cycles later than they should
  at most (`HalfInTime`); from then on nothing is left of it (`EvenHalves`).
- The last byte of a DMC sample is fetched and never played out
  (`LastByteHeldBack`): `TimerClock` shifts only while bytes remain.
- The first pulse channel's sweep underflows to 0xFFFF from a period of zero;
  the range test has no lower end. It is silent until the period is written
  (`UnderflowSilent`).
- The pulse and noise timers wait longer than usual at the end of a frame,
  whose length is odd (`TimerGap`).
- After `Stop()` up to a whole burst is still emulated (`StopLatency`).
- A burst of five seconds is followed by a pause of about half of that, whatever
  was consumed: the queues grow for as long as the program runs, faster while
  playback is paused. No bound holds, so none is stated.
- The comment in dmc.h:33 gives `kRates` in CPU clocks; a divider's period is its
  reload plus one.
- The extra cycles of a taken branch are one more than the difference of the pages,
  in a byte: across an end of the address space that is 256, and wraps to none.
  `CyclesSound` holds all the same.
- `ROR` on memory sets the zero flag from the accumulator, not from the result.
- An opcode without an entry in the tables calls a null member pointer; `Crash`
  ends the behaviour there.
- The last byte of the memory is not loaded from a file without banks: 0xFFFF less
  the load address bytes are copied, one too few (`JunkConfined`).
- A file whose data ends exactly with a bank gets an empty bank after it, which
  its header may name (`LoadsIfBanksExist`).
- The loop that reads banks has no upper end, and a header may name a bank that
  the file does not have, from which `Cart` then copies through a null pointer.
