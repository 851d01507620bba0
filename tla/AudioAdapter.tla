----------------------------- MODULE AudioAdapter -----------------------------
(***************************************************************************)
(* AudioAdapter (src/src/nes/audio_adapter): the hand-over of samples from *)
(* the emulation thread to the PortAudio callback thread through one       *)
(* single-producer single-consumer queue per channel.                      *)
(*                                                                         *)
(*   - the emulation thread runs RanCycles(1) once per APU cycle and, once *)
(*     per sample, enqueues the five channel values one after another;     *)
(*   - the callback thread runs GetSample, which peeks at the five queues  *)
(*     one after another and then pops them one after another;             *)
(*   - the user-interface thread flips the enable flags.                   *)
(*                                                                         *)
(* No lock makes the five enqueues, the five peeks or the five pops one    *)
(* step, so every access to a queue is an action of its own here.  Each    *)
(* queue operation is atomic: ReaderWriterQueue is shown to be             *)
(* linearizable in its own module.  As there, an enqueue may fail for want *)
(* of memory; RanCycles ignores what enqueue returns.                      *)
(*                                                                         *)
(* A sample value is abstracted to its frame, the number of the RanCycles  *)
(* call (counting those that output) that enqueued it.                     *)
(***************************************************************************)
EXTENDS Integers, Sequences

CONSTANTS
  NumChannels,      \* number of queues; the code has five
  CyclesPerSample,  \* cycles_per_sample_, 40 for 1789773 Hz over 44100 Hz
  MaxFrames,        \* bound of the model: frames the emulation produces
  MaxLost           \* bound of the model: failed enqueues on one queue

ASSUME NumChannelsAssumption == NumChannels \in Nat \ {0}
ASSUME CyclesPerSampleAssumption == CyclesPerSample \in Nat \ {0}
ASSUME MaxFramesAssumption == MaxFrames \in Nat
ASSUME MaxLostAssumption == MaxLost \in Nat

VARIABLES
  cycles_since_last_output_,
  outputPc,          \* 0: outside the output block; c: about to enqueue on
                     \* channel c; NumChannels + 1: about to ReceivedSample()
  received,          \* number of ReceivedSample signals sent
  queue,             \* queue[c]: the frames in queue c, oldest first
  enabled_,          \* the pause flag
  channel_enabled_,  \* the five mute flags
  getPc,             \* where GetSample is
  channel,           \* the queue GetSample is at
  heard,             \* heard[c]: frame the current or last GetSample mixes
                     \* for channel c, 0 for silence
  \* History, read by no action of the program:
  lost,              \* lost[c]: enqueues on queue c that failed
  removed            \* removed[c]: the frame last popped from queue c

emulation == <<cycles_since_last_output_, outputPc, received, lost>>
callback  == <<getPc, channel, heard, removed>>
flags     == <<enabled_, channel_enabled_>>
vars      == <<emulation, callback, flags, queue>>

Channel == 1 .. NumChannels

IsEmpty(c) == queue[c] = <<>>

Init ==
  /\ cycles_since_last_output_ = 0
  /\ outputPc = 0
  /\ received = 0
  /\ queue = [c \in Channel |-> <<>>]
  /\ enabled_ = TRUE
  /\ channel_enabled_ = [c \in Channel |-> TRUE]
  /\ getPc = "idle"
  /\ channel = 1
  /\ heard = [c \in Channel |-> 0]
  /\ lost = [c \in Channel |-> 0]
  /\ removed = [c \in Channel |-> 0]

-----------------------------------------------------------------------------
(* The emulation thread: AudioAdapter::RanCycles(1).                       *)

(* A cycle that does not complete a sample.                                *)
CountCycle ==
  /\ outputPc = 0
  /\ cycles_since_last_output_ + 1 < CyclesPerSample
  /\ cycles_since_last_output_' = cycles_since_last_output_ + 1
  /\ UNCHANGED <<outputPc, received, lost, callback, flags, queue>>

(* A cycle that completes a sample: Apu::GetCurrent latches the values.    *)
LatchSample ==
  /\ outputPc = 0
  /\ received < MaxFrames
  /\ cycles_since_last_output_ + 1 >= CyclesPerSample
  /\ cycles_since_last_output_' = cycles_since_last_output_ + 1 - CyclesPerSample
  /\ outputPc' = 1
  /\ UNCHANGED <<received, lost, callback, flags, queue>>

Enqueue ==
  /\ outputPc \in Channel
  /\ queue' = [queue EXCEPT ![outputPc] = Append(@, received + 1)]
  /\ outputPc' = outputPc + 1
  /\ UNCHANGED <<cycles_since_last_output_, received, lost, callback, flags>>

(* No block for the queue: enqueue returns false, RanCycles goes on.       *)
EnqueueFails ==
  /\ outputPc \in Channel
  /\ lost[outputPc] < MaxLost
  /\ lost' = [lost EXCEPT ![outputPc] = @ + 1]
  /\ outputPc' = outputPc + 1
  /\ UNCHANGED <<cycles_since_last_output_, received, callback, flags, queue>>

(* ReceivedSample(), which Nes connects to CountSamples.                   *)
SignalReceived ==
  /\ outputPc = NumChannels + 1
  /\ received' = received + 1
  /\ outputPc' = 0
  /\ UNCHANGED <<cycles_since_last_output_, lost, callback, flags, queue>>

-----------------------------------------------------------------------------
(* The callback thread: AudioAdapter::GetSample.                           *)

(* Go on to the same phase of the next queue, or to the next phase.        *)
Advance(nextPhase, samePhase) ==
  IF channel < NumChannels
  THEN channel' = channel + 1 /\ getPc' = samePhase
  ELSE channel' = 1 /\ getPc' = nextPhase

(* Remove the front of the current queue unless blocked.                   *)
PopUnless(blocked) ==
  /\ getPc = "pop"
  /\ IF IsEmpty(channel) \/ blocked
     THEN UNCHANGED <<queue, removed>>
     ELSE /\ queue' = [queue EXCEPT ![channel] = Tail(@)]
          /\ removed' = [removed EXCEPT ![channel] = Head(queue[channel])]
  /\ Advance("idle", "pop")
  /\ UNCHANGED <<heard, emulation, flags>>

(* Mutants: the first peek is not tested; the pop is skipped while muted,  *)
(* or while paused.                                                        *)
PeekUntested ==
  /\ getPc = "peek"
  /\ IF channel_enabled_[channel]
     THEN getPc' = "read" /\ UNCHANGED channel
     ELSE Advance("pop", "peek")
  /\ UNCHANGED <<heard, removed, emulation, flags, queue>>
PopSkippedIfMuted  == PopUnless(~channel_enabled_[channel])
PopSkippedIfPaused == PopUnless(~enabled_)

(* A call made while the player is paused returns 0 and touches no queue,  *)
(* so only the calls that find enabled_ set begin here.                    *)
BeginGetSample ==
  /\ getPc = "idle"
  /\ enabled_
  /\ getPc' = "peek"
  /\ channel' = 1
  /\ heard' = [c \in Channel |-> 0]
  /\ UNCHANGED <<removed, emulation, flags, queue>>

(* x_enabled_ && x_queue_.peek(): the test in front of the '?'.            *)
PeekTest ==
  /\ getPc = "peek"
  /\ IF channel_enabled_[channel] /\ ~IsEmpty(channel)
     THEN getPc' = "read" /\ UNCHANGED channel
     ELSE Advance("pop", "peek")
  /\ UNCHANGED <<heard, removed, emulation, flags, queue>>

(* *x_queue_.peek(): the second peek, dereferenced without a test.         *)
PeekRead ==
  /\ getPc = "read"
  /\ heard' = [heard EXCEPT ![channel] = Head(queue[channel])]
  /\ Advance("pop", "peek")
  /\ UNCHANGED <<removed, emulation, flags, queue>>

(* x_queue_.pop(), muted or not; it leaves an empty queue alone.           *)
Pop == PopUnless(FALSE)

-----------------------------------------------------------------------------
(* The user-interface thread.                                              *)

EnableFlip ==
  /\ enabled_' = ~enabled_
  /\ UNCHANGED <<channel_enabled_, emulation, callback, queue>>

ChannelEnableFlip(c) ==
  /\ channel_enabled_' = [channel_enabled_ EXCEPT ![c] = ~@]
  /\ UNCHANGED <<enabled_, emulation, callback, queue>>

-----------------------------------------------------------------------------
RanCycles     ==
  CountCycle \/ LatchSample \/ Enqueue \/ EnqueueFails \/ SignalReceived
GetSample     == BeginGetSample \/ PeekTest \/ PeekRead \/ Pop
UserInterface == EnableFlip \/ \E c \in Channel : ChannelEnableFlip(c)

Next == RanCycles \/ GetSample \/ UserInterface

Spec == Init /\ [][Next]_vars

(* The audio device keeps calling back for as long as the stream is open,  *)
(* and a call has no loop and waits for nothing.                           *)
FairSpec == Spec /\ WF_vars(GetSample)

-----------------------------------------------------------------------------
(* Properties.                                                             *)

TypeOK ==
  /\ cycles_since_last_output_ \in 0 .. CyclesPerSample - 1
  /\ outputPc \in 0 .. NumChannels + 1
  /\ received \in Nat
  /\ queue \in [Channel -> Seq(Nat)]
  /\ enabled_ \in BOOLEAN
  /\ channel_enabled_ \in [Channel -> BOOLEAN]
  /\ getPc \in {"idle", "peek", "read", "pop"}
  /\ channel \in Channel
  /\ heard \in [Channel -> Nat]
  /\ lost \in [Channel -> Nat]
  /\ removed \in [Channel -> Nat]

(* The frame the next enqueue on queue c belongs to, and the frame queue c *)
(* is at: that of its front, or the next one once it is drained.           *)
NextFrame(c) == IF c < outputPc THEN received + 2 ELSE received + 1
Position(c)  == IF IsEmpty(c) THEN NextFrame(c) ELSE Head(queue[c])

(* Between the calls and while a call peeks, a queue is ahead of another   *)
(* by at most one frame and the frames that failed enqueues kept out of    *)
(* it.  The one frame is for the unlocked pops of GetSample that race the  *)
(* unlocked enqueues of RanCycles and find one queue empty where another   *)
(* has a front: such slips never add up.  A drained queue is in step       *)
(* again, whatever was lost.                                               *)
SkewBound ==
  getPc # "pop" =>
    \A c, d \in Channel :
      Position(c) - Position(d) <= IF IsEmpty(d) THEN 1 ELSE 1 + lost[c]

(* What one GetSample mixes comes from at most two adjacent frames, but    *)
(* for what failed enqueues have set the queues apart.                     *)
MixSpread ==
  \A c, d \in Channel :
    heard[c] > 0 /\ heard[d] > 0 => heard[c] - heard[d] <= 1 + lost[c]

(* The second peek of 'peek() ? *peek() : 0', whose result is dereferenced *)
(* untested, never finds the queue empty.                                  *)
NoNullDereference == getPc = "read" => ~IsEmpty(channel)

(* A frame that a call mixes is the frame the same call removes, so no     *)
(* frame is heard twice, whatever is paused, muted or enqueued meanwhile.  *)
HeardIsRemoved ==
  getPc = "idle" => \A c \in Channel : heard[c] > 0 => removed[c] = heard[c]

(* Once playback stays unpaused every frame leaves its queue, that of a    *)
(* muted channel too.                                                      *)
Holds(c, frame) == \E i \in 1 .. Len(queue[c]) : queue[c][i] = frame

EveryFrameDrained ==
  <>[]enabled_ =>
    \A c \in Channel, f \in 1 .. MaxFrames : Holds(c, f) ~> ~Holds(c, f)
=============================================================================
