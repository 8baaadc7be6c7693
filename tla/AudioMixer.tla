---------------------------- MODULE AudioMixer -----------------------------
(***************************************************************************)
(* VDPAudioMixer (VDPAudioUtils/VDPAudioMixer.m) under its three threads:  *)
(*                                                                         *)
(*   capture    the AudioQueue callback that appends local audio           *)
(*   consumer   vp_audio_driver_consumer_thread, which appends the remote  *)
(*              audio it took from shared memory and asks for as much mix  *)
(*   main       helperConfigChange, which sets the two delays at any time  *)
(*                                                                         *)
(* _inBufLock covers every access to the two delay buffers; the delays are *)
(* atomic properties read one at a time, without the lock's protection.    *)
(***************************************************************************)
EXTENDS MixBuffer

CONSTANTS
    CaptureSizes,   \* samples one capture callback delivers (2 per frame)
    RequestSizes,   \* samples one shared-memory read yields (numFrames*2)
    Delays,         \* values the configuration gives a delay, in time units
    MaxSamples      \* bound on the samples written to one channel

ASSUME MixerSizes == CaptureSizes \subseteq Nat /\ RequestSizes \subseteq Nat
ASSUME WholeFrames ==
    /\ Capacity % 2 = 0
    /\ \A n \in CaptureSizes \cup RequestSizes : n % 2 = 0
ASSUME MixerDelays == Delays \subseteq Nat /\ MaxSamples \in Nat

VARIABLES
    captured,       \* _delayBuffer_captured
    channel2,       \* _delayBuffer_ch2
    capturedDelay,  \* capturedAudioDelayInSecs
    channel2Delay,  \* channel2AudioDelayInSecs
    lock,           \* _inBufLock
    pc,             \* where the consumer is in its pass
    dstSize,        \* the consumer's requestedCount
    tempBuf1,       \* what the consumer copied out of the captured channel
    block,          \* the last mix handed to the consumer: pairs of samples
    delayRaised     \* history: a delay rose since this pass took the lock

buffers == <<captured, channel2>>
delays == <<capturedDelay, channel2Delay>>
vars == <<captured, channel2, capturedDelay, channel2Delay, lock, pc,
          dstSize, tempBuf1, block, delayRaised>>

NoSamples == [i \in 0 .. -1 |-> 0]
NoBlock == [i \in 0 .. -1 |-> <<0, 0>>]

Init ==
    /\ captured = initMixBuffer
    /\ channel2 = initMixBuffer
    /\ capturedDelay \in Delays
    /\ channel2Delay \in Delays
    /\ lock = "free"
    /\ pc = "idle"
    /\ dstSize = 0
    /\ tempBuf1 = NoSamples
    /\ block = NoBlock
    /\ delayRaised = FALSE

-----------------------------------------------------------------------------
(* The capture thread *)

receivedBuffer(n) ==
    /\ lock = "free"
    /\ captured.totalSamplesWritten + n <= MaxSamples
    /\ captured' = appendToMixBuffer(captured, n)
    /\ UNCHANGED <<channel2, delays, lock, pc, dstSize, tempBuf1, block,
                   delayRaised>>

(* The main thread *)

SetCapturedDelay(d) ==
    /\ capturedDelay' = d
    /\ delayRaised' = (delayRaised \/ (lock = "held" /\ d > capturedDelay))
    /\ UNCHANGED <<buffers, channel2Delay, lock, pc, dstSize, tempBuf1, block>>

SetChannel2Delay(d) ==
    /\ channel2Delay' = d
    /\ delayRaised' = (delayRaised \/ (lock = "held" /\ d > channel2Delay))
    /\ UNCHANGED <<buffers, capturedDelay, lock, pc, dstSize, tempBuf1, block>>

(* The consumer thread *)

addChannel2(n) ==
    /\ pc = "idle"
    /\ lock = "free"
    /\ channel2.totalSamplesWritten + n <= MaxSamples
    /\ channel2' = appendToMixBuffer(channel2, MIN(n, Capacity))
    /\ dstSize' = n
    /\ pc' = "consume"
    /\ UNCHANGED <<captured, delays, lock, tempBuf1, block, delayRaised>>

\* The early return of consumeFloatSamples: unlock, nothing mixed.
GiveUp ==
    /\ lock' = "free"
    /\ pc' = "idle"
    /\ block' = NoBlock

CheckCaptured ==
    /\ pc = "consume"
    /\ lock = "free"
    /\ delayRaised' = FALSE
    /\ IF HasEnoughDataForDelay(captured, capturedDelay, dstSize)
       THEN lock' = "held" /\ pc' = "check2" /\ UNCHANGED block
       ELSE GiveUp
    /\ UNCHANGED <<buffers, delays, dstSize, tempBuf1>>

\* (mutant) Only the captured channel is checked before the reads.
CheckChannel2Skipped ==
    /\ pc = "check2"
    /\ pc' = "read1"
    /\ UNCHANGED <<buffers, delays, lock, dstSize, tempBuf1, block, delayRaised>>

CheckChannel2 ==
    /\ pc = "check2"
    /\ IF HasEnoughDataForDelay(channel2, channel2Delay, dstSize)
       THEN pc' = "read1" /\ UNCHANGED <<lock, block>>
       ELSE GiveUp
    /\ UNCHANGED <<buffers, delays, dstSize, tempBuf1, delayRaised>>

\* The samples a read of count samples copies out of mb.
SamplesRead(mb, count) ==
    [i \in 0 .. count - 1 |-> mb.sampleData[mb.readPos + i]]

CountRead(mb, delay) == ReadCount(mb, delay, MIN(Capacity, dstSize))

ReadCaptured ==
    /\ pc = "read1"
    /\ LET count == CountRead(captured, capturedDelay)
       IN  /\ captured' = AfterRead(captured, count)
           /\ tempBuf1' = SamplesRead(captured, count)
    /\ pc' = "read2"
    /\ UNCHANGED <<channel2, delays, lock, dstSize, block, delayRaised>>

\* Reads channel 2, mixes as many samples as both reads gave, and unlocks.
ReadChannel2 ==
    /\ pc = "read2"
    /\ LET count == CountRead(channel2, channel2Delay)
       IN  /\ channel2' = AfterRead(channel2, count)
           /\ block' = [i \in DOMAIN tempBuf1 \cap 0 .. count - 1 |->
                            <<tempBuf1[i], channel2.sampleData[channel2.readPos + i]>>]
    /\ tempBuf1' = NoSamples
    /\ lock' = "free"
    /\ pc' = "idle"
    /\ UNCHANGED <<captured, delays, dstSize, delayRaised>>

-----------------------------------------------------------------------------

Capture == \E n \in CaptureSizes : receivedBuffer(n)

Configure == \E d \in Delays : SetCapturedDelay(d) \/ SetChannel2Delay(d)

Consume == CheckCaptured \/ CheckChannel2 \/ ReadCaptured \/ ReadChannel2

Next ==
    \/ Capture
    \/ Configure
    \/ \E n \in RequestSizes : addChannel2(n)
    \/ Consume

Spec == Init /\ [][Next]_vars

-----------------------------------------------------------------------------
(* Properties *)

Buffers == {captured, channel2}

TypeOK ==
    /\ captured \in VDPAudioMixBuffer
    /\ channel2 \in VDPAudioMixBuffer
    /\ capturedDelay \in Delays
    /\ channel2Delay \in Delays
    /\ lock \in {"free", "held"}
    /\ pc \in {"idle", "consume", "check2", "read1", "read2"}
    /\ dstSize \in Nat
    /\ delayRaised \in BOOLEAN

\* Whatever was appended, moved and dropped, the filled part of a buffer is the
\* newest run of its stream, in order, with the read cursor inside it: an
\* overflow can only cost the oldest samples, never reorder or repeat any.
HoldsNewestRun(mb) ==
    /\ mb.readPos <= mb.writePos
    /\ mb.writePos <= mb.totalSamplesWritten
    /\ \A i \in 0 .. mb.writePos - 1 :
          mb.sampleData[i] = mb.totalSamplesWritten - mb.writePos + 1 + i

BuffersHoldNewestRun == \A mb \in Buffers : HoldsNewestRun(mb)

\* How many samples of its stream have left the buffer, read or shed.
Gone(mb) == mb.totalSamplesWritten - mb.writePos + mb.readPos

\* A stereo frame is never split: the next sample of each channel to be mixed is
\* a left one, so that left is mixed with left after any overflow or lost block.
StereoAligned == \A mb \in Buffers : Gone(mb) % 2 = 0

\* A consumer pass takes a block from one channel and not from the other only
\* when the configuration raised a delay between the pass's check and its read.
LosesBlock ==
    /\ ReadChannel2
    /\ DOMAIN tempBuf1
         # DOMAIN SamplesRead(channel2, CountRead(channel2, channel2Delay))

LossOnlyAfterRaise == [][LosesBlock => delayRaised]_vars

\* The two channels as the queues of MixedStream.  What ReadCaptured took still
\* counts as queued until the pass is over.
InFlight == IF tempBuf1 = NoSamples THEN 0 ELSE dstSize

queueWritten == [c \in {"captured", "channel2"} |->
    IF c = "captured" THEN captured.totalSamplesWritten
                      ELSE channel2.totalSamplesWritten]

queueNext == [c \in {"captured", "channel2"} |->
    IF c = "captured" THEN Gone(captured) - InFlight + 1
                      ELSE Gone(channel2) + 1]

Mixed == INSTANCE MixedStream
            WITH written <- queueWritten, next <- queueNext

\* The mixer implements MixedStream: blocks pair the oldest samples of both
\* channels, in order and never twice, and only a nearly full buffer sheds.
ImplementsMixedStream == Mixed!Spec

=============================================================================
