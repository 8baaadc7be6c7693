---------------------------- MODULE AudioProofs -----------------------------
(***************************************************************************)
(* Proofs about the way of the audio: through the delay buffers of the     *)
(* mixer (AudioMixer), for every capacity, delay and block size; through   *)
(* the ring the driver shares with the helper (ShmRing), for every size of *)
(* ring and of block; and through the mix of libobs (AudioMix), for all    *)
(* sources, blocks, thresholds and limits.                                 *)
(***************************************************************************)
EXTENDS AudioMixer, ShmRing, MCAudioMix, SequenceTheorems, WellFoundedInduction, TLAPS


(***************************************************************************)
(* The buffer.                                                             *)
(***************************************************************************)

\* A buffer that could be in use: the right type, holding the newest run.
GoodBuffer(mb) == mb \in VDPAudioMixBuffer /\ HoldsNewestRun(mb)

LEMMA InitBufferGood == GoodBuffer(initMixBuffer) /\ Gone(initMixBuffer) = 0
BY CapacityAssumption DEF GoodBuffer, Gone, initMixBuffer, VDPAudioMixBuffer,
     HoldsNewestRun, Cells

\* The slide at the end of the buffer stays inside sampleData and makes room.
LEMMA MoveInBounds ==
    ASSUME NEW mb, GoodBuffer(mb), NEW n \in Nat, Accepts(n)
    PROVE  /\ MoveOffset(mb, n) \in 1 .. Capacity
           /\ MoveOffset(mb, n) >= n
           /\ MoveAmount(mb, n) \in 0 .. Capacity
           /\ MoveOffset(mb, n) + MoveAmount(mb, n) <= Capacity
           /\ mb.writePos > MoveOffset(mb, n)
                => MoveAmount(mb, n) = mb.writePos - MoveOffset(mb, n)
BY CapacityAssumption DEF GoodBuffer, VDPAudioMixBuffer, HoldsNewestRun, Accepts,
     MoveOffset, MoveAmount, MAX, MIN

LEMMA MakeRoomGood ==
    ASSUME NEW mb, GoodBuffer(mb), NEW n \in Nat, Accepts(n), IsFull(mb, n)
    PROVE  LET res == MakeRoom(mb, n)
           IN  /\ GoodBuffer(res)
               /\ res.writePos + n <= Capacity
               /\ res.totalSamplesWritten = mb.totalSamplesWritten
               /\ Gone(res) >= Gone(mb)
               /\ Gone(res) > Gone(mb) =>
                    /\ Gone(res) - Gone(mb) <= n
                    /\ mb.writePos - mb.readPos + 2 * n > Capacity + 1
<1> DEFINE res == MakeRoom(mb, n)
           o == MoveOffset(mb, n)
           a == MoveAmount(mb, n)
<1>1. /\ o \in 1 .. Capacity /\ o >= n /\ a \in 0 .. Capacity
      /\ o + a <= Capacity
      /\ mb.writePos > o => a = mb.writePos - o
  BY MoveInBounds
<1>2. /\ mb.readPos \in Nat /\ mb.writePos \in Nat
      /\ mb.readPos <= mb.writePos /\ mb.writePos <= Capacity
      /\ mb.writePos <= mb.totalSamplesWritten
      /\ mb.totalSamplesWritten \in Nat /\ Capacity \in Nat
      /\ mb.sampleData \in [Cells -> Nat]
  BY CapacityAssumption DEF GoodBuffer, VDPAudioMixBuffer, HoldsNewestRun
<1>3. /\ res.sampleData = [i \in Cells |-> IF i < a THEN mb.sampleData[i + o]
                                                  ELSE mb.sampleData[i]]
      /\ res.readPos = MAX(0, mb.readPos - o)
      /\ res.writePos = MAX(0, mb.writePos - o)
      /\ res.totalSamplesWritten = mb.totalSamplesWritten
  BY DEF MakeRoom
<1>4. res = [ sampleData |-> res.sampleData, readPos |-> res.readPos,
            writePos |-> res.writePos,
            totalSamplesWritten |-> res.totalSamplesWritten ]
  BY DEF MakeRoom
<1> HIDE DEF res, o, a
<1>5. res \in VDPAudioMixBuffer
  <2>1. \A i \in Cells : i < a => i + o \in Cells
    BY <1>1, <1>2 DEF Cells
  <2>2. res.sampleData \in [Cells -> Nat]
    BY <2>1, <1>2, <1>3
  <2>3. res.readPos \in 0 .. Capacity /\ res.writePos \in 0 .. Capacity
    BY <1>1, <1>2, <1>3 DEF MAX
  <2> QED
    BY <2>2, <2>3, <1>2, <1>3, <1>4 DEF VDPAudioMixBuffer
<1>6. HoldsNewestRun(res)
  <2>1. res.readPos <= res.writePos /\ res.writePos <= res.totalSamplesWritten
    BY <1>1, <1>2, <1>3 DEF MAX
  <2>2. ASSUME NEW i \in 0 .. res.writePos - 1
        PROVE  res.sampleData[i]
                 = res.totalSamplesWritten - res.writePos + 1 + i
    <3>1. mb.writePos > o /\ res.writePos = mb.writePos - o
      BY <1>1, <1>2, <1>3 DEF MAX
    <3>2. i \in Cells /\ i < a /\ i + o \in 0 .. mb.writePos - 1
      BY <3>1, <1>1, <1>2 DEF Cells
    <3>3. res.sampleData[i] = mb.sampleData[i + o]
      BY <3>2, <1>3
    <3>4. mb.sampleData[i + o]
            = mb.totalSamplesWritten - mb.writePos + 1 + (i + o)
      BY <3>2 DEF GoodBuffer, HoldsNewestRun
    <3> QED
      BY <3>1, <3>3, <3>4, <1>1, <1>2, <1>3
  <2> QED
    BY <2>1, <2>2 DEF HoldsNewestRun
<1>7. res.writePos + n <= Capacity
  BY <1>1, <1>2, <1>3 DEF MAX, Accepts
<1>8. /\ Gone(res) >= Gone(mb)
      /\ Gone(res) > Gone(mb) =>
           /\ Gone(res) - Gone(mb) <= n
           /\ mb.writePos - mb.readPos + 2 * n > Capacity + 1
  BY <1>1, <1>2, <1>3 DEF Gone, MAX, MIN, MoveOffset, IsFull, o
<1> QED
  BY <1>3, <1>5, <1>6, <1>7, <1>8 DEF GoodBuffer, res

LEMMA CopyInGood ==
    ASSUME NEW mb, GoodBuffer(mb), NEW n \in Nat, mb.writePos + n <= Capacity
    PROVE  LET res == CopyIn(mb, n)
           IN  /\ GoodBuffer(res)
               /\ res.totalSamplesWritten = mb.totalSamplesWritten + n
               /\ res.writePos = mb.writePos + n
               /\ Gone(res) = Gone(mb)
<1> DEFINE res == CopyIn(mb, n)
<1>1. /\ mb.readPos \in Nat /\ mb.writePos \in Nat
      /\ mb.readPos <= mb.writePos /\ mb.writePos <= Capacity
      /\ mb.writePos <= mb.totalSamplesWritten
      /\ mb.totalSamplesWritten \in Nat /\ Capacity \in Nat
      /\ mb.sampleData \in [Cells -> Nat]
  BY CapacityAssumption DEF GoodBuffer, VDPAudioMixBuffer, HoldsNewestRun
<1>2. /\ res.sampleData =
           [i \in Cells |->
              IF i >= mb.writePos /\ i < mb.writePos + n
              THEN mb.totalSamplesWritten + 1 + (i - mb.writePos)
              ELSE mb.sampleData[i]]
      /\ res.readPos = mb.readPos
      /\ res.writePos = mb.writePos + n
      /\ res.totalSamplesWritten = mb.totalSamplesWritten + n
  BY DEF CopyIn
<1>2a. res = [ sampleData |-> res.sampleData, readPos |-> res.readPos,
          writePos |-> res.writePos,
          totalSamplesWritten |-> res.totalSamplesWritten ]
  BY DEF CopyIn
<1> HIDE DEF res
<1>3. res \in VDPAudioMixBuffer
  <2>1. res.sampleData \in [Cells -> Nat]
    BY <1>1, <1>2, <1>2a, SMTT(30) DEF Cells
  <2> QED
    BY <2>1, <1>2a, <1>1, <1>2 DEF VDPAudioMixBuffer
<1>4. HoldsNewestRun(res)
  <2>1. ASSUME NEW i \in 0 .. res.writePos - 1
        PROVE  res.sampleData[i]
                 = res.totalSamplesWritten - res.writePos + 1 + i
    <3>1. i \in Cells
      BY <1>1, <1>2 DEF Cells
    <3>2. CASE i >= mb.writePos
      BY <3>1, <3>2, <1>1, <1>2
    <3>3. CASE i < mb.writePos
      <4>1. mb.sampleData[i]
              = mb.totalSamplesWritten - mb.writePos + 1 + i
        BY <3>3, <1>1 DEF GoodBuffer, HoldsNewestRun
      <4> QED
        BY <3>1, <3>3, <4>1, <1>1, <1>2
    <3> QED
      BY <3>2, <3>3, <1>1, <1>2
  <2> QED
    <3>1. res.readPos <= res.writePos /\ res.writePos <= res.totalSamplesWritten
      BY <1>1, <1>2
    <3> QED
      BY <2>1, <3>1 DEF HoldsNewestRun
<1> QED
  BY <1>1, <1>2, <1>3, <1>4 DEF GoodBuffer, Gone, res

\* What an append does to a buffer, whatever its state: n samples join the
\* stream, old ones are shed only when two blocks would not fit, and never
\* more of them than arrive.
LEMMA AppendGood ==
    ASSUME NEW mb, GoodBuffer(mb), NEW n \in Nat
    PROVE  LET res == appendToMixBuffer(mb, n)
           IN  /\ GoodBuffer(res)
               /\ ~Accepts(n) => res = mb
               /\ Accepts(n) =>
                    /\ res.totalSamplesWritten = mb.totalSamplesWritten + n
                    /\ Gone(res) >= Gone(mb)
                    /\ Gone(res) > Gone(mb) =>
                         /\ Gone(res) - Gone(mb) <= n
                         /\ Gone(res) <= mb.totalSamplesWritten
                         /\ mb.writePos - mb.readPos + 2 * n > Capacity + 1
<1>1. CASE ~Accepts(n)
  BY <1>1 DEF appendToMixBuffer
<1>2. CASE Accepts(n) /\ IsFull(mb, n)
  <2> DEFINE m == MakeRoom(mb, n)
             res == CopyIn(m, n)
  <2>1. appendToMixBuffer(mb, n) = res
    BY <1>2 DEF appendToMixBuffer
  <2>2. /\ GoodBuffer(m) /\ m.writePos + n <= Capacity
        /\ m.totalSamplesWritten = mb.totalSamplesWritten
        /\ Gone(m) >= Gone(mb)
        /\ Gone(m) > Gone(mb) =>
             /\ Gone(m) - Gone(mb) <= n
             /\ mb.writePos - mb.readPos + 2 * n > Capacity + 1
    BY <1>2, MakeRoomGood
  <2>3. /\ GoodBuffer(res)
        /\ res.totalSamplesWritten = m.totalSamplesWritten + n
        /\ Gone(res) = Gone(m)
    BY <2>2, CopyInGood
  <2>4. Gone(m) <= m.totalSamplesWritten
    BY <2>2 DEF GoodBuffer, HoldsNewestRun, VDPAudioMixBuffer, Gone
  <2> HIDE DEF m, res
  <2> QED
    BY <1>2, <2>1, <2>2, <2>3, <2>4
<1>3. CASE Accepts(n) /\ ~IsFull(mb, n)
  <2>1. mb.writePos + n <= Capacity
    BY <1>3, CapacityAssumption DEF IsFull, GoodBuffer, VDPAudioMixBuffer
  <2>2. appendToMixBuffer(mb, n) = CopyIn(mb, n)
    BY <1>3 DEF appendToMixBuffer
  <2>3. /\ GoodBuffer(CopyIn(mb, n))
        /\ CopyIn(mb, n).totalSamplesWritten = mb.totalSamplesWritten + n
        /\ Gone(CopyIn(mb, n)) = Gone(mb)
    BY <2>1, CopyInGood
  <2>4. Gone(mb) \in Int
    BY DEF GoodBuffer, VDPAudioMixBuffer, Gone
  <2> QED
    BY <1>3, <2>2, <2>3, <2>4
<1> QED
  BY <1>1, <1>2, <1>3

\* A read of samples that are there leaves a good buffer behind.
LEMMA AfterReadGood ==
    ASSUME NEW mb, GoodBuffer(mb), NEW n \in Nat,
           n <= availableDelayedSamples(mb)
    PROVE  /\ GoodBuffer(AfterRead(mb, n))
           /\ Gone(AfterRead(mb, n)) = Gone(mb) + n
           /\ AfterRead(mb, n).totalSamplesWritten = mb.totalSamplesWritten
           /\ availableDelayedSamples(AfterRead(mb, n))
                = availableDelayedSamples(mb) - n
<1> DEFINE res == AfterRead(mb, n)
<1>1. /\ mb.readPos \in Nat /\ mb.writePos \in Nat
      /\ mb.readPos + n <= mb.writePos /\ mb.writePos <= Capacity
      /\ mb.totalSamplesWritten \in Nat /\ Capacity \in Nat
  BY CapacityAssumption DEF GoodBuffer, VDPAudioMixBuffer, HoldsNewestRun,
       availableDelayedSamples
<1>2. /\ res.sampleData = mb.sampleData /\ res.writePos = mb.writePos
      /\ res.totalSamplesWritten = mb.totalSamplesWritten
      /\ res.readPos = mb.readPos + n
      /\ res \in VDPAudioMixBuffer
  BY <1>1 DEF AfterRead, GoodBuffer, VDPAudioMixBuffer
<1> QED
  BY <1>1, <1>2 DEF GoodBuffer, HoldsNewestRun, Gone, availableDelayedSamples

(***************************************************************************)
(* Parity: whole frames in, whole frames out.                              *)
(***************************************************************************)

EvenBuffer(mb) ==
    /\ mb.readPos % 2 = 0
    /\ mb.writePos % 2 = 0
    /\ mb.totalSamplesWritten % 2 = 0

LEMMA AppendEven ==
    ASSUME NEW mb, GoodBuffer(mb), EvenBuffer(mb), NEW n \in Nat, n % 2 = 0
    PROVE  EvenBuffer(appendToMixBuffer(mb, n))
<1>1. /\ mb.readPos \in Nat /\ mb.writePos \in Nat
      /\ mb.totalSamplesWritten \in Nat
  BY DEF GoodBuffer, VDPAudioMixBuffer
<1>2. ASSUME NEW b, EvenBuffer(b), b.writePos \in Nat,
             b.totalSamplesWritten \in Nat
      PROVE  EvenBuffer(CopyIn(b, n))
  BY <1>2 DEF EvenBuffer, CopyIn
<1>3. ASSUME Accepts(n), IsFull(mb, n)
      PROVE  EvenBuffer(MakeRoom(mb, n))
  <2>1. MoveOffset(mb, n) \in Nat /\ MoveOffset(mb, n) % 2 = 0
    BY <1>1 DEF MoveOffset, MAX, MIN, EvenBuffer
  <2> QED
    BY <1>1, <2>1 DEF MakeRoom, MAX, EvenBuffer
<1>4. ASSUME Accepts(n), IsFull(mb, n)
      PROVE  /\ MakeRoom(mb, n).writePos \in Nat
             /\ MakeRoom(mb, n).totalSamplesWritten \in Nat
  BY <1>4, MakeRoomGood DEF GoodBuffer, VDPAudioMixBuffer
<1> QED
  BY <1>1, <1>2, <1>3, <1>4 DEF appendToMixBuffer

(***************************************************************************)
(* The inductive invariant.                                                *)
(***************************************************************************)

\* n samples of a stream in order, the first one numbered first.
Run(first, n) == [i \in 0 .. n - 1 |-> first + i]

LEMMA RunLength ==
    ASSUME NEW f \in Int, NEW n \in Nat, Run(f, n) = NoSamples
    PROVE  n = 0
<1>1. DOMAIN Run(f, n) = 0 .. n - 1 /\ DOMAIN NoSamples = 0 .. -1
  BY DEF Run, NoSamples
<1>2. 0 \notin 0 .. n - 1
  BY <1>1
<1> QED
  BY <1>2

LockInv == lock = "held" <=> pc \in {"check2", "read1", "read2"}

EvenInv == EvenBuffer(captured) /\ EvenBuffer(channel2) /\ dstSize % 2 = 0

\* A pass that got past its check asked for no more than a buffer holds, and
\* what it took from the captured channel is the run that just left it.
PassInv ==
    /\ lock = "held" => dstSize <= Capacity
    /\ pc # "read2" => tempBuf1 = NoSamples
    /\ pc = "read2" =>
         \/ tempBuf1 = NoSamples
         \/ /\ tempBuf1 = Run(Gone(captured) - dstSize + 1, dstSize)
            /\ dstSize <= Gone(captured)

\* Without a raise the checks of the pass still hold when it reads.
CheckInv ==
    ~delayRaised =>
      /\ pc \in {"check2", "read1"}
           => HasEnoughDataForDelay(captured, capturedDelay, dstSize)
      /\ pc \in {"read1", "read2"}
           => HasEnoughDataForDelay(channel2, channel2Delay, dstSize)
      /\ pc = "read2"
           => tempBuf1 = Run(Gone(captured) - dstSize + 1, dstSize)

IInv ==
    /\ TypeOK
    /\ GoodBuffer(captured)
    /\ GoodBuffer(channel2)
    /\ LockInv
    /\ EvenInv
    /\ PassInv
    /\ CheckInv

LEMMA InitIInv == Init => IInv
<1> SUFFICES ASSUME Init PROVE IInv
  OBVIOUS
<1>1. GoodBuffer(captured) /\ GoodBuffer(channel2)
  BY InitBufferGood DEF Init
<1>2. TypeOK
  BY <1>1 DEF Init, TypeOK, GoodBuffer
<1>3. EvenInv
  BY DEF Init, EvenInv, EvenBuffer, initMixBuffer
<1>4. LockInv /\ PassInv /\ CheckInv
  BY DEF Init, LockInv, PassInv, CheckInv
<1> QED
  BY <1>1, <1>2, <1>3, <1>4 DEF IInv

\* A longer request or a longer delay needs more data.
LEMMA DelayMonotone ==
    ASSUME NEW mb, NEW c \in Nat, NEW d \in Nat, d <= c, NEW n \in Nat,
           GoodBuffer(mb), HasEnoughDataForDelay(mb, c, n)
    PROVE  HasEnoughDataForDelay(mb, d, n)
<1>1. /\ MAX(MinDelay, c) \in Nat /\ MAX(MinDelay, d) \in Nat
      /\ MAX(MinDelay, d) <= MAX(MinDelay, c)
  BY DelayAssumption DEF MAX
<1>2. \A x, y \in Nat : x <= y => x * SampleRate <= y * SampleRate
  BY DelayAssumption
<1>3. delaySamples(d) <= delaySamples(c)
  BY <1>1, <1>2 DEF delaySamples
<1>4. delaySamples(d) \in Nat /\ delaySamples(c) \in Nat
  BY <1>1, DelayAssumption DEF delaySamples
<1>5. availableDelayedSamples(mb) \in Int
  BY DEF availableDelayedSamples, GoodBuffer, VDPAudioMixBuffer
<1> QED
  BY <1>3, <1>4, <1>5 DEF HasEnoughDataForDelay

\* A read hands over either nothing or exactly what was asked for, and what is
\* handed over is there to be read.
LEMMA ReadCountBounds ==
    ASSUME NEW mb, GoodBuffer(mb), NEW d \in Nat, NEW n \in Nat
    PROVE  /\ ReadCount(mb, d, n) \in {0, n}
           /\ ReadCount(mb, d, n) <= availableDelayedSamples(mb)
           /\ HasEnoughDataForDelay(mb, d, n) =>
                /\ ReadCount(mb, d, n) = n
                /\ n <= availableDelayedSamples(mb)
                /\ n <= Capacity
<1>1. delaySamples(d) \in Nat
  BY DelayAssumption DEF delaySamples, MAX
<1>2. /\ availableDelayedSamples(mb) \in Nat
      /\ availableDelayedSamples(mb) <= Capacity
      /\ Capacity \in Nat
  BY CapacityAssumption DEF GoodBuffer, VDPAudioMixBuffer, HoldsNewestRun,
       availableDelayedSamples
<1> QED
  BY <1>1, <1>2 DEF ReadCount, HasEnoughDataForDelay

\* What a read copies is the next run of the stream.
LEMMA SamplesReadRun ==
    ASSUME NEW mb, GoodBuffer(mb), NEW n \in Nat,
           n <= availableDelayedSamples(mb)
    PROVE  SamplesRead(mb, n) = Run(Gone(mb) + 1, n)
<1>1. /\ mb.readPos \in Nat /\ mb.writePos \in Nat
      /\ mb.totalSamplesWritten \in Nat
      /\ mb.readPos + n <= mb.writePos
  BY DEF GoodBuffer, VDPAudioMixBuffer, availableDelayedSamples
<1>2. ASSUME NEW i \in 0 .. n - 1
      PROVE  mb.sampleData[mb.readPos + i] = Gone(mb) + 1 + i
  <2>1. mb.readPos + i \in 0 .. mb.writePos - 1
    BY <1>1
  <2>2. mb.sampleData[mb.readPos + i]
          = mb.totalSamplesWritten - mb.writePos + 1 + (mb.readPos + i)
    BY <2>1 DEF GoodBuffer, HoldsNewestRun
  <2> QED
    BY <1>1, <2>2 DEF Gone
<1> QED
  BY <1>2 DEF SamplesRead, Run

(***************************************************************************)
(* One lemma per action: it preserves the invariant.                       *)
(***************************************************************************)

LEMMA CapturePreserves ==
    ASSUME IInv, NEW n \in CaptureSizes, receivedBuffer(n)
    PROVE  IInv'
<1>1. n \in Nat /\ n % 2 = 0
  BY MixerSizes, WholeFrames
<1>2. GoodBuffer(captured') /\ EvenBuffer(captured')
  BY <1>1, AppendGood, AppendEven DEF IInv, EvenInv, receivedBuffer
<1>3. pc \notin {"check2", "read1", "read2"}
  BY DEF IInv, LockInv, receivedBuffer
<1>4. TypeOK'
  BY <1>2 DEF IInv, TypeOK, receivedBuffer, delays, GoodBuffer
<1>5. GoodBuffer(captured)' /\ GoodBuffer(channel2)' /\ LockInv' /\ EvenInv'
  BY <1>2 DEF IInv, LockInv, EvenInv, receivedBuffer
<1>6. PassInv' /\ CheckInv'
  BY <1>3 DEF IInv, PassInv, CheckInv, receivedBuffer
<1> QED
  BY <1>4, <1>5, <1>6 DEF IInv

LEMMA SetCapturedDelayPreserves ==
    ASSUME IInv, NEW d \in Delays, SetCapturedDelay(d)
    PROVE  IInv'
<1>1. d \in Nat /\ capturedDelay \in Nat /\ dstSize \in Nat
  BY MixerDelays DEF IInv, TypeOK
<1>2. TypeOK' /\ GoodBuffer(captured)' /\ GoodBuffer(channel2)'
  BY DEF IInv, TypeOK, SetCapturedDelay, buffers
<1>3. LockInv' /\ EvenInv' /\ PassInv'
  BY DEF IInv, LockInv, EvenInv, PassInv, SetCapturedDelay, buffers, Gone
<1>4. CheckInv'
  <2> SUFFICES ASSUME ~delayRaised' PROVE CheckInv'
    BY DEF CheckInv
  <2>0. ~delayRaised /\ ~(lock = "held" /\ d > capturedDelay)
    BY Zenon DEF SetCapturedDelay
  <2>1. ~delayRaised /\ (lock = "held" => d <= capturedDelay)
    BY <1>1, <2>0
  <2>2. ASSUME pc \in {"check2", "read1"}
        PROVE  HasEnoughDataForDelay(captured, d, dstSize)
    BY <1>1, <2>1, <2>2, DelayMonotone DEF IInv, CheckInv, LockInv
  <2> QED
    BY <2>1, <2>2 DEF SetCapturedDelay, IInv, CheckInv, buffers, Gone
<1> QED
  BY <1>2, <1>3, <1>4 DEF IInv

LEMMA SetChannel2DelayPreserves ==
    ASSUME IInv, NEW d \in Delays, SetChannel2Delay(d)
    PROVE  IInv'
<1>1. d \in Nat /\ channel2Delay \in Nat /\ dstSize \in Nat
  BY MixerDelays DEF IInv, TypeOK
<1>2. TypeOK' /\ GoodBuffer(captured)' /\ GoodBuffer(channel2)'
  BY DEF IInv, TypeOK, SetChannel2Delay, buffers
<1>3. LockInv' /\ EvenInv' /\ PassInv'
  BY DEF IInv, LockInv, EvenInv, PassInv, SetChannel2Delay, buffers, Gone
<1>4. CheckInv'
  <2> SUFFICES ASSUME ~delayRaised' PROVE CheckInv'
    BY DEF CheckInv
  <2>0. ~delayRaised /\ ~(lock = "held" /\ d > channel2Delay)
    BY Zenon DEF SetChannel2Delay
  <2>1. ~delayRaised /\ (lock = "held" => d <= channel2Delay)
    BY <1>1, <2>0
  <2>2. ASSUME pc \in {"read1", "read2"}
        PROVE  HasEnoughDataForDelay(channel2, d, dstSize)
    BY <1>1, <2>1, <2>2, DelayMonotone DEF IInv, CheckInv, LockInv
  <2> QED
    BY <2>1, <2>2 DEF SetChannel2Delay, IInv, CheckInv, buffers, Gone
<1> QED
  BY <1>2, <1>3, <1>4 DEF IInv

LEMMA AddChannel2Preserves ==
    ASSUME IInv, NEW n \in RequestSizes, addChannel2(n)
    PROVE  IInv'
<1>1. n \in Nat /\ n % 2 = 0 /\ MIN(n, Capacity) \in Nat
      /\ MIN(n, Capacity) % 2 = 0
  BY MixerSizes, WholeFrames, CapacityAssumption DEF MIN
<1>2. GoodBuffer(channel2') /\ EvenBuffer(channel2')
  BY <1>1, AppendGood, AppendEven DEF IInv, EvenInv, addChannel2
<1>3. TypeOK'
  BY <1>1, <1>2 DEF IInv, TypeOK, addChannel2, delays, GoodBuffer
<1>4. GoodBuffer(captured)' /\ GoodBuffer(channel2)' /\ LockInv' /\ EvenInv'
  BY <1>1, <1>2 DEF IInv, LockInv, EvenInv, addChannel2
<1>5. PassInv' /\ CheckInv'
  BY DEF IInv, PassInv, CheckInv, addChannel2
<1> QED
  BY <1>3, <1>4, <1>5 DEF IInv

LEMMA CheckCapturedPreserves ==
    ASSUME IInv, CheckCaptured
    PROVE  IInv'
<1>1. TypeOK' /\ GoodBuffer(captured)' /\ GoodBuffer(channel2)'
  BY DEF IInv, TypeOK, CheckCaptured, GiveUp, buffers, delays
<1>2. LockInv' /\ EvenInv'
  BY DEF IInv, LockInv, EvenInv, CheckCaptured, GiveUp, buffers, delays
<1>3. /\ pc' \in {"check2", "idle"}
      /\ pc' = "check2" => HasEnoughDataForDelay(captured, capturedDelay, dstSize)
  BY DEF CheckCaptured, GiveUp
<1>4. capturedDelay \in Nat /\ dstSize \in Nat
  BY MixerDelays DEF IInv, TypeOK
<1>5. pc' = "check2" => dstSize <= Capacity
  BY <1>3, <1>4, ReadCountBounds DEF IInv
<1>6. tempBuf1' = NoSamples
  BY DEF CheckCaptured, IInv, PassInv
<1>7. PassInv'
  BY <1>2, <1>3, <1>5, <1>6 DEF PassInv, LockInv, CheckCaptured
<1>8. CheckInv'
  BY <1>3 DEF CheckInv, CheckCaptured, buffers, delays
<1> QED
  BY <1>1, <1>2, <1>7, <1>8 DEF IInv

LEMMA CheckChannel2Preserves ==
    ASSUME IInv, CheckChannel2
    PROVE  IInv'
<1>1. TypeOK' /\ GoodBuffer(captured)' /\ GoodBuffer(channel2)'
  BY DEF IInv, TypeOK, CheckChannel2, GiveUp, buffers, delays
<1>2. LockInv' /\ EvenInv'
  BY DEF IInv, LockInv, EvenInv, CheckChannel2, GiveUp, buffers, delays
<1>3. /\ pc' \in {"read1", "idle"}
      /\ pc' = "read1" => HasEnoughDataForDelay(channel2, channel2Delay, dstSize)
  BY DEF CheckChannel2, GiveUp
<1>4. lock = "held" /\ pc = "check2"
  BY DEF CheckChannel2, IInv, LockInv
<1>5. PassInv'
  BY <1>3, <1>4 DEF PassInv, IInv, CheckChannel2
<1>6. CheckInv'
  BY <1>3, <1>4 DEF IInv, CheckInv, CheckChannel2, buffers, delays
<1> QED
  BY <1>1, <1>2, <1>5, <1>6 DEF IInv

\* What the two reads of a pass do, under the invariant: each takes a run of the
\* stream, of the requested length or empty.
LEMMA ReadCapturedStep ==
    ASSUME IInv, ReadCaptured
    PROVE  \E k \in {0, dstSize} :
             /\ k \in Nat /\ k % 2 = 0
             /\ k <= availableDelayedSamples(captured)
             /\ captured' = AfterRead(captured, k)
             /\ tempBuf1' = Run(Gone(captured) + 1, k)
             /\ ~delayRaised => k = dstSize
<1> DEFINE k == CountRead(captured, capturedDelay)
<1>1. /\ dstSize \in Nat /\ dstSize <= Capacity /\ dstSize % 2 = 0
      /\ capturedDelay \in Nat /\ GoodBuffer(captured)
  BY MixerDelays DEF IInv, TypeOK, LockInv, PassInv, EvenInv, ReadCaptured
<1>2. k = ReadCount(captured, capturedDelay, dstSize)
  BY <1>1, CapacityAssumption DEF CountRead, MIN
<1>3. /\ k \in {0, dstSize} /\ k <= availableDelayedSamples(captured)
      /\ ~delayRaised => k = dstSize
  BY <1>1, <1>2, ReadCountBounds DEF IInv, CheckInv, ReadCaptured
<1>4. captured' = AfterRead(captured, k) /\ tempBuf1' = SamplesRead(captured, k)
  BY DEF ReadCaptured
<1>5. tempBuf1' = Run(Gone(captured) + 1, k)
  BY <1>1, <1>3, <1>4, SamplesReadRun
<1>6. k \in Nat /\ k % 2 = 0
  BY <1>1, <1>3
<1> QED
  BY <1>3, <1>4, <1>5, <1>6

LEMMA ReadChannel2Step ==
    ASSUME IInv, ReadChannel2
    PROVE  LET k == CountRead(channel2, channel2Delay)
           IN  /\ k \in {0, dstSize} /\ k \in Nat /\ k % 2 = 0
               /\ k <= availableDelayedSamples(channel2)
               /\ channel2' = AfterRead(channel2, k)
               /\ SamplesRead(channel2, k) = Run(Gone(channel2) + 1, k)
               /\ ~delayRaised => k = dstSize
<1> DEFINE k == CountRead(channel2, channel2Delay)
<1>1. /\ dstSize \in Nat /\ dstSize <= Capacity /\ dstSize % 2 = 0
      /\ channel2Delay \in Nat /\ GoodBuffer(channel2)
  BY MixerDelays DEF IInv, TypeOK, LockInv, PassInv, EvenInv, ReadChannel2
<1>2. k = ReadCount(channel2, channel2Delay, dstSize)
  BY <1>1, CapacityAssumption DEF CountRead, MIN
<1>3. /\ k \in {0, dstSize} /\ k <= availableDelayedSamples(channel2)
      /\ ~delayRaised => k = dstSize
  BY <1>1, <1>2, ReadCountBounds DEF IInv, CheckInv, ReadChannel2
<1>4. channel2' = AfterRead(channel2, k)
  BY DEF ReadChannel2
<1>5. k \in Nat /\ k % 2 = 0
  BY <1>1, <1>3
<1>6. SamplesRead(channel2, k) = Run(Gone(channel2) + 1, k)
  BY <1>1, <1>3, <1>5, SamplesReadRun
<1> QED
  BY <1>3, <1>4, <1>5, <1>6

\* Reading an even count keeps a buffer's cursors on frame boundaries.
LEMMA ReadEven ==
    ASSUME NEW mb, GoodBuffer(mb), EvenBuffer(mb), NEW k \in Nat, k % 2 = 0
    PROVE  EvenBuffer(AfterRead(mb, k))
<1>1. /\ AfterRead(mb, k).readPos = mb.readPos + k
      /\ AfterRead(mb, k).writePos = mb.writePos
      /\ AfterRead(mb, k).totalSamplesWritten = mb.totalSamplesWritten
      /\ mb.readPos \in Nat
  BY DEF AfterRead, GoodBuffer, VDPAudioMixBuffer
<1>2. mb.readPos + k \in Nat
  BY <1>1
<1> QED
  BY <1>1, <1>2 DEF EvenBuffer

LEMMA ReadCapturedPreserves ==
    ASSUME IInv, ReadCaptured
    PROVE  IInv'
<1> PICK k \in {0, dstSize} :
             /\ k \in Nat /\ k % 2 = 0
             /\ k <= availableDelayedSamples(captured)
             /\ captured' = AfterRead(captured, k)
             /\ tempBuf1' = Run(Gone(captured) + 1, k)
             /\ ~delayRaised => k = dstSize
  BY ReadCapturedStep
<1>1. /\ GoodBuffer(captured') /\ EvenBuffer(captured')
      /\ Gone(captured') = Gone(captured) + k
  BY AfterReadGood, ReadEven DEF IInv, EvenInv
<1>2. TypeOK'
  BY <1>1 DEF IInv, TypeOK, ReadCaptured, delays, GoodBuffer
<1>3. GoodBuffer(captured)' /\ GoodBuffer(channel2)' /\ LockInv' /\ EvenInv'
  BY <1>1 DEF IInv, LockInv, EvenInv, ReadCaptured
<1>4. Gone(captured) \in Nat /\ dstSize \in Nat
  BY DEF IInv, TypeOK, GoodBuffer, HoldsNewestRun, VDPAudioMixBuffer, Gone
<1>5. \/ tempBuf1' = NoSamples
      \/ /\ tempBuf1' = Run(Gone(captured') - dstSize + 1, dstSize)
         /\ dstSize <= Gone(captured')
  <2>1. CASE k = 0
    BY <2>1 DEF Run, NoSamples
  <2>2. CASE k = dstSize
    <3>1. Gone(captured') - dstSize + 1 = Gone(captured) + 1
      BY <1>1, <1>4, <2>2
    <3> QED
      BY <1>1, <1>4, <2>2, <3>1
  <2> QED
    BY <2>1, <2>2
<1>6. PassInv'
  BY <1>5 DEF IInv, PassInv, ReadCaptured
<1>7. ~delayRaised => tempBuf1' = Run(Gone(captured') - dstSize + 1, dstSize)
  <2> SUFFICES ASSUME ~delayRaised
               PROVE  Gone(captured') - dstSize + 1 = Gone(captured) + 1
    OBVIOUS
  <2> QED
    BY <1>1, <1>4
<1>8. CheckInv'
  BY <1>7 DEF IInv, CheckInv, ReadCaptured, delays
<1> QED
  BY <1>2, <1>3, <1>6, <1>8 DEF IInv

LEMMA ReadChannel2Preserves ==
    ASSUME IInv, ReadChannel2
    PROVE  IInv'
<1> DEFINE k == CountRead(channel2, channel2Delay)
<1>1. /\ k \in Nat /\ k % 2 = 0 /\ k <= availableDelayedSamples(channel2)
      /\ channel2' = AfterRead(channel2, k)
  BY ReadChannel2Step
<1> HIDE DEF k
<1>2. GoodBuffer(channel2') /\ EvenBuffer(channel2')
  BY <1>1, AfterReadGood, ReadEven DEF IInv, EvenInv
<1>3. TypeOK'
  BY <1>2 DEF IInv, TypeOK, ReadChannel2, delays, GoodBuffer
<1>4. GoodBuffer(captured)' /\ GoodBuffer(channel2)' /\ LockInv' /\ EvenInv'
  BY <1>2 DEF IInv, LockInv, EvenInv, ReadChannel2
<1>5. PassInv' /\ CheckInv'
  BY DEF PassInv, CheckInv, ReadChannel2
<1> QED
  BY <1>3, <1>4, <1>5 DEF IInv

(***************************************************************************)
(* The theorems.                                                           *)
(***************************************************************************)

LEMMA NextPreserves == IInv /\ [Next]_vars => IInv'
<1> SUFFICES ASSUME IInv, [Next]_vars PROVE IInv'
  OBVIOUS
<1>1. CASE Capture
  BY <1>1, CapturePreserves DEF Capture
<1>2. CASE Configure
  BY <1>2, SetCapturedDelayPreserves, SetChannel2DelayPreserves DEF Configure
<1>3. CASE \E n \in RequestSizes : addChannel2(n)
  BY <1>3, AddChannel2Preserves
<1>4. CASE Consume
  BY <1>4, CheckCapturedPreserves, CheckChannel2Preserves,
     ReadCapturedPreserves, ReadChannel2Preserves DEF Consume
<1>5. CASE UNCHANGED vars
  BY <1>5 DEF vars, IInv, TypeOK, LockInv, EvenInv, PassInv, CheckInv
<1> QED
  BY <1>1, <1>2, <1>3, <1>4, <1>5 DEF Next

\* The invariant of the mixer holds in every reachable state.
THEOREM Invariance == Spec => []IInv
<1>1. Init => IInv
  BY InitIInv
<1>2. IInv /\ [Next]_vars => IInv'
  BY NextPreserves
<1> QED
  BY <1>1, <1>2, PTL DEF Spec

\* The mixer's variables keep their types: no cursor leaves sampleData, whatever
\* sizes the capture device and the driver deliver.
THEOREM TypeCorrect == Spec => []TypeOK
<1>1. IInv => TypeOK
  BY DEF IInv
<1> QED
  BY <1>1, Invariance, PTL

\* Each delay buffer always holds the newest run of its stream, in order: the
\* slide in appendToMixBuffer never reorders, repeats or skips a kept sample.
THEOREM NewestRun == Spec => []BuffersHoldNewestRun
<1>1. IInv => BuffersHoldNewestRun
  BY DEF IInv, BuffersHoldNewestRun, Buffers, GoodBuffer
<1> QED
  BY <1>1, Invariance, PTL

\* Left stays with left in both channels, through overflows and lost blocks.
THEOREM Aligned == Spec => []StereoAligned
<1>1. ASSUME NEW mb, GoodBuffer(mb), EvenBuffer(mb)
      PROVE  Gone(mb) % 2 = 0
  <2>1. /\ mb.readPos \in Nat /\ mb.writePos \in Nat
        /\ mb.totalSamplesWritten \in Nat
    BY <1>1 DEF GoodBuffer, VDPAudioMixBuffer
  <2> QED
    BY <1>1, <2>1 DEF EvenBuffer, Gone
<1>2. IInv => StereoAligned
  BY <1>1 DEF IInv, EvenInv, StereoAligned, Buffers
<1> QED
  BY <1>2, Invariance, PTL

\* A pass takes a block from one channel alone only if a delay was raised while
\* it held the lock.
THEOREM LossOnlyOnRaise == Spec => LossOnlyAfterRaise
<1>1. IInv /\ LosesBlock => delayRaised
  <2> SUFFICES ASSUME IInv, ReadChannel2, ~delayRaised
               PROVE  DOMAIN tempBuf1 =
                 DOMAIN SamplesRead(channel2, CountRead(channel2, channel2Delay))
    BY DEF LosesBlock
  <2>1. tempBuf1 = Run(Gone(captured) - dstSize + 1, dstSize)
    BY DEF IInv, CheckInv, ReadChannel2
  <2>2. CountRead(channel2, channel2Delay) = dstSize
    BY ReadChannel2Step
  <2> QED
    BY <2>1, <2>2 DEF Run, SamplesRead
<1> QED
  BY <1>1, Invariance, PTL DEF LossOnlyAfterRaise

(***************************************************************************)
(* The refinement of MixedStream.                                          *)
(***************************************************************************)

\* The counters of a good buffer.
LEMMA BufferFacts ==
    ASSUME NEW mb, GoodBuffer(mb)
    PROVE  /\ Gone(mb) \in Nat /\ mb.totalSamplesWritten \in Nat
           /\ mb.totalSamplesWritten - Gone(mb) = availableDelayedSamples(mb)
           /\ mb.writePos - mb.readPos = availableDelayedSamples(mb)
           /\ availableDelayedSamples(mb) \in 0 .. Capacity
           /\ Capacity \in Nat
BY CapacityAssumption DEF GoodBuffer, VDPAudioMixBuffer, HoldsNewestRun, Gone,
     availableDelayedSamples

\* An append as the abstract Enqueue sees it.
LEMMA AppendSheds ==
    ASSUME NEW mb, GoodBuffer(mb), NEW n \in Nat, Accepts(n),
           NEW res, res = appendToMixBuffer(mb, n)
    PROVE  \E shed \in 0 .. Capacity :
             /\ Gone(res) = Gone(mb) + shed
             /\ res.totalSamplesWritten = mb.totalSamplesWritten + n
             /\ shed <= n
             /\ shed <= mb.totalSamplesWritten - Gone(mb)
             /\ shed > 0 => mb.totalSamplesWritten - Gone(mb) + 2 * n > Capacity + 1
             /\ mb.totalSamplesWritten - Gone(mb) - shed + n <= Capacity
<1> DEFINE shed == Gone(res) - Gone(mb)
<1>1. /\ GoodBuffer(res)
      /\ res.totalSamplesWritten = mb.totalSamplesWritten + n
      /\ Gone(res) >= Gone(mb)
      /\ Gone(res) > Gone(mb) =>
           /\ Gone(res) - Gone(mb) <= n
           /\ Gone(res) <= mb.totalSamplesWritten
           /\ mb.writePos - mb.readPos + 2 * n > Capacity + 1
  BY AppendGood
<1>2. /\ Gone(mb) \in Nat /\ Gone(res) \in Nat
      /\ mb.totalSamplesWritten \in Nat
      /\ mb.totalSamplesWritten - Gone(mb) = mb.writePos - mb.readPos
      /\ mb.totalSamplesWritten - Gone(mb) \in 0 .. Capacity
      /\ res.totalSamplesWritten - Gone(res) \in 0 .. Capacity
      /\ Capacity \in Nat
  BY <1>1, BufferFacts
<1>3. /\ shed \in 0 .. Capacity /\ shed <= n
      /\ Gone(res) = Gone(mb) + shed
  BY <1>1, <1>2 DEF Accepts
<1>4. /\ shed <= mb.totalSamplesWritten - Gone(mb)
      /\ shed > 0 => mb.totalSamplesWritten - Gone(mb) + 2 * n > Capacity + 1
      /\ mb.totalSamplesWritten - Gone(mb) - shed + n <= Capacity
  BY <1>1, <1>2
<1> QED
  BY <1>1, <1>3, <1>4

LEMMA InitRefines == Init => Mixed!Init
<1> SUFFICES ASSUME Init PROVE Mixed!Init
  OBVIOUS
<1>1. Gone(captured) = 0 /\ Gone(channel2) = 0 /\ InFlight = 0
  BY InitBufferGood DEF Init, InFlight
<1>2. captured.totalSamplesWritten = 0 /\ channel2.totalSamplesWritten = 0
  BY DEF Init, initMixBuffer
<1> QED
  BY <1>1, <1>2 DEF Init, Mixed!Init, Mixed!Channels, queueWritten, queueNext,
       NoBlock

\* The samples in flight have left the captured buffer.
LEMMA InFlightFacts ==
    ASSUME IInv
    PROVE  /\ InFlight \in Nat /\ InFlight <= Gone(captured)
           /\ pc # "read2" => InFlight = 0
<1>1. Gone(captured) \in Nat
  BY BufferFacts DEF IInv
<1> QED
  BY <1>1 DEF IInv, TypeOK, PassInv, InFlight

LEMMA CaptureRefines ==
    ASSUME IInv, NEW n \in CaptureSizes, receivedBuffer(n)
    PROVE  Mixed!Enqueue("captured") \/ UNCHANGED Mixed!vars
<1>1. n \in Nat /\ GoodBuffer(captured)
      /\ captured' = appendToMixBuffer(captured, n)
  BY MixerSizes DEF receivedBuffer, IInv
<1>2. InFlight = 0 /\ InFlight' = 0 /\ channel2' = channel2 /\ block' = block
  BY InFlightFacts DEF receivedBuffer, IInv, LockInv, InFlight
<1>3. CASE ~Accepts(n)
  <2>1. captured' = captured
    BY <1>1, <1>3 DEF appendToMixBuffer
  <2> QED
    BY <1>2, <2>1 DEF Mixed!vars, queueWritten, queueNext
<1>4. CASE Accepts(n)
  <2> PICK shed \in 0 .. Capacity :
             /\ Gone(captured') = Gone(captured) + shed
             /\ captured'.totalSamplesWritten = captured.totalSamplesWritten + n
             /\ shed <= n
             /\ shed <= captured.totalSamplesWritten - Gone(captured)
             /\ shed > 0 => captured.totalSamplesWritten - Gone(captured)
                              + 2 * n > Capacity + 1
             /\ captured.totalSamplesWritten - Gone(captured) - shed + n
                  <= Capacity
    BY <1>1, <1>4, AppendSheds
  <2>1. /\ Gone(captured) \in Nat /\ captured.totalSamplesWritten \in Nat
        /\ Capacity \in Nat
    BY <1>1, BufferFacts
  <2>2a. queueWritten' = [queueWritten EXCEPT !["captured"] = @ + n]
    BY <1>1, <1>2, <2>1 DEF queueWritten
  <2>2b. /\ Gone(captured) - InFlight + 1 = Gone(captured) + 1
         /\ Gone(captured') - InFlight' + 1 = Gone(captured) + 1 + shed
    BY <1>2, <2>1
  <2>2. queueNext' = [queueNext EXCEPT !["captured"] = @ + shed]
    BY <1>2, <2>2b DEF queueNext
  <2>3. Mixed!Backlog("captured")
          = captured.totalSamplesWritten - Gone(captured)
    BY <1>2, <2>1 DEF Mixed!Backlog, queueWritten, queueNext
  <2>4. n \in 1 .. Capacity
    BY <1>1, <1>4, <2>1 DEF Accepts
  <2> QED
    BY <1>2, <2>2, <2>2a, <2>3, <2>4 DEF Mixed!Enqueue
<1> QED
  BY <1>3, <1>4

LEMMA AddChannel2Refines ==
    ASSUME IInv, NEW m \in RequestSizes, addChannel2(m)
    PROVE  Mixed!Enqueue("channel2") \/ UNCHANGED Mixed!vars
<1> DEFINE n == MIN(m, Capacity)
<1>1. n \in Nat /\ GoodBuffer(channel2)
      /\ channel2' = appendToMixBuffer(channel2, n)
  BY MixerSizes, CapacityAssumption DEF addChannel2, IInv, MIN
<1> HIDE DEF n
<1>2. InFlight = 0 /\ InFlight' = 0 /\ captured' = captured /\ block' = block
  BY InFlightFacts DEF addChannel2, IInv, PassInv, InFlight
<1>3. CASE ~Accepts(n)
  <2>1. channel2' = channel2
    BY <1>1, <1>3 DEF appendToMixBuffer
  <2> QED
    BY <1>2, <2>1 DEF Mixed!vars, queueWritten, queueNext
<1>4. CASE Accepts(n)
  <2> PICK shed \in 0 .. Capacity :
             /\ Gone(channel2') = Gone(channel2) + shed
             /\ channel2'.totalSamplesWritten = channel2.totalSamplesWritten + n
             /\ shed <= n
             /\ shed <= channel2.totalSamplesWritten - Gone(channel2)
             /\ shed > 0 => channel2.totalSamplesWritten - Gone(channel2)
                              + 2 * n > Capacity + 1
             /\ channel2.totalSamplesWritten - Gone(channel2) - shed + n
                  <= Capacity
    BY <1>1, <1>4, AppendSheds
  <2>1. /\ Gone(channel2) \in Nat /\ channel2.totalSamplesWritten \in Nat
        /\ Capacity \in Nat
    BY <1>1, BufferFacts
  <2>2a. queueWritten' = [queueWritten EXCEPT !["channel2"] = @ + n]
    BY <1>1, <1>2, <2>1 DEF queueWritten
  <2>2b. Gone(channel2') + 1 = Gone(channel2) + 1 + shed
    BY <2>1
  <2>2. queueNext' = [queueNext EXCEPT !["channel2"] = @ + shed]
    BY <1>2, <2>1, <2>2b DEF queueNext
  <2>3. Mixed!Backlog("channel2")
          = channel2.totalSamplesWritten - Gone(channel2)
    BY <1>2, <2>1 DEF Mixed!Backlog, queueWritten, queueNext
  <2>4. n \in 1 .. Capacity
    BY <1>1, <1>4, <2>1 DEF Accepts
  <2> QED
    BY <1>2, <2>2, <2>2a, <2>3, <2>4 DEF Mixed!Enqueue
<1> QED
  BY <1>3, <1>4

\* A check either goes on, unseen by the queues, or hands out an empty block.
LEMMA ChecksRefine ==
    ASSUME IInv, CheckCaptured \/ CheckChannel2
    PROVE  Mixed!Deliver \/ UNCHANGED Mixed!vars
<1>1. captured' = captured /\ channel2' = channel2
  BY DEF CheckCaptured, CheckChannel2, buffers
<1>2. tempBuf1' = tempBuf1 /\ dstSize' = dstSize
  BY DEF CheckCaptured, CheckChannel2
<1>3. queueWritten' = queueWritten /\ queueNext' = queueNext
  BY <1>1, <1>2 DEF queueWritten, queueNext, InFlight
<1>4. CASE block' = block
  BY <1>3, <1>4 DEF Mixed!vars
<1>5. CASE block' = NoBlock
  <2>1. /\ Gone(captured) \in Nat /\ Gone(channel2) \in Nat
        /\ captured.totalSamplesWritten - Gone(captured) \in Nat
        /\ channel2.totalSamplesWritten - Gone(channel2) \in Nat
        /\ captured.totalSamplesWritten \in Nat
        /\ channel2.totalSamplesWritten \in Nat
        /\ Capacity \in Nat
    BY BufferFacts DEF IInv
  <2>2. InFlight = 0
    BY InFlightFacts DEF CheckCaptured, CheckChannel2
  <2>3. \A c \in Mixed!Channels : 0 <= Mixed!Backlog(c)
    BY <2>1, <2>2 DEF Mixed!Channels, Mixed!Backlog, queueWritten, queueNext
  <2>4. queueNext = [c \in Mixed!Channels |-> queueNext[c] + 0]
    BY <2>1, <2>2 DEF Mixed!Channels, queueNext
  <2>5. block' = [i \in 0 .. 0 - 1 |->
                    <<queueNext["captured"] + i, queueNext["channel2"] + i>>]
    BY <1>5 DEF NoBlock
  <2>6. 0 \in 0 .. Capacity
    BY <2>1
  <2> QED
    BY <1>3, <2>3, <2>4, <2>5, <2>6 DEF Mixed!Deliver
<1>6. block' = block \/ block' = NoBlock
  BY DEF CheckCaptured, CheckChannel2, GiveUp
<1> QED
  BY <1>4, <1>5, <1>6

\* What ReadCaptured takes is still queued: the queues do not move.
LEMMA ReadCapturedRefines ==
    ASSUME IInv, ReadCaptured
    PROVE  UNCHANGED Mixed!vars
<1> PICK k \in {0, dstSize} :
             /\ k \in Nat /\ k % 2 = 0
             /\ k <= availableDelayedSamples(captured)
             /\ captured' = AfterRead(captured, k)
             /\ tempBuf1' = Run(Gone(captured) + 1, k)
             /\ ~delayRaised => k = dstSize
  BY ReadCapturedStep
<1>1. /\ Gone(captured') = Gone(captured) + k
      /\ captured'.totalSamplesWritten = captured.totalSamplesWritten
  BY AfterReadGood DEF IInv
<1>2. /\ channel2' = channel2 /\ block' = block /\ dstSize' = dstSize
      /\ dstSize \in Nat /\ Gone(captured) \in Nat /\ InFlight = 0
  BY BufferFacts, InFlightFacts DEF ReadCaptured, IInv, TypeOK
<1>3. InFlight' = k
  <2>1. CASE k = 0
    BY <2>1 DEF Run, NoSamples, InFlight
  <2>2. CASE k # 0
    <3>1. tempBuf1' # NoSamples
      BY <1>2, <2>2, RunLength
    <3> QED
      BY <1>2, <2>2, <3>1 DEF InFlight
  <2> QED
    BY <2>1, <2>2
<1>4. Gone(captured') - InFlight' + 1 = Gone(captured) - InFlight + 1
  BY <1>1, <1>2, <1>3
<1>5. queueNext' = queueNext /\ queueWritten' = queueWritten
  BY <1>1, <1>2, <1>4 DEF queueNext, queueWritten
<1> QED
  BY <1>2, <1>5 DEF Mixed!vars

\* The end of a pass: a block of both channels, nothing, or one channel's loss.
LEMMA ReadChannel2Refines ==
    ASSUME IInv, ReadChannel2
    PROVE  \/ Mixed!Deliver
           \/ \E c \in Mixed!Channels : Mixed!LoseBlock(c)
<1> DEFINE k == CountRead(channel2, channel2Delay)
           f1 == queueNext["captured"]
           f2 == queueNext["channel2"]
<1>1. /\ k \in {0, dstSize} /\ k \in Nat
      /\ k <= availableDelayedSamples(channel2)
      /\ channel2' = AfterRead(channel2, k)
      /\ SamplesRead(channel2, k) = Run(Gone(channel2) + 1, k)
  BY ReadChannel2Step
<1>2. block' = [i \in DOMAIN tempBuf1 \cap 0 .. k - 1 |->
                  <<tempBuf1[i], channel2.sampleData[channel2.readPos + i]>>]
  BY DEF ReadChannel2
<1>2a. \A i \in 0 .. k - 1 :
         channel2.sampleData[channel2.readPos + i] = Gone(channel2) + 1 + i
  BY <1>1 DEF SamplesRead, Run
<1> HIDE DEF k
<1>3. /\ Gone(channel2') = Gone(channel2) + k
      /\ channel2'.totalSamplesWritten = channel2.totalSamplesWritten
  BY <1>1, AfterReadGood DEF IInv
<1>4. /\ Gone(captured) \in Nat /\ Gone(channel2) \in Nat
      /\ captured.totalSamplesWritten \in Nat
      /\ channel2.totalSamplesWritten \in Nat
      /\ captured.totalSamplesWritten - Gone(captured) \in Nat
      /\ channel2.totalSamplesWritten - Gone(channel2)
           = availableDelayedSamples(channel2)
      /\ Capacity \in Nat
      /\ dstSize \in Nat /\ dstSize <= Capacity
      /\ InFlight \in Nat /\ InFlight <= Gone(captured)
  BY BufferFacts, InFlightFacts
     DEF IInv, TypeOK, PassInv, LockInv, ReadChannel2
<1>5. InFlight' = 0 /\ captured' = captured
  BY DEF ReadChannel2, InFlight
<1>6. tempBuf1 = Run(f1, InFlight) /\ InFlight \in {0, dstSize}
  <2>1. CASE tempBuf1 = NoSamples
    BY <2>1 DEF InFlight, Run, NoSamples
  <2>2. CASE tempBuf1 # NoSamples
    <3>1. tempBuf1 = Run(Gone(captured) - dstSize + 1, dstSize)
      BY <2>2 DEF IInv, PassInv, ReadChannel2
    <3>2. InFlight = dstSize
      BY <2>2 DEF InFlight
    <3> QED
      BY <3>1, <3>2 DEF queueNext
  <2> QED
    BY <2>1, <2>2
<1>7. /\ f1 = Gone(captured) - InFlight + 1 /\ f2 = Gone(channel2) + 1
      /\ f1 \in Nat /\ f2 \in Nat
  BY <1>4 DEF queueNext
<1>7a. queueNext = [c \in {"captured", "channel2"} |->
           IF c = "captured" THEN f1 ELSE f2]
  BY DEF queueNext
<1>8. /\ queueWritten' = queueWritten
      /\ queueNext' = [c \in {"captured", "channel2"} |->
           IF c = "captured" THEN f1 + InFlight ELSE f2 + k]
  <2>1. queueWritten' = queueWritten
    BY <1>3, <1>5 DEF queueWritten
  <2>2. /\ Gone(captured') - InFlight' + 1 = f1 + InFlight
        /\ Gone(channel2') + 1 = f2 + k
    BY <1>1, <1>3, <1>4, <1>5, <1>7
  <2> QED
    BY <2>1, <2>2 DEF queueNext
<1>9. /\ Mixed!Backlog("captured")
           = captured.totalSamplesWritten - Gone(captured) + InFlight
      /\ Mixed!Backlog("channel2") = availableDelayedSamples(channel2)
      /\ InFlight <= Mixed!Backlog("captured")
      /\ k <= Mixed!Backlog("channel2")
  BY <1>1, <1>4, <1>7 DEF Mixed!Backlog, queueWritten
<1>10. /\ k \in 0 .. Capacity /\ InFlight \in 0 .. Capacity
       /\ k # 0 => k \in 1 .. Capacity
       /\ InFlight # 0 => InFlight \in 1 .. Capacity
  BY <1>1, <1>4, <1>6
<1> HIDE DEF f1, f2
<1>11. CASE InFlight = k
  <2>1. block' = [i \in 0 .. k - 1 |-> <<f1 + i, f2 + i>>]
    <3>1. DOMAIN tempBuf1 \cap 0 .. k - 1 = 0 .. k - 1
      BY <1>6, <1>11 DEF Run
    <3>2. ASSUME NEW i \in 0 .. k - 1
          PROVE  /\ tempBuf1[i] = f1 + i
                 /\ channel2.sampleData[channel2.readPos + i] = f2 + i
      BY <1>2a, <1>6, <1>7, <1>11 DEF Run
    <3> QED
      BY <1>2, <3>1, <3>2
  <2>2. queueNext' = [c \in Mixed!Channels |-> queueNext[c] + k]
    BY <1>8, <1>11 DEF Mixed!Channels, f1, f2
  <2>3. \A c \in Mixed!Channels : k <= Mixed!Backlog(c)
    BY <1>9, <1>11 DEF Mixed!Channels
  <2> QED
    BY <1>8, <1>10, <2>1, <2>2, <2>3 DEF Mixed!Deliver, f1, f2
<1>12. CASE InFlight # k
  <2>1. block' = NoBlock
    <3>1. DOMAIN tempBuf1 \cap 0 .. k - 1 = 0 .. -1
      BY <1>1, <1>6, <1>12 DEF Run
    <3> QED
      BY <1>2, <3>1 DEF NoBlock
  <2>2. CASE k = 0
    <3>1. queueNext' = [queueNext EXCEPT !["captured"] = @ + InFlight]
      BY <1>1, <1>4, <1>7, <1>7a, <1>8, <2>2
    <3> QED
      BY <1>8, <1>9, <1>10, <1>12, <2>1, <2>2, <3>1
         DEF Mixed!LoseBlock, Mixed!Channels, NoBlock
  <2>3. CASE InFlight = 0
    <3>1. queueNext' = [queueNext EXCEPT !["channel2"] = @ + k]
      BY <1>1, <1>4, <1>7, <1>7a, <1>8, <2>3
    <3> QED
      BY <1>8, <1>9, <1>10, <1>12, <2>1, <2>3, <3>1
         DEF Mixed!LoseBlock, Mixed!Channels, NoBlock
  <2> QED
    BY <1>1, <1>6, <1>12, <2>2, <2>3
<1> QED
  BY <1>11, <1>12

LEMMA NextRefines == IInv /\ [Next]_vars => [Mixed!Next]_(Mixed!vars)
<1> SUFFICES ASSUME IInv, [Next]_vars PROVE [Mixed!Next]_(Mixed!vars)
  OBVIOUS
<1>1. CASE Capture
  BY <1>1, CaptureRefines DEF Capture, Mixed!Next, Mixed!Channels
<1>2. CASE Configure
  <2>1. /\ captured' = captured /\ channel2' = channel2 /\ block' = block
        /\ tempBuf1' = tempBuf1 /\ dstSize' = dstSize
    BY <1>2 DEF Configure, SetCapturedDelay, SetChannel2Delay, buffers
  <2> QED
    BY <2>1 DEF Mixed!vars, queueWritten, queueNext, InFlight
<1>3. CASE \E n \in RequestSizes : addChannel2(n)
  BY <1>3, AddChannel2Refines DEF Mixed!Next, Mixed!Channels
<1>4. CASE Consume
  BY <1>4, ChecksRefine, ReadCapturedRefines, ReadChannel2Refines
     DEF Consume, Mixed!Next
<1>5. CASE UNCHANGED vars
  BY <1>5 DEF vars, Mixed!vars, queueWritten, queueNext, InFlight
<1> QED
  BY <1>1, <1>2, <1>3, <1>4, <1>5 DEF Next

\* The mixer implements the two drop-oldest queues of MixedStream: what a reader of
\* VDPAudioMixer.h may rely on, buffers, lock and threads hidden.
THEOREM Refinement == Spec => ImplementsMixedStream
<1>1. Init => Mixed!Init
  BY InitRefines
<1>2. IInv /\ [Next]_vars => [Mixed!Next]_(Mixed!vars)
  BY NextRefines
<1> QED
  BY <1>1, <1>2, Invariance, PTL DEF Spec, ImplementsMixedStream, Mixed!Spec

(***************************************************************************)
(* The ring.  Whatever the two processes do to the segment they share, the *)
(* writer position is a cell of data[] and the producer's copies stay      *)
(* inside it, but for the one whose length is torn.  When the calls are    *)
(* kept apart, so do the consumer's.                                       *)
(*                                                                         *)
(* What one side computes is in its registers while the other side may     *)
(* clear the segment, so the invariant says of each place in a call what   *)
(* its registers still mean for a segment as it was and for a cleared one. *)
(***************************************************************************)


Data == [Slots -> 0 .. MaxWritten]

Segment == [magic : BOOLEAN, msgId : Nat, bufferSize : {0, BufferSize},
            writerPosition : Slots, readerPosition : Slots,
            unconsumed : Int, data : Data]

WriterAt == {"off", "clear", "header", "idle", "reset", "space", "copy", "move",
             "wrap", "advance", "load", "store", "publish"}
ReaderAt == {"off", "clear", "header", "idle", "begin", "skip", "space", "copy",
             "advance", "wrap", "load", "store", "return"}

Writer == [pc : WriterAt, count : Nat, n1 : Int, written : Nat, load : Int,
           size : {0, BufferSize}, position : Slots, todo : SUBSET Fields]
Reader == [pc : ReaderAt, count : Nat, n1 : Int, consumed : Nat, load : Int,
           size : {0, BufferSize}, position : Slots, todo : SUBSET Fields,
           copied : Nat, buf : [0 .. MaxCount - 1 -> 0 .. MaxWritten]]

(* The floats still to be written are within the bound, and a length that  *)
(* was copied is none that came out negative.                              *)
TypeInv ==
    /\ shm \in Segment /\ w \in Writer /\ r \in Reader
    /\ written \in 0 .. MaxWritten
    /\ w.pc \in {"reset", "space", "move", "wrap"} => written + w.count <= MaxWritten
    /\ w.pc = "copy" => written + (w.n1 + w.count) <= MaxWritten
    /\ w.pc \in {"move", "advance"} => w.load \in Slots /\ w.n1 \in Nat
    /\ r.pc = "advance" => r.load \in Slots /\ r.n1 \in Nat

(* What is left of a block fits from the writer position on: before the    *)
(* copy because it was cut there, after it because the position is zero,   *)
(* or the segment was cleared and then the whole block fits.  Only another *)
(* clearing comes between two looks at the position.                       *)
Fits(position, n1, count) ==
    /\ n1 + count <= BufferSize /\ position + n1 <= BufferSize
    /\ count > 0 => position = 0 \/ position + n1 = BufferSize
WriteFits ==
    /\ w.pc \in {"reset", "space"} => w.count <= BufferSize
    /\ w.pc = "space" => shm.writerPosition \in {0, w.position}
    /\ w.pc = "copy" /\ w.n1 >= 0 => Fits(shm.writerPosition, w.n1, w.count)
    /\ w.pc = "move" => shm.writerPosition \in {0, w.load} /\ Fits(w.load, w.n1, w.count)
    /\ w.pc = "wrap" => shm.writerPosition + w.count <= BufferSize

(* When calls are kept apart the stores of a clearing are made at once, a  *)
(* cleared segment has its positions at zero, and what was loaded is still *)
(* so.                                                                     *)
Tidy ==
    /\ shm.bufferSize = 0 => shm.writerPosition = 0 /\ shm.readerPosition = 0
    /\ w.pc = "space" => w.size = shm.bufferSize /\ w.position = shm.writerPosition
    /\ r.pc = "space" => r.size = shm.bufferSize /\ r.position = shm.readerPosition
    /\ w.pc = "clear" => w.todo = Fields
    /\ r.pc = "clear" => r.todo = Fields
    /\ w.pc = "header" => w.todo = {"magic", "bufferSize"}
    /\ r.pc = "header" => r.todo = {"magic", "bufferSize"}
    /\ w.pc = "reset" => w.todo = Positions

(* The same of a read, if no write comes in between; and what is left fits *)
(* behind what was copied to the consumer's buffer.                        *)
ReadFits ==
    /\ r.pc \in {"skip", "space"} => r.count <= MaxCount /\ r.copied = 0
    /\ r.pc \in {"copy", "advance"} =>
         /\ r.n1 >= 0 /\ r.n1 + r.count <= MaxCount
         /\ shm.readerPosition + r.n1 <= BufferSize
         /\ r.count > 0 => shm.readerPosition + r.n1 >= shm.bufferSize
    /\ r.pc = "copy" => r.copied = 0
    /\ r.pc = "advance" => r.load = shm.readerPosition /\ r.copied = r.n1
    /\ r.pc = "wrap" => shm.readerPosition = 0 /\ r.copied + r.count <= MaxCount

RingInv == TypeInv /\ WriteFits /\ (Exclusive => Tidy /\ ReadFits)

-----------------------------------------------------------------------------
(* The operators the steps are built from.                                 *)

LEMMA AdvancedFacts ==
  ASSUME TypeInv, NEW p \in Nat, NEW n \in Nat
  PROVE  /\ Advanced(p, n) \in Slots
         /\ Advanced(p, n) \in {0, p + n}
         /\ p + n >= shm.bufferSize => Advanced(p, n) = 0
         /\ shm.bufferSize = 0 => Advanced(p, n) = 0
  BY RingConstants DEF Advanced, Unsigned, TypeInv, Segment, Slots

LEMMA FirstChunkFacts ==
  ASSUME NEW count \in Nat, NEW size \in {0, BufferSize}, NEW pos \in Slots
  PROVE  LET n1 == FirstChunk(count, size, pos)
         IN /\ n1 \in Int /\ n1 <= count
            /\ n1 >= 0 => pos + n1 <= BufferSize
            /\ n1 < count => pos + n1 = size
            /\ n1 >= 0 /\ n1 < count => pos = 0 \/ pos + n1 = BufferSize
            /\ (size = 0 => pos = 0) => n1 >= 0
<1> DEFINE n1 == FirstChunk(count, size, pos)
<1>1. count \in Nat /\ pos \in Nat /\ pos < BufferSize /\ BufferSize \in Nat /\ (size = 0 \/ size = BufferSize)
  BY RingConstants DEF Slots
<1>2. n1 = IF count <= size - pos THEN count ELSE size - pos
  BY DEF FirstChunk, MIN
<1> HIDE DEF n1
<1>3. /\ n1 \in Int /\ n1 <= count /\ (n1 >= 0 => pos + n1 <= BufferSize) /\ (n1 < count => pos + n1 = size)
  BY <1>1, <1>2
<1>4. (n1 >= 0 /\ n1 < count => pos = 0 \/ pos + n1 = BufferSize) /\ ((size = 0 => pos = 0) => n1 >= 0)
  BY <1>1, <1>2
<1> QED  BY <1>3, <1>4 DEF n1

(* Zeros stored to any of its fields leave a segment, and what the others  *)
(* hold.                                                                   *)
LEMMA ZeroedIs ==
  ASSUME TypeInv, NEW fields
  PROVE  /\ Zeroed(fields) \in Segment
         /\ Zeroed(fields).writerPosition = IF "writerPosition" \in fields THEN 0 ELSE shm.writerPosition
         /\ Zeroed(fields).readerPosition = IF "readerPosition" \in fields THEN 0 ELSE shm.readerPosition
         /\ Zeroed(fields).unconsumed = IF "unconsumed" \in fields THEN 0 ELSE shm.unconsumed
         /\ Zeroed(fields).bufferSize = IF "bufferSize" \in fields THEN 0 ELSE shm.bufferSize
<1>1. 0 \in Slots /\ [i \in Slots |-> 0] \in Data
  BY RingConstants DEF Slots, Data
<1> QED  BY <1>1 DEF Zeroed, TypeInv, Segment

LEMMA StoresAre ==
  ASSUME NEW todo \in SUBSET Fields, NEW fields \in Stores(todo)
  PROVE  fields \subseteq todo /\ todo \ fields \in SUBSET Fields /\ (Exclusive => fields = todo)
  BY DEF Stores

LEMMA StoredType ==
  ASSUME TypeInv, NEW n \in Nat, written + n <= MaxWritten
  PROVE  Stored(n) \in Data
  BY RingConstants, SMTT(30) DEF Stored, TypeInv, Segment, Slots, Data

LEMMA FetchedType ==
  ASSUME TypeInv, NEW n \in Nat
  PROVE  Fetched(n) \in [0 .. MaxCount - 1 -> 0 .. MaxWritten]
<1>1. shm.data \in [Slots -> 0 .. MaxWritten] /\ 0 \in 0 .. MaxWritten
  BY RingConstants DEF TypeInv, Segment, Data
<1>2. r.buf \in [0 .. MaxCount - 1 -> 0 .. MaxWritten]
  BY DEF TypeInv, Reader
<1> QED  BY <1>1, <1>2 DEF Fetched

-----------------------------------------------------------------------------
(* The types, and what a step leaves in the registers.                     *)

LEMMA InitTypes == RingInit => TypeInv
  BY RingConstants
  DEF RingInit, TypeInv, Segment, Data, Slots, Writer, Reader, WriterAt, ReaderAt

LEMMA WriterTypes ==
  ASSUME TypeInv, Write
  PROVE  TypeInv'
<1> USE DEF WriterStep, onlyWriter, WriterAt
<1>1. CASE \E count \in BlockSizes : WriteBegin(count)
  <2>1. PICK count \in BlockSizes : WriteBegin(count)
    BY <1>1
  <2>2. CASE Unsigned(shm.unconsumed) >= Unsigned(shm.bufferSize - 1)
    <3>1. w' = [pc |-> "reset", count |-> count, n1 |-> w.n1, written |-> 0, load |-> w.load,
                size |-> w.size, position |-> w.position, todo |-> Positions]
      BY <2>1, <2>2 DEF WriteBegin, TypeInv, Writer
    <3>2. w' \in Writer /\ w'.pc = "reset" /\ w'.count = count
      BY <3>1, RingConstants DEF TypeInv, Writer, Fields, Positions
    <3> QED  BY <2>1, <3>2 DEF WriteBegin, TypeInv
  <2>3. CASE ~(Unsigned(shm.unconsumed) >= Unsigned(shm.bufferSize - 1))
    <3>1. w' = [pc |-> "space", count |-> count, n1 |-> w.n1, written |-> 0, load |-> w.load,
                size |-> shm.bufferSize, position |-> shm.writerPosition, todo |-> w.todo]
      BY <2>1, <2>3 DEF WriteBegin, TypeInv, Writer
    <3>2. w' \in Writer /\ w'.pc = "space" /\ w'.count = count
      BY <3>1, RingConstants DEF TypeInv, Writer, Segment
    <3> QED  BY <2>1, <3>2 DEF WriteBegin, TypeInv
  <2> QED  BY <2>2, <2>3
<1>2. CASE ResetRing
  <2>1. PICK fields \in Stores(w.todo) :
          /\ shm' = Zeroed(fields)
          /\ w' = IF fields = w.todo
                  THEN [w EXCEPT !.pc = "space", !.todo = {}, !.size = shm'.bufferSize,
                                 !.position = shm'.writerPosition]
                  ELSE [w EXCEPT !.todo = @ \ fields]
    BY <1>2 DEF ResetRing
  <2>2. shm' \in Segment
    BY <2>1, ZeroedIs
  <2>3. w' \in Writer /\ w'.pc \in {"reset", "space"} /\ w'.count = w.count
    <3>1. w.todo \in SUBSET Fields /\ w.todo \ fields \in SUBSET Fields /\ w.pc = "reset"
      BY <1>2, StoresAre DEF TypeInv, Writer, ResetRing
    <3>2. shm'.bufferSize \in {0, BufferSize} /\ shm'.writerPosition \in Slots
      BY <2>2 DEF Segment
    <3> QED  BY <2>1, <3>1, <3>2 DEF TypeInv, Writer
  <2> QED  BY <1>2, <2>2, <2>3 DEF ResetRing, TypeInv
<1>3. CASE WriteSpace
  <2>1. PICK size \in {w.size, shm.bufferSize}, pos \in {w.position, shm.writerPosition} :
          w' = [w EXCEPT !.pc = "copy", !.n1 = FirstChunk(w.count, size, pos),
                         !.count = @ - FirstChunk(w.count, size, pos)]
    BY <1>3 DEF WriteSpace
  <2> DEFINE n1 == FirstChunk(w.count, size, pos)
  <2>2. n1 \in Int /\ n1 <= w.count /\ w.count \in Nat
    <3>1. size \in {0, BufferSize} /\ pos \in Slots /\ w.count \in Nat
      BY DEF TypeInv, Writer, Segment
    <3> QED  BY <3>1, FirstChunkFacts
  <2>3. w' = [pc |-> "copy", count |-> w.count - n1, n1 |-> n1, written |-> w.written, load |-> w.load,
              size |-> w.size, position |-> w.position, todo |-> w.todo]
    BY <2>1 DEF TypeInv, Writer
  <2> HIDE DEF n1
  <2>4. w' \in Writer /\ w'.pc = "copy" /\ w'.n1 + w'.count = w.count
    BY <2>2, <2>3 DEF TypeInv, Writer
  <2> QED  BY <1>3, <2>4 DEF WriteSpace, TypeInv
<1>4. CASE WriteCopy
  <2>1. /\ w.n1 \in Nat /\ w.count \in Nat /\ written \in Nat
        /\ written + (w.n1 + w.count) <= MaxWritten
    BY <1>4 DEF WriteCopy, TypeInv, Writer
  <2>2. Stored(w.n1) \in Data
    <3>1. written + w.n1 <= MaxWritten
      BY <2>1, RingConstants
    <3> QED  BY <2>1, <3>1, StoredType
  <2>3. shm' \in Segment
    BY <1>4, <2>2 DEF WriteCopy, TypeInv, Segment
  <2>4. w' \in Writer /\ w'.pc = "move" /\ w'.count = w.count /\ w'.load \in Slots /\ w'.n1 = w.n1
    <3>1. w' = [pc |-> "move", count |-> w.count, n1 |-> w.n1, written |-> w.n1, load |-> shm.writerPosition,
                size |-> w.size, position |-> w.position, todo |-> w.todo]
      BY <1>4 DEF WriteCopy, TypeInv, Writer
    <3> QED  BY <2>1, <3>1 DEF TypeInv, Writer, Segment, Slots
  <2>5. written' \in 0 .. MaxWritten /\ written' = written + w.n1
    BY <1>4, <2>1, RingConstants DEF WriteCopy
  <2> QED  BY <1>4, <2>1, <2>3, <2>4, <2>5 DEF WriteCopy, TypeInv
<1>4a. CASE WriteMove
  <2>1. PICK from \in {w.load, shm.writerPosition} :
          shm' = [shm EXCEPT !.writerPosition = Advanced(from, w.n1)]
    BY <1>4a DEF WriteMove
  <2>2. from \in Nat /\ w.n1 \in Nat
    BY <1>4a DEF WriteMove, TypeInv, Segment, Writer, Slots
  <2>3. Advanced(from, w.n1) \in Slots
    BY <2>2, AdvancedFacts
  <2>4. shm' \in Segment
    BY <2>1, <2>3 DEF TypeInv, Segment
  <2>5. w' \in Writer /\ w'.pc \in {"wrap", "load"} /\ w'.count = w.count
    BY <1>4a DEF WriteMove, TypeInv, Writer
  <2> QED  BY <1>4a, <2>4, <2>5 DEF WriteMove, TypeInv
<1>5. CASE WriteWrap
  <2> DEFINE n2 == MIN(w.count, shm.bufferSize)
  <2>1. n2 \in Nat /\ n2 <= w.count /\ w.count \in Nat /\ written + w.count <= MaxWritten
    BY <1>5, RingConstants DEF WriteWrap, TypeInv, Writer, Segment, MIN
  <2>2. Stored(n2) \in Data /\ written + n2 \in 0 .. MaxWritten
    <3>1. written \in Nat /\ written + n2 <= MaxWritten
      BY <2>1, RingConstants DEF TypeInv
    <3> QED  BY <2>1, <3>1, RingConstants, StoredType
  <2>3. shm' = [shm EXCEPT !.data = Stored(n2)] /\ written' = written + n2
    BY <1>5 DEF WriteWrap
  <2>4. shm' \in Segment
    BY <2>2, <2>3 DEF TypeInv, Segment
  <2>5. w' = [pc |-> "advance", count |-> w.count, n1 |-> n2,
              written |-> w.written + n2, load |-> shm.readerPosition,
              size |-> w.size, position |-> w.position, todo |-> w.todo]
    BY <1>5 DEF WriteWrap, TypeInv, Writer
  <2> HIDE DEF n2
  <2>6. w' \in Writer /\ w'.pc = "advance" /\ w'.load \in Slots /\ w'.n1 \in Nat
    BY <2>1, <2>5 DEF TypeInv, Writer, Segment, Slots
  <2> QED  BY <1>5, <2>2, <2>3, <2>4, <2>6 DEF WriteWrap, TypeInv
<1>6. CASE WriteAdvance
  <2>1. PICK from \in {w.load, shm.readerPosition} :
          shm' = [shm EXCEPT !.readerPosition = Advanced(from, w.n1)]
    BY <1>6 DEF WriteAdvance
  <2>2. from \in Nat /\ w.n1 \in Nat
    BY <1>6 DEF WriteAdvance, TypeInv, Segment, Writer, Slots
  <2>3. Advanced(from, w.n1) \in Slots
    BY <2>2, AdvancedFacts
  <2>4. shm' \in Segment
    BY <2>1, <2>3 DEF TypeInv, Segment
  <2>5. w' \in Writer /\ w'.pc = "load"
    BY <1>6 DEF WriteAdvance, TypeInv, Writer
  <2> QED  BY <1>6, <2>3, <2>4, <2>5 DEF WriteAdvance, TypeInv
<1>7. CASE WriteLoad
  <2>1. w' \in Writer /\ w'.pc = "store"
    BY <1>7 DEF WriteLoad, TypeInv, Writer, Segment
  <2> QED  BY <1>7, <2>1 DEF WriteLoad, TypeInv
<1>8. CASE WriteStore
  <2>1. w' \in Writer /\ w'.pc = "publish"
    BY <1>8 DEF WriteStore, TypeInv, Writer
  <2>2. shm' \in Segment
    BY <1>8 DEF WriteStore, TypeInv, Segment, Writer
  <2> QED  BY <1>8, <2>1, <2>2 DEF WriteStore, TypeInv
<1>9. CASE Publish
  <2>1. w' \in Writer /\ w'.pc = "idle"
    BY <1>9 DEF Publish, TypeInv, Writer
  <2>2. shm' \in Segment
    BY <1>9 DEF Publish, TypeInv, Segment
  <2> QED  BY <1>9, <2>1, <2>2 DEF Publish, TypeInv
<1> QED  BY <1>1, <1>2, <1>3, <1>4, <1>4a, <1>5, <1>6, <1>7, <1>8, <1>9 DEF Write

LEMMA ReaderTypes ==
  ASSUME TypeInv, Read
  PROVE  TypeInv'
<1> USE DEF ReaderStep, onlyReader, ReaderAt
<1>1. CASE Poll
  <2>1. r' \in Reader /\ r'.pc = "begin"
    BY <1>1 DEF Poll, TypeInv, Reader
  <2> QED  BY <1>1, <2>1 DEF Poll, TypeInv
<1>2. CASE ReadBegin
  <2>1. r' \in Reader /\ r'.pc \in {"return", "skip"}
    <3>1. CASE shm.unconsumed < 1
      BY <1>2, <3>1 DEF ReadBegin, TypeInv, Reader
    <3>2. CASE ~(shm.unconsumed < 1)
      <4>1. r' = [pc |-> "skip", count |-> MIN(MaxCount, shm.unconsumed),
                  n1 |-> r.n1, consumed |-> 0, load |-> r.load,
                  size |-> r.size, position |-> r.position, todo |-> r.todo,
                  copied |-> 0, buf |-> r.buf]
        BY <1>2, <3>2 DEF ReadBegin, TypeInv, Reader
      <4>2. MIN(MaxCount, shm.unconsumed) \in Nat
        BY <3>2, RingConstants DEF TypeInv, Segment, MIN
      <4> QED  BY <4>1, <4>2 DEF TypeInv, Reader
    <3> QED  BY <3>1, <3>2
  <2> QED  BY <1>2, <2>1 DEF ReadBegin, TypeInv
<1>3. CASE ReadSkip
  <2> DEFINE excess == shm.unconsumed - r.count
  <2>1. shm' \in Segment => r' \in Reader /\ r'.pc = "space"
    BY <1>3 DEF ReadSkip, TypeInv, Reader, Segment
  <2>2. CASE excess > 0
    <3>1. excess \in Nat /\ shm.readerPosition \in Nat
      BY <2>2 DEF TypeInv, Reader, Segment, Slots
    <3>2. Advanced(shm.readerPosition, excess) \in Slots
      BY <3>1, AdvancedFacts
    <3>3. shm' = [magic |-> shm.magic, msgId |-> shm.msgId,
                  bufferSize |-> shm.bufferSize,
                  writerPosition |-> shm.writerPosition,
                  readerPosition |-> Advanced(shm.readerPosition, excess),
                  unconsumed |-> r.count, data |-> shm.data]
      BY <1>3, <2>2 DEF ReadSkip, TypeInv, Segment
    <3> HIDE DEF excess
    <3>4. shm' \in Segment
      BY <3>2, <3>3 DEF TypeInv, Segment, Reader
    <3> QED  BY <1>3, <2>1, <3>4 DEF ReadSkip, TypeInv
  <2>3. CASE ~(excess > 0)
    BY <1>3, <2>1, <2>3 DEF ReadSkip, TypeInv
  <2> QED  BY <2>2, <2>3
<1>4. CASE ReadSpace
  <2>1. PICK size \in {r.size, shm.bufferSize}, pos \in {r.position, shm.readerPosition} :
          r' = [r EXCEPT !.pc = "copy", !.n1 = FirstChunk(r.count, size, pos),
                         !.count = @ - FirstChunk(r.count, size, pos)]
    BY <1>4 DEF ReadSpace
  <2> DEFINE n1 == FirstChunk(r.count, size, pos)
  <2>2. n1 \in Int /\ n1 <= r.count /\ r.count \in Nat
    <3>1. size \in {0, BufferSize} /\ pos \in Slots /\ r.count \in Nat
      BY DEF TypeInv, Reader, Segment
    <3> QED  BY <3>1, FirstChunkFacts
  <2>3. r' = [pc |-> "copy", count |-> r.count - n1, n1 |-> n1,
              consumed |-> r.consumed, load |-> r.load,
              size |-> r.size, position |-> r.position, todo |-> r.todo,
              copied |-> r.copied, buf |-> r.buf]
    BY <2>1 DEF TypeInv, Reader
  <2> HIDE DEF n1
  <2>4. r' \in Reader /\ r'.pc = "copy"
    BY <2>2, <2>3 DEF TypeInv, Reader
  <2> QED  BY <1>4, <2>4 DEF ReadSpace, TypeInv
<1>5. CASE ReadCopy
  <2>1. r.n1 \in Nat /\ Fetched(r.n1) \in [0 .. MaxCount - 1 -> 0 .. MaxWritten]
    BY <1>5, FetchedType DEF TypeInv, Reader, ReadCopy
  <2>2. r' = [pc |-> "advance", count |-> r.count, n1 |-> r.n1,
              consumed |-> r.consumed, load |-> shm.readerPosition,
              size |-> r.size, position |-> r.position, todo |-> r.todo,
              copied |-> r.copied + r.n1, buf |-> Fetched(r.n1)]
    BY <1>5 DEF ReadCopy, TypeInv, Reader
  <2>3. r' \in Reader /\ r'.pc = "advance" /\ r'.load = shm.readerPosition /\ r'.n1 \in Nat
    BY <2>1, <2>2 DEF TypeInv, Reader, Segment, Slots
  <2> QED  BY <1>5, <2>3 DEF ReadCopy, TypeInv, Segment
<1>6. CASE ReadAdvance
  <2>1. PICK from \in {r.load, shm.readerPosition} :
          shm' = [shm EXCEPT !.readerPosition = Advanced(from, r.n1)]
    BY <1>6 DEF ReadAdvance
  <2>2. from \in Nat /\ r.n1 \in Nat
    BY <1>6 DEF ReadAdvance, TypeInv, Segment, Reader, Slots
  <2>3. Advanced(from, r.n1) \in Slots
    BY <2>2, AdvancedFacts
  <2>4. shm' \in Segment
    BY <2>1, <2>3 DEF TypeInv, Segment
  <2>5. r' \in Reader /\ r'.pc \in {"wrap", "load"}
    <3>1. /\ r' = [pc |-> r'.pc, count |-> r.count, n1 |-> r.n1,
                   consumed |-> r.consumed + r.n1, load |-> r.load,
                   size |-> r.size, position |-> r.position, todo |-> r.todo,
                   copied |-> r.copied, buf |-> r.buf]
          /\ r'.pc \in {"wrap", "load"}
      BY <1>6 DEF ReadAdvance, TypeInv, Reader
    <3> QED  BY <2>2, <3>1 DEF TypeInv, Reader
  <2> QED  BY <1>6, <2>4, <2>5 DEF ReadAdvance, TypeInv
<1>7. CASE ReadWrap
  <2> DEFINE n2 == MIN(r.count, shm.bufferSize)
  <2>1. n2 \in Nat /\ shm.readerPosition \in Nat
    BY RingConstants DEF TypeInv, Reader, Segment, MIN, Slots
  <2>2. Fetched(n2) \in [0 .. MaxCount - 1 -> 0 .. MaxWritten]
    BY <2>1, FetchedType
  <2>3. Advanced(shm.readerPosition, n2) \in Slots
    BY <2>1, AdvancedFacts
  <2>4. /\ shm' = [shm EXCEPT !.readerPosition = Advanced(shm.readerPosition, n2)]
        /\ r' = [pc |-> "load", count |-> r.count, n1 |-> r.n1,
                 consumed |-> r.consumed + n2 + n2, load |-> r.load,
                 size |-> r.size, position |-> r.position, todo |-> r.todo,
                 copied |-> r.copied + n2, buf |-> Fetched(n2)]
    BY <1>7 DEF ReadWrap, TypeInv, Reader
  <2> HIDE DEF n2
  <2>5. shm' \in Segment
    BY <2>3, <2>4 DEF TypeInv, Segment
  <2>6. r' \in Reader /\ r'.pc = "load"
    BY <2>1, <2>2, <2>4 DEF TypeInv, Reader
  <2> QED  BY <1>7, <2>5, <2>6 DEF ReadWrap, TypeInv
<1>8. CASE ReadLoad
  <2>1. r' \in Reader /\ r'.pc = "store"
    BY <1>8 DEF ReadLoad, TypeInv, Reader, Segment
  <2> QED  BY <1>8, <2>1 DEF ReadLoad, TypeInv
<1>9. CASE ReadStore
  <2>1. r' \in Reader /\ r'.pc = "return"
    BY <1>9 DEF ReadStore, TypeInv, Reader
  <2>2. shm' \in Segment
    BY <1>9 DEF ReadStore, TypeInv, Segment, Reader
  <2> QED  BY <1>9, <2>1, <2>2 DEF ReadStore, TypeInv
<1>10. CASE ReadReturn
  <2>1. r' \in Reader /\ r'.pc = "idle"
    <3>1. r' = [pc |-> "idle", count |-> 0, n1 |-> 0, consumed |-> r.consumed,
                load |-> 0, size |-> r.size, position |-> r.position, todo |-> r.todo,
                copied |-> 0, buf |-> r.buf]
      BY <1>10 DEF ReadReturn, TypeInv, Reader
    <3> QED  BY <3>1 DEF TypeInv, Reader
  <2> QED  BY <1>10, <2>1 DEF ReadReturn, TypeInv
<1> QED
  BY <1>1, <1>2, <1>3, <1>4, <1>5, <1>6, <1>7, <1>8, <1>9, <1>10 DEF Read

(* The header is set, and nothing else.                                    *)
LEMMA HeaderIs ==
  ASSUME TypeInv, NEW fields, SetHeader(fields)
  PROVE  /\ shm' \in Segment
         /\ shm'.bufferSize = IF "bufferSize" \in fields THEN BufferSize ELSE shm.bufferSize
         /\ shm'.writerPosition = shm.writerPosition /\ shm'.readerPosition = shm.readerPosition
         /\ shm'.unconsumed = shm.unconsumed /\ shm'.data = shm.data
  BY RingConstants DEF SetHeader, TypeInv, Segment

LEMMA LifecycleTypes ==
  ASSUME TypeInv, Lifecycle
  PROVE  TypeInv'
<1>1. CASE ProducerAttach
  <2>1. w' \in Writer /\ w'.pc = "clear"
    BY <1>1 DEF ProducerAttach, TypeInv, Writer, WriterAt
  <2> QED  BY <1>1, <2>1 DEF ProducerAttach, TypeInv
<1>2. CASE ConsumerAttach
  <2>1. r' \in Reader /\ r'.pc = "clear"
    BY <1>2 DEF ConsumerAttach, TypeInv, Reader, ReaderAt
  <2> QED  BY <1>2, <2>1 DEF ConsumerAttach, TypeInv
<1>3. CASE ProducerClear
  <2>1. PICK fields \in Stores(w.todo) :
          /\ shm' = Zeroed(fields)
          /\ w' = IF fields = w.todo THEN [w EXCEPT !.pc = "header", !.todo = {"magic", "bufferSize"}]
                  ELSE [w EXCEPT !.todo = @ \ fields]
    BY <1>3 DEF ProducerClear
  <2>2. shm' \in Segment
    BY <2>1, ZeroedIs
  <2>3. w.todo \in SUBSET Fields /\ w.todo \ fields \in SUBSET Fields /\ w.pc = "clear"
    BY <1>3, StoresAre DEF ProducerClear, TypeInv, Writer
  <2>4. w' \in Writer /\ w'.pc \in {"clear", "header"}
    BY <2>1, <2>3 DEF TypeInv, Writer, WriterAt, Fields
  <2> QED  BY <1>3, <2>2, <2>4 DEF ProducerClear, TypeInv
<1>4. CASE ConsumerClear
  <2>1. PICK fields \in Stores(r.todo) :
          /\ shm' = Zeroed(fields)
          /\ r' = IF fields = r.todo THEN [r EXCEPT !.pc = "header", !.todo = {"magic", "bufferSize"}]
                  ELSE [r EXCEPT !.todo = @ \ fields]
    BY <1>4 DEF ConsumerClear
  <2>2. shm' \in Segment
    BY <2>1, ZeroedIs
  <2>3. r.todo \in SUBSET Fields /\ r.todo \ fields \in SUBSET Fields /\ r.pc = "clear"
    BY <1>4, StoresAre DEF ConsumerClear, TypeInv, Reader
  <2>4. r' \in Reader /\ r'.pc \in {"clear", "header"}
    BY <2>1, <2>3 DEF TypeInv, Reader, ReaderAt, Fields
  <2> QED  BY <1>4, <2>2, <2>4 DEF ConsumerClear, TypeInv
<1>5. CASE ProducerHeader
  <2>1. PICK fields \in Stores(w.todo) :
          /\ SetHeader(fields)
          /\ w' = [w EXCEPT !.pc = IF fields = w.todo THEN "idle" ELSE "header", !.todo = @ \ fields]
    BY <1>5 DEF ProducerHeader
  <2>2. shm' \in Segment
    BY <2>1, HeaderIs
  <2>3. w.todo \in SUBSET Fields /\ w.todo \ fields \in SUBSET Fields
    BY StoresAre DEF TypeInv, Writer
  <2>4. w' \in Writer /\ w'.pc \in {"idle", "header"}
    BY <2>1, <2>3 DEF TypeInv, Writer, WriterAt
  <2> QED  BY <1>5, <2>2, <2>4 DEF ProducerHeader, TypeInv
<1>6. CASE ConsumerHeader
  <2>1. PICK fields \in Stores(r.todo) :
          /\ SetHeader(fields)
          /\ r' = [r EXCEPT !.pc = IF fields = r.todo THEN "idle" ELSE "header", !.todo = @ \ fields]
    BY <1>6 DEF ConsumerHeader
  <2>2. shm' \in Segment
    BY <2>1, HeaderIs
  <2>3. r.todo \in SUBSET Fields /\ r.todo \ fields \in SUBSET Fields
    BY StoresAre DEF TypeInv, Reader
  <2>4. r' \in Reader /\ r'.pc \in {"idle", "header"}
    BY <2>1, <2>3 DEF TypeInv, Reader, ReaderAt
  <2> QED  BY <1>6, <2>2, <2>4 DEF ConsumerHeader, TypeInv
<1>7. CASE ProducerExit
  <2>1. w' \in Writer /\ w'.pc = "off"
    BY <1>7 DEF ProducerExit, TypeInv, Writer, WriterAt
  <2> QED  BY <1>7, <2>1 DEF ProducerExit, TypeInv
<1>8. CASE ConsumerExit
  <2>1. r' \in Reader /\ r'.pc = "off"
    BY <1>8 DEF ConsumerExit, TypeInv, Reader, ReaderAt
  <2> QED  BY <1>8, <2>1 DEF ConsumerExit, TypeInv
<1> QED  BY <1>1, <1>2, <1>3, <1>4, <1>5, <1>6, <1>7, <1>8 DEF Lifecycle

-----------------------------------------------------------------------------
(* The copies of the producer, whatever the consumer does meanwhile.       *)

LEMMA ReadLeavesWriter ==
  ASSUME TypeInv, Read
  PROVE  w' = w /\ shm'.writerPosition = shm.writerPosition
<1> USE DEF onlyReader
<1>1. CASE Poll        BY <1>1 DEF Poll
<1>2. CASE ReadBegin   BY <1>2 DEF ReadBegin
<1>3. CASE ReadSkip
  <2>1. CASE shm.unconsumed - r.count > 0
    BY <1>3, <2>1 DEF ReadSkip, TypeInv, Segment
  <2>2. CASE ~(shm.unconsumed - r.count > 0)
    BY <1>3, <2>2 DEF ReadSkip
  <2> QED  BY <2>1, <2>2
<1>4. CASE ReadSpace   BY <1>4 DEF ReadSpace
<1>5. CASE ReadCopy    BY <1>5 DEF ReadCopy
<1>6. CASE ReadAdvance BY <1>6 DEF ReadAdvance, TypeInv, Segment
<1>7. CASE ReadWrap    BY <1>7 DEF ReadWrap, TypeInv, Segment
<1>8. CASE ReadLoad    BY <1>8 DEF ReadLoad
<1>9. CASE ReadStore   BY <1>9 DEF ReadStore, TypeInv, Segment
<1>10. CASE ReadReturn BY <1>10 DEF ReadReturn
<1> QED
  BY <1>1, <1>2, <1>3, <1>4, <1>5, <1>6, <1>7, <1>8, <1>9, <1>10 DEF Read

LEMMA WriteKeepsFit ==
  ASSUME TypeInv, WriteFits, Write
  PROVE  WriteFits'
<1> USE DEF WriterStep, onlyWriter
<1>1. CASE \E count \in BlockSizes : WriteBegin(count)
  <2>1. PICK count \in BlockSizes : WriteBegin(count)
    BY <1>1
  <2>2. count \in Nat /\ count <= BufferSize
    BY RingConstants
  <2>3. /\ w'.pc \in {"reset", "space"} /\ w'.count = count
        /\ w'.pc = "space" => shm'.writerPosition = w'.position
    BY <2>1 DEF WriteBegin, TypeInv, Writer
  <2> QED  BY <2>2, <2>3 DEF WriteFits
<1>2. CASE ResetRing
  <2>1. w.count <= BufferSize
    BY <1>2 DEF ResetRing, WriteFits
  <2>2. /\ w'.pc \in {"reset", "space"} /\ w'.count = w.count
        /\ w'.pc = "space" => w'.position = shm'.writerPosition
    BY <1>2 DEF ResetRing, TypeInv, Writer
  <2> QED  BY <2>1, <2>2 DEF WriteFits
<1>3. CASE WriteSpace
  <2>1. PICK size \in {w.size, shm.bufferSize}, pos \in {w.position, shm.writerPosition} :
          w' = [w EXCEPT !.pc = "copy", !.n1 = FirstChunk(w.count, size, pos),
                         !.count = @ - FirstChunk(w.count, size, pos)]
    BY <1>3 DEF WriteSpace
  <2> DEFINE n1 == FirstChunk(w.count, size, pos)
             wp == shm.writerPosition
  <2>2. /\ size \in {0, BufferSize} /\ pos \in Slots /\ w.count \in Nat
        /\ wp \in {0, pos} /\ w.count <= BufferSize
    BY <1>3 DEF WriteSpace, WriteFits, TypeInv, Writer, Segment
  <2>3. /\ n1 \in Int /\ n1 <= w.count
        /\ n1 >= 0 => pos + n1 <= BufferSize
        /\ n1 >= 0 /\ n1 < w.count => pos = 0 \/ pos + n1 = BufferSize
    BY <2>2, FirstChunkFacts
  <2>4. w'.pc = "copy" /\ w'.n1 = n1 /\ w'.count = w.count - n1 /\ shm' = shm
    BY <1>3, <2>1 DEF WriteSpace, TypeInv, Writer
  <2> HIDE DEF n1
  <2>5. n1 >= 0 => Fits(wp, n1, w.count - n1)
    BY <2>2, <2>3, RingConstants DEF Fits, Slots
  <2> QED  BY <2>4, <2>5 DEF WriteFits
<1>4. CASE WriteCopy
  <2>1. Fits(shm.writerPosition, w.n1, w.count)
    BY <1>4 DEF WriteCopy, WriteFits
  <2>2. /\ w'.pc = "move" /\ w'.n1 = w.n1 /\ w'.count = w.count
        /\ w'.load = shm.writerPosition /\ shm'.writerPosition = shm.writerPosition
    BY <1>4 DEF WriteCopy, TypeInv, Writer, Segment
  <2> QED  BY <2>1, <2>2 DEF WriteFits
<1>5. CASE WriteMove
  <2>1. PICK from \in {w.load, shm.writerPosition} :
          shm' = [shm EXCEPT !.writerPosition = Advanced(from, w.n1)]
    BY <1>5 DEF WriteMove
  <2>2. /\ w.load \in Nat /\ w.n1 \in Nat /\ w.count \in Nat
        /\ from \in {0, w.load} /\ Fits(w.load, w.n1, w.count)
    BY <1>5 DEF WriteMove, WriteFits, TypeInv, Writer, Segment, Slots
  <2> DEFINE wp == Advanced(from, w.n1)
  <2>3. wp \in {0, from + w.n1} /\ (from + w.n1 = BufferSize => wp = 0)
    <3>1. /\ wp \in {0, from + w.n1}
          /\ from + w.n1 >= shm.bufferSize => wp = 0
      BY <2>2, AdvancedFacts
    <3>2. shm.bufferSize \in {0, BufferSize} /\ BufferSize \in Nat
      BY RingConstants DEF TypeInv, Segment
    <3> QED  BY <2>2, <3>1, <3>2
  <2>4. /\ w'.count = w.count /\ w'.pc \in {"wrap", "load"}
        /\ w'.pc = "wrap" => w.count > 0
        /\ shm'.writerPosition = wp
    BY <1>5, <2>1 DEF WriteMove, TypeInv, Writer, Segment
  <2> HIDE DEF wp
  <2>5. w.count > 0 => wp + w.count <= BufferSize
    BY <2>2, <2>3, RingConstants DEF Fits
  <2> QED  BY <2>4, <2>5 DEF WriteFits
<1>6. CASE WriteWrap     BY <1>6 DEF WriteWrap, TypeInv, Writer, WriteFits
<1>7. CASE WriteAdvance  BY <1>7 DEF WriteAdvance, TypeInv, Writer, WriteFits
<1>8. CASE WriteLoad     BY <1>8 DEF WriteLoad, TypeInv, Writer, WriteFits
<1>9. CASE WriteStore    BY <1>9 DEF WriteStore, TypeInv, Writer, WriteFits
<1>10. CASE Publish      BY <1>10 DEF Publish, TypeInv, Writer, WriteFits
<1> QED  BY <1>1, <1>2, <1>3, <1>4, <1>5, <1>6, <1>7, <1>8, <1>9, <1>10 DEF Write

(* What starting and ending of the processes leaves of a write: nothing,   *)
(* or all of its registers and its position or zero.                       *)
LEMMA LifecycleLeaves ==
  ASSUME TypeInv, Lifecycle
  PROVE  /\ w' = w \/ w'.pc \in {"off", "clear", "header", "idle"}
         /\ shm'.writerPosition \in {0, shm.writerPosition}
<1>1. CASE ProducerAttach
  BY <1>1 DEF ProducerAttach, TypeInv, Writer
<1>2. CASE ConsumerAttach
  BY <1>2 DEF ConsumerAttach
<1>3. CASE ProducerClear
  <2>1. PICK fields \in Stores(w.todo) :
          /\ shm' = Zeroed(fields)
          /\ w' = IF fields = w.todo THEN [w EXCEPT !.pc = "header", !.todo = {"magic", "bufferSize"}]
                  ELSE [w EXCEPT !.todo = @ \ fields]
    BY <1>3 DEF ProducerClear
  <2>2. shm'.writerPosition \in {0, shm.writerPosition}
    BY <2>1, ZeroedIs
  <2> QED  BY <1>3, <2>1, <2>2 DEF ProducerClear, TypeInv, Writer
<1>4. CASE ConsumerClear
  <2>1. PICK fields \in Stores(r.todo) : shm' = Zeroed(fields)
    BY <1>4 DEF ConsumerClear
  <2>2. shm'.writerPosition \in {0, shm.writerPosition}
    BY <2>1, ZeroedIs
  <2> QED  BY <1>4, <2>2 DEF ConsumerClear
<1>5. CASE ProducerHeader
  BY <1>5 DEF ProducerHeader, SetHeader, TypeInv, Writer, Segment
<1>6. CASE ConsumerHeader
  BY <1>6 DEF ConsumerHeader, SetHeader, TypeInv, Segment
<1>7. CASE ProducerExit
  BY <1>7 DEF ProducerExit, TypeInv, Writer
<1>8. CASE ConsumerExit
  BY <1>8 DEF ConsumerExit
<1> QED  BY <1>1, <1>2, <1>3, <1>4, <1>5, <1>6, <1>7, <1>8 DEF Lifecycle

(* Clearing the segment under a write leaves room for all of its block.    *)
LEMMA LifecycleKeepsWriteFit ==
  ASSUME TypeInv, WriteFits, Lifecycle
  PROVE  WriteFits'
<1>1. CASE w'.pc \in {"off", "clear", "header", "idle"}
  BY <1>1 DEF WriteFits
<1>2. CASE w' = w
  <2>1. shm'.writerPosition \in {0, shm.writerPosition}
    BY LifecycleLeaves
  <2>2. /\ w.n1 \in Int /\ w.count \in Nat /\ shm.writerPosition \in Nat /\ BufferSize \in Nat
    BY RingConstants DEF TypeInv, Writer, Segment, Slots
  <2>3. w.pc = "copy" /\ w.n1 >= 0 => Fits(shm'.writerPosition, w.n1, w.count)
    BY <2>1, <2>2 DEF WriteFits, Fits
  <2>4. w.pc = "wrap" => shm'.writerPosition + w.count <= BufferSize
    BY <2>1, <2>2 DEF WriteFits
  <2> QED  BY <1>2, <2>1, <2>3, <2>4 DEF WriteFits
<1> QED  BY <1>1, <1>2, LifecycleLeaves

-----------------------------------------------------------------------------
(* The copies of the consumer, when no call of the producer comes between. *)

(* What a step of the producer leaves of the consumer: all.                *)
LEMMA WriteLeavesReader ==
  ASSUME Write, Exclusive
  PROVE  r' = r /\ r.pc \in {"off", "idle"}
  BY DEF Write, WriteBegin, ResetRing, WriteSpace, WriteCopy, WriteMove, WriteWrap,
     WriteAdvance, WriteLoad, WriteStore, Publish, WriterStep, WriterMayStep, onlyWriter

LEMMA OthersKeepReadFit ==
  ASSUME TypeInv, ReadFits, Exclusive, Write \/ Lifecycle
  PROVE  ReadFits'
<1>1. CASE Write
  BY <1>1, WriteLeavesReader DEF ReadFits
<1>2. CASE Lifecycle
  <2>1. r'.pc \in {"off", "idle", "clear", "header"}
    BY <1>2 DEF Lifecycle, ProducerAttach, ProducerClear, ProducerHeader, ProducerExit,
       ConsumerAttach, ConsumerClear, ConsumerHeader, ConsumerExit, WriterMayStep, TypeInv, Reader
  <2> QED  BY <2>1 DEF ReadFits
<1> QED  BY <1>1, <1>2

LEMMA ReadKeepsFit ==
  ASSUME TypeInv, Tidy, ReadFits, Read
  PROVE  ReadFits'
<1> USE DEF ReaderStep, onlyReader
<1>1. CASE Poll
  BY <1>1 DEF Poll, TypeInv, Reader, ReadFits
<1>2. CASE ReadBegin
  <2>1. CASE shm.unconsumed < 1
    BY <1>2, <2>1 DEF ReadBegin, TypeInv, Reader, ReadFits
  <2>2. CASE ~(shm.unconsumed < 1)
    <3>1. /\ r'.pc = "skip" /\ r'.copied = 0
          /\ r'.count = MIN(MaxCount, shm.unconsumed)
      BY <1>2, <2>2 DEF ReadBegin, TypeInv, Reader
    <3>2. MIN(MaxCount, shm.unconsumed) <= MaxCount
      BY RingConstants DEF MIN, TypeInv, Segment
    <3> QED  BY <3>1, <3>2 DEF ReadFits
  <2> QED  BY <2>1, <2>2
<1>3. CASE ReadSkip
  <2>1. r'.pc = "space" /\ r'.count = r.count /\ r'.copied = r.copied /\ r.pc = "skip"
    BY <1>3 DEF ReadSkip, TypeInv, Reader
  <2> QED  BY <2>1 DEF ReadFits
<1>4. CASE ReadSpace
  <2> DEFINE rp == shm.readerPosition
             n1 == FirstChunk(r.count, shm.bufferSize, rp)
  <2>1. r' = [r EXCEPT !.pc = "copy", !.n1 = n1, !.count = @ - n1] /\ shm' = shm
    BY <1>4 DEF ReadSpace, Tidy
  <2>2. /\ n1 \in Int /\ n1 >= 0 /\ n1 <= r.count /\ r.count \in Nat /\ rp \in Slots
        /\ rp + n1 <= BufferSize
        /\ n1 < r.count => rp + n1 = shm.bufferSize
    <3>1. /\ r.count \in Nat /\ shm.bufferSize \in {0, BufferSize} /\ rp \in Slots
          /\ shm.bufferSize = 0 => rp = 0
      BY DEF TypeInv, Reader, Segment, Tidy
    <3> QED  BY <3>1, FirstChunkFacts
  <2>3. /\ r'.pc = "copy" /\ r'.n1 = n1 /\ r'.count = r.count - n1
        /\ r'.copied = r.copied
    BY <2>1 DEF TypeInv, Reader
  <2>4. r.count <= MaxCount /\ r.copied = 0
    BY <1>4 DEF ReadSpace, ReadFits
  <2> HIDE DEF n1
  <2>5. /\ r'.n1 + r'.count = r.count
        /\ r'.count > 0 => rp + n1 >= shm.bufferSize
    BY <2>2, <2>3, RingConstants DEF TypeInv, Segment, Slots
  <2> QED  BY <2>1, <2>2, <2>3, <2>4, <2>5 DEF ReadFits
<1>5. CASE ReadCopy
  <2>1. /\ r'.pc = "advance" /\ r'.n1 = r.n1 /\ r'.count = r.count
        /\ r'.copied = r.copied + r.n1 /\ r'.load = shm.readerPosition /\ shm' = shm
    BY <1>5 DEF ReadCopy, TypeInv, Reader
  <2>2. r.n1 \in Nat /\ r.copied = 0
    BY <1>5 DEF ReadCopy, TypeInv, Reader, ReadFits
  <2> QED  BY <1>5, <2>1, <2>2 DEF ReadCopy, ReadFits
<1>6. CASE ReadAdvance
  <2> DEFINE rp == shm.readerPosition
  <2>1. /\ r.n1 \in Nat /\ r.count \in Nat /\ rp \in Nat
        /\ r.n1 + r.count <= MaxCount
        /\ r.count > 0 => rp + r.n1 >= shm.bufferSize
        /\ r.load = rp /\ r.copied = r.n1
    BY <1>6 DEF ReadAdvance, TypeInv, Reader, Segment, Slots, ReadFits
  <2>2. shm'.readerPosition = Advanced(rp, r.n1)
    BY <1>6, <2>1 DEF ReadAdvance, TypeInv, Segment
  <2>3. r.count > 0 => shm'.readerPosition = 0
    BY <2>1, <2>2, AdvancedFacts
  <2>4. /\ r'.pc \in {"wrap", "load"} /\ (r'.pc = "wrap" => r.count > 0)
        /\ r'.count = r.count /\ r'.copied = r.copied
    BY <1>6 DEF ReadAdvance, TypeInv, Reader
  <2> QED  BY <2>1, <2>3, <2>4 DEF ReadFits
<1>7. CASE ReadWrap    BY <1>7 DEF ReadWrap, TypeInv, Reader, ReadFits
<1>8. CASE ReadLoad    BY <1>8 DEF ReadLoad, TypeInv, Reader, ReadFits
<1>9. CASE ReadStore   BY <1>9 DEF ReadStore, TypeInv, Reader, ReadFits
<1>10. CASE ReadReturn BY <1>10 DEF ReadReturn, TypeInv, Reader, ReadFits
<1> QED
  BY <1>1, <1>2, <1>3, <1>4, <1>5, <1>6, <1>7, <1>8, <1>9, <1>10 DEF Read

-----------------------------------------------------------------------------

(* The tidiness of calls that are kept apart.                              *)
LEMMA TidyWrites ==
  ASSUME TypeInv, Tidy, Exclusive, Write
  PROVE  Tidy'
<1> USE DEF WriterStep, onlyWriter
<1>1. r' = r /\ r.pc \in {"off", "idle"}
  BY WriteLeavesReader
<1>2. CASE \E count \in BlockSizes : WriteBegin(count)
  BY <1>1, <1>2 DEF WriteBegin, TypeInv, Writer, Tidy
<1>3. CASE ResetRing
  <2>1. /\ shm' = Zeroed(Positions)
        /\ w'.pc = "space" /\ w'.size = shm'.bufferSize /\ w'.position = shm'.writerPosition
    BY <1>3 DEF ResetRing, Tidy, TypeInv, Writer, Stores
  <2>2. shm'.writerPosition = 0 /\ shm'.readerPosition = 0
    BY <2>1, ZeroedIs DEF Positions
  <2> QED  BY <1>1, <2>1, <2>2 DEF Tidy
<1>4. CASE WriteSpace
  <2>1. w'.pc = "copy" /\ shm' = shm
    BY <1>4 DEF WriteSpace, TypeInv, Writer
  <2> QED  BY <1>1, <2>1 DEF Tidy
<1>5. CASE WriteCopy
  <2>1. /\ w'.pc = "move" /\ shm'.bufferSize = shm.bufferSize
        /\ shm'.writerPosition = shm.writerPosition /\ shm'.readerPosition = shm.readerPosition
    BY <1>5 DEF WriteCopy, TypeInv, Writer, Segment
  <2> QED  BY <1>1, <2>1 DEF Tidy
<1>6. CASE WriteMove
  <2>1. PICK from \in {w.load, shm.writerPosition} :
          shm' = [shm EXCEPT !.writerPosition = Advanced(from, w.n1)]
    BY <1>6 DEF WriteMove
  <2>2. from \in Nat /\ w.n1 \in Nat
    BY <1>6 DEF WriteMove, TypeInv, Segment, Writer, Slots
  <2>3. shm.bufferSize = 0 => Advanced(from, w.n1) = 0
    BY <2>2, AdvancedFacts
  <2>4. w'.pc \in {"wrap", "load"}
    BY <1>6 DEF WriteMove, TypeInv, Writer
  <2>5. /\ shm'.bufferSize = shm.bufferSize /\ shm'.readerPosition = shm.readerPosition
        /\ shm'.writerPosition = Advanced(from, w.n1)
    BY <2>1 DEF TypeInv, Segment
  <2> QED  BY <1>1, <2>3, <2>4, <2>5 DEF Tidy
<1>7. CASE WriteWrap
  <2>1. /\ w'.pc = "advance" /\ shm'.bufferSize = shm.bufferSize
        /\ shm'.writerPosition = shm.writerPosition /\ shm'.readerPosition = shm.readerPosition
    BY <1>7 DEF WriteWrap, TypeInv, Writer, Segment
  <2> QED  BY <1>1, <2>1 DEF Tidy
<1>8. CASE WriteAdvance
  <2>1. PICK from \in {w.load, shm.readerPosition} :
          shm' = [shm EXCEPT !.readerPosition = Advanced(from, w.n1)]
    BY <1>8 DEF WriteAdvance
  <2>2. from \in Nat /\ w.n1 \in Nat
    BY <1>8 DEF WriteAdvance, TypeInv, Segment, Writer, Slots
  <2>3. shm.bufferSize = 0 => Advanced(from, w.n1) = 0
    BY <2>2, AdvancedFacts
  <2>4. w'.pc = "load"
    BY <1>8 DEF WriteAdvance, TypeInv, Writer
  <2>5. /\ shm'.bufferSize = shm.bufferSize /\ shm'.writerPosition = shm.writerPosition
        /\ shm'.readerPosition = Advanced(from, w.n1)
    BY <2>1 DEF TypeInv, Segment
  <2> QED  BY <1>1, <2>3, <2>4, <2>5 DEF Tidy
<1>9. CASE WriteLoad
  <2>1. w'.pc = "store" /\ shm' = shm
    BY <1>9 DEF WriteLoad, TypeInv, Writer
  <2> QED  BY <1>1, <2>1 DEF Tidy
<1>10. CASE WriteStore
  <2>1. /\ w'.pc = "publish" /\ shm'.bufferSize = shm.bufferSize
        /\ shm'.writerPosition = shm.writerPosition /\ shm'.readerPosition = shm.readerPosition
    BY <1>10 DEF WriteStore, TypeInv, Writer, Segment
  <2> QED  BY <1>1, <2>1 DEF Tidy
<1>11. CASE Publish
  <2>1. /\ w'.pc = "idle" /\ shm'.bufferSize = shm.bufferSize
        /\ shm'.writerPosition = shm.writerPosition /\ shm'.readerPosition = shm.readerPosition
    BY <1>11 DEF Publish, TypeInv, Writer, Segment
  <2> QED  BY <1>1, <2>1 DEF Tidy
<1> QED
  BY <1>2, <1>3, <1>4, <1>5, <1>6, <1>7, <1>8, <1>9, <1>10, <1>11 DEF Write

LEMMA TidyReads ==
  ASSUME TypeInv, Tidy, Exclusive, Read
  PROVE  Tidy'
<1> USE DEF ReaderStep, onlyReader
<1>1. /\ w' = w /\ w.pc \in {"off", "idle"} /\ shm'.writerPosition = shm.writerPosition
  <2>1. w.pc \in {"off", "idle"}
    BY DEF Read, Poll, ReadBegin, ReadSkip, ReadSpace, ReadCopy, ReadAdvance,
       ReadWrap, ReadLoad, ReadStore, ReadReturn, ReaderMayStep
  <2> QED  BY <2>1, ReadLeavesWriter
<1>2. CASE Poll \/ ReadBegin \/ ReadSpace \/ ReadCopy \/ ReadLoad \/ ReadReturn
  <2>1. shm' = shm /\ r'.pc \in {"begin", "return", "skip", "copy", "advance", "store", "idle"}
    BY <1>2 DEF Poll, ReadBegin, ReadSpace, ReadCopy, ReadLoad, ReadReturn, TypeInv, Reader
  <2> QED  BY <1>1, <2>1 DEF Tidy
<1>3. CASE ReadSkip
  <2> DEFINE excess == shm.unconsumed - r.count
  <2>1. /\ r'.pc = "space" /\ r'.size = shm'.bufferSize /\ r'.position = shm'.readerPosition
    BY <1>3 DEF ReadSkip, TypeInv, Reader
  <2>2. CASE excess > 0
    <3>1. /\ shm'.bufferSize = shm.bufferSize
          /\ shm'.readerPosition = Advanced(shm.readerPosition, excess)
      BY <1>3, <2>2 DEF ReadSkip, TypeInv, Segment
    <3>2. excess \in Nat /\ shm.readerPosition \in Nat
      BY <2>2 DEF TypeInv, Segment, Reader, Slots
    <3>3. shm.bufferSize = 0 => Advanced(shm.readerPosition, excess) = 0
      BY <3>2, AdvancedFacts
    <3> QED  BY <1>1, <2>1, <3>1, <3>3 DEF Tidy
  <2>3. CASE ~(excess > 0)
    <3>1. shm' = shm
      BY <1>3, <2>3 DEF ReadSkip
    <3> QED  BY <1>1, <2>1, <3>1 DEF Tidy
  <2> QED  BY <2>2, <2>3
<1>4. CASE ReadAdvance
  <2>1. PICK from \in {r.load, shm.readerPosition} :
          shm' = [shm EXCEPT !.readerPosition = Advanced(from, r.n1)]
    BY <1>4 DEF ReadAdvance
  <2>2. from \in Nat /\ r.n1 \in Nat
    BY <1>4 DEF ReadAdvance, TypeInv, Segment, Reader, Slots
  <2>3. shm.bufferSize = 0 => Advanced(from, r.n1) = 0
    BY <2>2, AdvancedFacts
  <2>4. r'.pc \in {"wrap", "load"}
    BY <1>4 DEF ReadAdvance, TypeInv, Reader
  <2>5. shm'.bufferSize = shm.bufferSize /\ shm'.readerPosition = Advanced(from, r.n1)
    BY <2>1 DEF TypeInv, Segment
  <2> QED  BY <1>1, <2>3, <2>4, <2>5 DEF Tidy
<1>5. CASE ReadWrap
  <2> DEFINE n2 == MIN(r.count, shm.bufferSize)
  <2>1. n2 \in Nat /\ shm.readerPosition \in Nat
    BY RingConstants DEF TypeInv, Segment, Reader, Slots, MIN
  <2>2. shm.bufferSize = 0 => Advanced(shm.readerPosition, n2) = 0
    BY <2>1, AdvancedFacts
  <2>3. /\ shm'.bufferSize = shm.bufferSize
        /\ shm'.readerPosition = Advanced(shm.readerPosition, n2) /\ r'.pc = "load"
    BY <1>5 DEF ReadWrap, TypeInv, Segment, Reader
  <2> QED  BY <1>1, <2>2, <2>3 DEF Tidy
<1>6. CASE ReadStore
  <2>1. /\ r'.pc = "return" /\ shm'.bufferSize = shm.bufferSize
        /\ shm'.readerPosition = shm.readerPosition
    BY <1>6 DEF ReadStore, TypeInv, Reader, Segment
  <2> QED  BY <1>1, <2>1 DEF Tidy
<1> QED  BY <1>2, <1>3, <1>4, <1>5, <1>6 DEF Read

LEMMA TidyLifecycle ==
  ASSUME TypeInv, Tidy, Exclusive, Lifecycle
  PROVE  Tidy'
<1>1. CASE ProducerAttach
  BY <1>1 DEF ProducerAttach, WriterMayStep, TypeInv, Writer, Tidy
<1>2. CASE ConsumerAttach
  BY <1>2 DEF ConsumerAttach, ReaderMayStep, TypeInv, Reader, Tidy
<1>3. CASE ProducerClear
  <2>1. /\ shm' = Zeroed(Fields) /\ r' = r /\ r.pc \in {"off", "idle"}
        /\ w'.pc = "header" /\ w'.todo = {"magic", "bufferSize"}
    BY <1>3 DEF ProducerClear, WriterMayStep, Tidy, Stores, TypeInv, Writer
  <2>2. shm'.writerPosition = 0 /\ shm'.readerPosition = 0
    BY <2>1, ZeroedIs DEF Fields
  <2> QED  BY <2>1, <2>2 DEF Tidy
<1>4. CASE ConsumerClear
  <2>1. /\ shm' = Zeroed(Fields) /\ w' = w /\ w.pc \in {"off", "idle"}
        /\ r'.pc = "header" /\ r'.todo = {"magic", "bufferSize"}
    BY <1>4 DEF ConsumerClear, ReaderMayStep, Tidy, Stores, TypeInv, Reader
  <2>2. shm'.writerPosition = 0 /\ shm'.readerPosition = 0
    BY <2>1, ZeroedIs DEF Fields
  <2> QED  BY <2>1, <2>2 DEF Tidy
<1>5. CASE ProducerHeader
  <2>1. /\ SetHeader({"magic", "bufferSize"}) /\ r' = r /\ r.pc \in {"off", "idle"}
        /\ w'.pc = "idle"
    BY <1>5 DEF ProducerHeader, WriterMayStep, Tidy, Stores, TypeInv, Writer
  <2>2. shm'.bufferSize # 0
    BY <2>1, HeaderIs, RingConstants
  <2> QED  BY <2>1, <2>2 DEF Tidy
<1>6. CASE ConsumerHeader
  <2>1. /\ SetHeader({"magic", "bufferSize"}) /\ w' = w /\ w.pc \in {"off", "idle"}
        /\ r'.pc = "idle"
    BY <1>6, ZenonT(40) DEF ConsumerHeader, ReaderMayStep, Tidy, Stores, TypeInv, Reader
  <2>2. shm'.bufferSize # 0
    BY <2>1, HeaderIs, RingConstants
  <2> QED  BY <2>1, <2>2 DEF Tidy
<1>7. CASE ProducerExit
  BY <1>7 DEF ProducerExit, TypeInv, Writer, Tidy
<1>8. CASE ConsumerExit
  BY <1>8 DEF ConsumerExit, TypeInv, Reader, Tidy
<1> QED  BY <1>1, <1>2, <1>3, <1>4, <1>5, <1>6, <1>7, <1>8 DEF Lifecycle

-----------------------------------------------------------------------------

LEMMA Stutter ==
  ASSUME RingInv, UNCHANGED ringVars
  PROVE  RingInv'
<1>1. TypeInv'
  BY DEF RingInv, ringVars, TypeInv
<1>2. WriteFits'
  BY DEF RingInv, ringVars, WriteFits
<1>3. Exclusive => ReadFits'
  BY DEF RingInv, ringVars, ReadFits
<1>4. Exclusive => Tidy'
  BY DEF RingInv, ringVars, Tidy
<1> QED  BY <1>1, <1>2, <1>3, <1>4 DEF RingInv

LEMMA Inductive == RingInv /\ [RingNext]_ringVars => RingInv'
<1> SUFFICES ASSUME RingInv, [RingNext]_ringVars PROVE RingInv'
  OBVIOUS
<1>1. CASE Write
  <2>1. TypeInv'                BY <1>1, WriterTypes DEF RingInv
  <2>2. WriteFits'              BY <1>1, WriteKeepsFit DEF RingInv
  <2>3. Exclusive => ReadFits'  BY <1>1, OthersKeepReadFit DEF RingInv
  <2>4. Exclusive => Tidy'      BY <1>1, TidyWrites DEF RingInv
  <2> QED  BY <2>1, <2>2, <2>3, <2>4 DEF RingInv
<1>2. CASE Read
  <2>1. TypeInv'                BY <1>2, ReaderTypes DEF RingInv
  <2>2. WriteFits'              BY <1>2, ReadLeavesWriter DEF RingInv, WriteFits
  <2>3. Exclusive => ReadFits'  BY <1>2, ReadKeepsFit DEF RingInv
  <2>4. Exclusive => Tidy'      BY <1>2, TidyReads DEF RingInv
  <2> QED  BY <2>1, <2>2, <2>3, <2>4 DEF RingInv
<1>3. CASE Lifecycle
  <2>1. TypeInv'                BY <1>3, LifecycleTypes DEF RingInv
  <2>2. WriteFits'              BY <1>3, LifecycleKeepsWriteFit DEF RingInv
  <2>3. Exclusive => ReadFits'  BY <1>3, OthersKeepReadFit DEF RingInv
  <2>4. Exclusive => Tidy'      BY <1>3, TidyLifecycle DEF RingInv
  <2> QED  BY <2>1, <2>2, <2>3, <2>4 DEF RingInv
<1>4. CASE UNCHANGED ringVars
  BY <1>4, Stutter
<1> QED  BY <1>1, <1>2, <1>3, <1>4 DEF RingNext

LEMMA RingInvariance == RingSpec => []RingInv
<1>1. RingInit => RingInv
  <2>1. RingInit => WriteFits /\ ReadFits /\ Tidy
    BY DEF RingInit, WriteFits, ReadFits, Tidy
  <2> QED  BY <2>1, InitTypes DEF RingInv
<1> QED  BY <1>1, Inductive, PTL DEF RingSpec

(* The position a write goes on from is always a cell of data[], which    *)
(* holds only floats that were written, however the steps of the two       *)
(* processes interleave; the position a read goes on from too, when the    *)
(* calls are kept apart (VPAudioOutputIPC.c:120-209).                      *)
THEOREM PositionsAreCells == RingSpec => []RingTypeOK
<1>1. RingInv => RingTypeOK
  BY DEF RingInv, TypeInv, RingTypeOK, Segment, Writer, Reader, WriterAt, ReaderAt, Data
<1> QED  BY <1>1, RingInvariance, PTL

(* The producer's two memcpy stay inside data[] for every size of block    *)
(* the ring can hold, also when the consumer attaches and clears the       *)
(* segment, field by field, between the loads a length is computed from    *)
(* and its use; but for a length that came out negative from a cleared     *)
(* bufferSize and the position of before (VPAudioOutputIPC.c:189).         *)
THEOREM WritesStayInside == RingSpec => []WriteInBounds
<1>1. RingInv => WriteInBounds
  <2> SUFFICES ASSUME RingInv PROVE WriteInBounds
    OBVIOUS
  <2>1. /\ w.n1 \in Int /\ w.count \in Nat
        /\ MIN(w.count, shm.bufferSize) <= w.count
        /\ MIN(w.count, shm.bufferSize) \in Nat
        /\ shm.writerPosition \in Nat
    BY RingConstants DEF RingInv, TypeInv, Writer, Segment, Slots, MIN
  <2> QED  BY <2>1, RingConstants DEF RingInv, WriteFits, Fits, WriteInBounds, Torn
<1> QED  BY <1>1, RingInvariance, PTL

(* When the calls of the two sides do not overlap, the consumer's two      *)
(* memcpy stay inside data[] and inside its own buffer, in spite of the    *)
(* miscount of what it has read.                                           *)
THEOREM ReadsStayInside == RingSpec => [](Exclusive => ReadInBounds)
<1>1. RingInv => (Exclusive => ReadInBounds)
  <2> SUFFICES ASSUME RingInv, Exclusive PROVE ReadInBounds
    OBVIOUS
  <2>1. RingTypeOK
    BY DEF RingInv, TypeInv, RingTypeOK, Segment, Writer, Reader, WriterAt, ReaderAt, Data
  <2>2. /\ r.n1 \in Int /\ r.count \in Nat /\ r.copied \in Nat
        /\ MIN(r.count, shm.bufferSize) <= r.count
        /\ MIN(r.count, shm.bufferSize) <= BufferSize
        /\ MIN(r.count, shm.bufferSize) \in Nat
        /\ shm.readerPosition \in Nat
    BY RingConstants DEF RingInv, TypeInv, Reader, Segment, Slots, MIN
  <2> QED  BY <2>1, <2>2, RingConstants DEF RingInv, ReadFits, ReadInBounds
<1> QED  BY <1>1, RingInvariance, PTL

-----------------------------------------------------------------------------
(***************************************************************************)
(* The order of what is read.  It is kept when the calls are kept apart,   *)
(* every block has the one size b, the ring holds a whole number of        *)
(* blocks, and a read asks for as much as the ring holds, as the consumer  *)
(* does (vp_obs_audio_source.m:176).  Then no write crosses the end of     *)
(* data[], and no read passes floats over.                                 *)
(*                                                                         *)
(* Between calls the last unconsumed floats written wait from the reader   *)
(* position on; or the count is negative, after a read that crossed the    *)
(* end, and then nothing is read until the next write has reset the ring.  *)
(***************************************************************************)

Blocks(b) == {n \in Nat : \E j \in Nat : n = j * b}

WholeBlocks(b) ==
    /\ b \in Nat \ {0} /\ BlockSizes = {b} /\ BufferSize \in Blocks(b)

(* The cell i floats after position p, around the end of data[].           *)
Cell(p, i) == IF p + i >= BufferSize THEN p + i - BufferSize ELSE p + i

(* The last u floats written wait, in order, in front of the writer, and   *)
(* all that was heard is older.                                            *)
InFront(b, u) ==
    /\ u \in Blocks(b) /\ u <= BufferSize
    /\ shm.writerPosition \in Blocks(b)
    /\ shm.writerPosition = Cell(shm.readerPosition, u)
    /\ \A i \in 0 .. u - 1 :
         shm.data[Cell(shm.readerPosition, i)] = (written - u) + (i + 1)
    /\ heard <= written - u

(* The floats just stored behind the u that wait, the writer position not  *)
(* yet behind them.                                                        *)
Joining(b, u) ==
    /\ u \in Blocks(b) /\ u + b <= BufferSize
    /\ shm.writerPosition \in Blocks(b)
    /\ shm.writerPosition = Cell(shm.readerPosition, u)
    /\ \A i \in 0 .. (u + b) - 1 :
         shm.data[Cell(shm.readerPosition, i)] = (written - (u + b)) + (i + 1)
    /\ heard <= written - (u + b)

Miscounted == shm.unconsumed < 0 /\ -shm.unconsumed < BufferSize

Counted(b) == Miscounted \/ InFront(b, shm.unconsumed)

(* buf holds the oldest of the last u floats written, as many as copied.   *)
Filled(u) ==
    /\ r.copied <= u
    /\ \A i \in 0 .. r.copied - 1 : r.buf[i] = (written - u) + (i + 1)
    /\ heard <= written - u

WriterOrder(b) ==
    /\ w.pc \notin {"wrap", "advance"}
    /\ w.pc \in {"off", "header", "idle", "publish"}
         /\ r.pc \in {"off", "header", "idle", "begin"} => Counted(b)
    /\ w.pc \in {"reset", "space"} => w.count = b /\ w.written = 0
    /\ w.pc \in {"space", "copy"} =>
         InFront(b, shm.unconsumed) /\ shm.unconsumed + b <= BufferSize
    /\ w.pc \in {"copy", "move"} => w.n1 = b /\ w.count = 0
    /\ w.pc = "move" =>
         Joining(b, shm.unconsumed) /\ w.load = shm.writerPosition /\ w.written = b
    /\ w.pc \in {"load", "store"} =>
         w.written = b /\ InFront(b, shm.unconsumed + b)
    /\ w.pc = "store" => w.load = shm.unconsumed

ReaderOrder(b) ==
    /\ r.pc \in {"skip", "space", "copy", "advance"} =>
         /\ InFront(b, shm.unconsumed) /\ shm.unconsumed >= 1
         /\ r.consumed = 0
    /\ r.pc \in {"skip", "space"} => r.count = shm.unconsumed
    /\ r.pc \in {"copy", "advance"} =>
         /\ r.n1 + r.count = shm.unconsumed
         /\ r.n1 >= 1
         /\ r.count > 0 => shm.readerPosition + r.n1 = BufferSize
    /\ r.pc \in {"advance", "wrap"} => Filled(shm.unconsumed)
    /\ r.pc = "wrap" =>
         /\ InFront(b, r.count) /\ r.count > 0 /\ r.copied >= 1
         /\ r.copied + r.count = shm.unconsumed
         /\ shm.unconsumed <= BufferSize /\ r.consumed = r.copied
    /\ r.pc \in {"load", "store"} =>
         /\ InFront(b, 0) /\ r.copied = shm.unconsumed /\ r.copied >= 1
         /\ Filled(r.copied) /\ r.copied <= BufferSize
         /\ r.copied <= r.consumed /\ r.consumed < r.copied + BufferSize
    /\ r.pc = "store" => r.load = shm.unconsumed
    /\ r.pc = "return" =>
         /\ Counted(b)
         /\ r.consumed > 0 =>
              /\ r.copied >= 1 /\ r.copied <= BufferSize
              /\ Filled(r.copied) /\ shm.unconsumed <= 0

(* One side is between calls; and while a call runs, the header is set.    *)
Apart ==
    /\ w.pc \in {"off", "idle"} \/ r.pc \in {"off", "idle"}
    /\ shm.bufferSize = 0 => \/ w.pc \in {"clear", "header"}
                             \/ r.pc \in {"clear", "header"}
                             \/ w.pc = "off" /\ r.pc = "off"

OrderInv(b) ==
    /\ heard \in Int /\ heard <= written
    /\ Apart /\ WriterOrder(b) /\ ReaderOrder(b)

LEMMA BlockFacts ==
  ASSUME NEW b, WholeBlocks(b)
  PROVE  /\ b \in Nat /\ b >= 1 /\ b <= BufferSize /\ 0 \in Blocks(b)
         /\ \A n \in Blocks(b) : n \in Nat /\ n + b \in Blocks(b)
         /\ \A n \in Blocks(b) : n < BufferSize => n + b <= BufferSize
<1>1. b \in Nat /\ b >= 1 /\ BufferSize \in Nat /\ BufferSize >= 1
  BY RingConstants DEF WholeBlocks
<1>2. b <= BufferSize
  BY RingConstants DEF WholeBlocks
<1>3. 0 \in Blocks(b)
  BY <1>1, 0 = 0 * b DEF Blocks
<1>4. ASSUME NEW n \in Blocks(b)
      PROVE  n \in Nat /\ n + b \in Blocks(b)
  <2>1. PICK j \in Nat : n = j * b
    BY DEF Blocks
  <2>2. n + b = (j + 1) * b /\ n \in Nat
    BY <1>1, <2>1 DEF Blocks
  <2>3. (j + 1) \in Nat /\ n + b \in Nat
    BY <1>1, <2>2
  <2>4. \E i \in Nat : n + b = i * b
    BY <2>2, <2>3, Zenon
  <2> QED  BY <2>2, <2>3, <2>4 DEF Blocks
<1>5. ASSUME NEW n \in Blocks(b), n < BufferSize
      PROVE  n + b <= BufferSize
  <2>1. PICK j \in Nat : n = j * b
    BY DEF Blocks
  <2>2. PICK k \in Nat : BufferSize = k * b
    BY DEF Blocks, WholeBlocks
  <2>3. j < k
    <3>1. CASE j >= k
      <4>1. j * b = k * b + (j - k) * b
        BY <1>1
      <4>2. (j - k) * b \in Nat
        BY <1>1, <3>1
      <4> QED  BY <1>1, <1>5, <2>1, <2>2, <4>1, <4>2
    <3> QED  BY <3>1
  <2>4. k * b = (j + 1) * b + (k - j - 1) * b
    BY <1>1
  <2>5. (k - j - 1) * b \in Nat
    BY <1>1, <2>3
  <2>6. (j + 1) * b = n + b
    BY <1>1, <2>1
  <2> QED  BY <1>1, <2>1, <2>2, <2>4, <2>5, <2>6
<1> QED  BY <1>1, <1>2, <1>3, <1>4, <1>5

LEMMA SegmentFacts ==
  ASSUME TypeInv
  PROVE  /\ BufferSize \in Nat /\ BufferSize >= 1 /\ written \in Nat
         /\ shm.writerPosition \in Nat /\ shm.writerPosition < BufferSize
         /\ shm.readerPosition \in Nat /\ shm.readerPosition < BufferSize
         /\ shm.unconsumed \in Int
         /\ w.count \in Nat /\ w.n1 \in Int /\ w.written \in Nat
         /\ r.count \in Nat /\ r.n1 \in Int /\ r.consumed \in Nat /\ r.copied \in Nat
         /\ shm.bufferSize \in {0, BufferSize}
  BY RingConstants, SMTT(30) DEF TypeInv, Segment, Slots, Writer, Reader

(* A cleared or reset ring has nothing in front of its reader.             *)
LEMMA NothingInFront ==
  ASSUME NEW b, WholeBlocks(b),
         shm'.writerPosition = 0, shm'.readerPosition = 0,
         written' = written, heard' = heard, heard <= written, written \in Nat
  PROVE  InFront(b, 0)'
  BY BlockFacts, RingConstants DEF InFront, Cell

-----------------------------------------------------------------------------

(* A block, stored in front of the writer, joins what waits; and then the  *)
(* writer moves behind it.                                                 *)
LEMMA CopyJoins ==
  ASSUME NEW b, WholeBlocks(b), TypeInv, WriteFits, OrderInv(b), Exclusive, WriteCopy
  PROVE  /\ Joining(b, shm.unconsumed)'
         /\ w'.pc = "move" /\ w'.n1 = b /\ w'.count = 0 /\ w'.written = b
         /\ w'.load = shm'.writerPosition /\ shm'.bufferSize = shm.bufferSize
<1> DEFINE wp == shm.writerPosition
           rp == shm.readerPosition
           u  == shm.unconsumed
<1>1. /\ w.pc = "copy" /\ w.n1 = b /\ w.count = 0
      /\ InFront(b, u) /\ u + b <= BufferSize
  BY DEF WriteCopy, WriterStep, OrderInv, WriterOrder
<1>2. /\ wp \in Nat /\ wp < BufferSize /\ rp \in Nat /\ rp < BufferSize /\ u \in Nat
      /\ b \in Nat /\ b >= 1 /\ BufferSize \in Nat
      /\ written \in Nat /\ heard \in Int
      /\ wp = Cell(rp, u) /\ wp \in Blocks(b) /\ u \in Blocks(b)
      /\ heard <= written - u
  BY <1>1, SegmentFacts, BlockFacts DEF InFront, OrderInv
<1>3. wp + b <= BufferSize
  BY <1>2, BlockFacts
<1>4. /\ written' = written + b /\ heard' = heard
      /\ shm'.readerPosition = rp /\ shm'.unconsumed = u
      /\ shm'.writerPosition = wp /\ shm'.bufferSize = shm.bufferSize
      /\ shm'.data = Stored(b)
      /\ w'.pc = "move" /\ w'.written = b /\ w'.load = wp
      /\ w'.n1 = w.n1 /\ w'.count = w.count
  BY <1>1 DEF WriteCopy, onlyWriter, TypeInv, Segment, Writer
<1>7. ASSUME NEW i \in 0 .. (u + b) - 1
      PROVE  shm'.data[Cell(rp, i)] = ((written + b) - (u + b)) + (i + 1)
  <2>1. Cell(rp, i) \in Slots
    BY <1>1, <1>2, RingConstants DEF Cell, Slots
  <2>2. CASE i < u
    <3>1. ~(Cell(rp, i) >= wp /\ Cell(rp, i) < wp + b)
      BY <1>1, <1>2, <2>2 DEF Cell
    <3>2. shm'.data[Cell(rp, i)] = shm.data[Cell(rp, i)]
      BY <1>4, <2>1, <3>1 DEF Stored
    <3>3. shm.data[Cell(rp, i)] = (written - u) + (i + 1)
      BY <1>1, <1>2, <2>2 DEF InFront
    <3> QED  BY <1>2, <3>2, <3>3
  <2>3. CASE i >= u
    <3>1. Cell(rp, i) = wp + (i - u)
      BY <1>1, <1>2, <1>3, <2>3 DEF Cell
    <3>2. Cell(rp, i) >= wp /\ Cell(rp, i) < wp + b
      BY <1>2, <2>3, <3>1
    <3>3. shm'.data[Cell(rp, i)] = written + 1 + (Cell(rp, i) - wp)
      BY <1>4, <2>1, <3>2 DEF Stored
    <3> QED  BY <1>2, <3>1, <3>3
  <2> QED  BY <1>2, <2>2, <2>3
<1>8. heard' <= written' - (u + b)
  BY <1>2, <1>4
<1>9. Joining(b, shm.unconsumed)'
  BY <1>1, <1>2, <1>4, <1>7, <1>8 DEF Joining, Cell
<1> QED  BY <1>1, <1>4, <1>9

LEMMA MoveFollows ==
  ASSUME NEW b, WholeBlocks(b), TypeInv, WriteFits, OrderInv(b), Exclusive, WriteMove
  PROVE  /\ InFront(b, shm.unconsumed + b)'
         /\ w'.pc = "load" /\ w'.written = b
         /\ written' = written /\ shm'.bufferSize = shm.bufferSize
<1> DEFINE wp == shm.writerPosition
           rp == shm.readerPosition
           u  == shm.unconsumed
<1>1. /\ w.pc = "move" /\ w.n1 = b /\ w.count = 0 /\ w.written = b /\ w.load = wp
      /\ Joining(b, u) /\ shm.bufferSize = BufferSize
  <2>1. w.pc = "move" /\ r.pc \in {"off", "idle"}
    BY DEF WriteMove, WriterStep, WriterMayStep
  <2> QED  BY <2>1, SegmentFacts DEF OrderInv, WriterOrder, Apart
<1>2. /\ wp \in Nat /\ wp < BufferSize /\ rp \in Nat /\ rp < BufferSize /\ u \in Nat
      /\ b \in Nat /\ b >= 1 /\ BufferSize \in Nat
      /\ written \in Nat /\ heard \in Int
      /\ wp = Cell(rp, u) /\ wp \in Blocks(b) /\ u \in Blocks(b) /\ u + b <= BufferSize
  BY <1>1, SegmentFacts, BlockFacts DEF Joining, OrderInv
<1>3. wp + b <= BufferSize
  BY <1>2, BlockFacts
<1>4. /\ written' = written /\ heard' = heard
      /\ shm'.readerPosition = rp /\ shm'.unconsumed = u
      /\ shm'.writerPosition = Advanced(wp, b) /\ shm'.bufferSize = shm.bufferSize
      /\ shm'.data = shm.data
      /\ w'.pc = "load" /\ w'.written = b
  <2>1. shm' = [shm EXCEPT !.writerPosition = Advanced(wp, b)]
    BY <1>1 DEF WriteMove
  <2>2. w' = [w EXCEPT !.pc = "load"] /\ written' = written /\ heard' = heard
    BY <1>1 DEF WriteMove, onlyWriter
  <2> QED  BY <1>1, <2>1, <2>2 DEF TypeInv, Segment, Writer
<1>5. /\ Advanced(wp, b) = IF wp + b = BufferSize THEN 0 ELSE wp + b
      /\ Advanced(wp, b) \in Blocks(b)
  <2>1. Advanced(wp, b) = IF wp + b = BufferSize THEN 0 ELSE wp + b
    BY <1>1, <1>2, <1>3 DEF Advanced, Unsigned
  <2> QED  BY <1>2, <2>1, BlockFacts
<1>6. Advanced(wp, b) = Cell(rp, u + b)
  <2>1. CASE rp + u >= BufferSize
    BY <1>2, <1>3, <1>5, <2>1 DEF Cell
  <2>2. CASE ~(rp + u >= BufferSize)
    BY <1>2, <1>3, <1>5, <2>2 DEF Cell
  <2> QED  BY <2>1, <2>2
<1>7. u + b \in Blocks(b)
  BY <1>2, BlockFacts
<1>8. InFront(b, shm.unconsumed + b)'
  BY <1>1, <1>2, <1>4, <1>5, <1>6, <1>7 DEF Joining, InFront, Cell
<1> QED  BY <1>4, <1>8

LEMMA WritesKeepOrder ==
  ASSUME NEW b, WholeBlocks(b), TypeInv, Tidy, WriteFits, OrderInv(b), Exclusive, Write
  PROVE  OrderInv(b)'
<1> DEFINE u == shm.unconsumed
<1>1. /\ r.pc \in {"off", "idle"} /\ r' = r /\ heard' = heard
      /\ w.pc \notin {"off", "clear", "header"}
  BY DEF Write, WriteBegin, ResetRing, WriteSpace, WriteCopy, WriteMove, WriteWrap, WriteAdvance,
     WriteLoad, WriteStore, Publish, WriterStep, WriterMayStep, onlyWriter
<1>2. ReaderOrder(b)'
  BY <1>1 DEF ReaderOrder
<1>3. shm.bufferSize = BufferSize
  BY <1>1, SegmentFacts DEF OrderInv, Apart
<1>4. /\ b \in Nat /\ b >= 1 /\ b <= BufferSize /\ written \in Nat /\ heard \in Int
      /\ heard <= written /\ u \in Int
  BY SegmentFacts, BlockFacts DEF OrderInv
<1>5. SUFFICES /\ WriterOrder(b)' /\ heard' <= written'
               /\ shm'.bufferSize = shm.bufferSize
  BY <1>1, <1>2, <1>3, <1>4, RingConstants DEF OrderInv, Apart
<1> USE DEF WriterStep
<1>6. CASE \E count \in BlockSizes : WriteBegin(count)
  <2>1. WriteBegin(b)
    BY <1>6 DEF WholeBlocks
  <2>2. /\ w.pc = "idle" /\ Counted(b) /\ shm' = shm /\ written' = written
        /\ w'.count = b /\ w'.written = 0
        /\ w'.pc = IF Unsigned(u) >= Unsigned(BufferSize - 1) THEN "reset" ELSE "space"
    BY <1>1, <1>3, <2>1 DEF WriteBegin, TypeInv, Writer, OrderInv, WriterOrder
  <2>3. CASE Unsigned(u) >= Unsigned(BufferSize - 1)
    BY <1>1, <1>4, <2>2, <2>3 DEF WriterOrder
  <2>4. CASE ~(Unsigned(u) >= Unsigned(BufferSize - 1))
    <3>1. u >= 0 /\ u < BufferSize
      BY <1>4, <2>2, <2>4, RingConstants, BlockFacts DEF Unsigned, Counted, Miscounted, InFront
    <3>2. InFront(b, u)
      BY <2>2, <3>1, <1>4 DEF Counted, Miscounted
    <3>3. u + b <= BufferSize
      BY <3>1, <3>2, BlockFacts DEF InFront
    <3>4. InFront(b, u)'
      BY <1>1, <2>2, <3>2 DEF InFront, Cell
    <3> QED  BY <1>1, <1>4, <2>2, <2>4, <3>3, <3>4 DEF WriterOrder
  <2> QED  BY <2>3, <2>4
<1>7. CASE ResetRing
  <2>1. /\ shm' = Zeroed(Positions) /\ written' = written
        /\ w'.pc = "space" /\ w'.count = w.count /\ w'.written = w.written
        /\ w.pc = "reset"
    BY <1>7 DEF ResetRing, onlyWriter, Tidy, Stores, TypeInv, Writer
  <2>2. /\ shm'.unconsumed = 0 /\ shm'.writerPosition = 0 /\ shm'.readerPosition = 0
        /\ shm'.bufferSize = shm.bufferSize
    BY <2>1, ZeroedIs DEF Positions
  <2>3. InFront(b, 0)'
    BY <1>1, <1>4, <2>1, <2>2, NothingInFront
  <2>4. InFront(b, shm.unconsumed)'
    BY <2>2, <2>3
  <2> QED  BY <1>1, <1>4, <2>1, <2>2, <2>4 DEF WriterOrder, OrderInv
<1>8. CASE WriteSpace
  <2>1. /\ w.pc = "space" /\ w.count = b /\ InFront(b, u) /\ u + b <= BufferSize
        /\ w.written = 0
    BY <1>8 DEF WriteSpace, OrderInv, WriterOrder
  <2>2. FirstChunk(w.count, shm.bufferSize, shm.writerPosition) = b
    BY <1>3, <1>4, <2>1, BlockFacts, SegmentFacts DEF FirstChunk, MIN, InFront
  <2>3. /\ w'.pc = "copy" /\ w'.n1 = b /\ w'.count = 0
        /\ shm' = shm /\ written' = written
    <3>1. w' = [w EXCEPT !.pc = "copy", !.n1 = FirstChunk(w.count, shm.bufferSize, shm.writerPosition),
                         !.count = @ - FirstChunk(w.count, shm.bufferSize, shm.writerPosition)]
      BY <1>8 DEF WriteSpace, Tidy
    <3>2. w' = [w EXCEPT !.pc = "copy", !.n1 = b, !.count = @ - b]
      BY <2>2, <3>1
    <3>3. shm' = shm /\ written' = written
      BY <1>8 DEF WriteSpace
    <3> QED  BY <1>4, <2>1, <3>2, <3>3 DEF TypeInv, Writer
  <2>4. InFront(b, u)'
    BY <1>1, <2>1, <2>3 DEF InFront, Cell
  <2> QED  BY <1>1, <1>4, <2>1, <2>3, <2>4 DEF WriterOrder
<1>9. CASE WriteCopy
  <2>1. /\ Joining(b, shm.unconsumed)'
        /\ w'.pc = "move" /\ w'.n1 = b /\ w'.count = 0 /\ w'.written = b
        /\ w'.load = shm'.writerPosition /\ shm'.bufferSize = shm.bufferSize
    BY <1>9, CopyJoins
  <2>2. written' = written + w.n1 /\ w.n1 \in Nat
    BY <1>9, SegmentFacts DEF WriteCopy
  <2> QED  BY <1>1, <1>4, <2>1, <2>2 DEF WriterOrder
<1>9a. CASE WriteMove
  BY <1>1, <1>4, <1>9a, MoveFollows DEF WriterOrder
<1>10. CASE WriteWrap    BY <1>10 DEF WriteWrap, OrderInv, WriterOrder
<1>11. CASE WriteAdvance BY <1>11 DEF WriteAdvance, OrderInv, WriterOrder
<1>12. CASE WriteLoad
  <2>1. /\ w.pc = "load" /\ w.written = b /\ InFront(b, u + b)
    BY <1>12 DEF WriteLoad, OrderInv, WriterOrder
  <2>2. /\ w'.pc = "store" /\ w'.load = u /\ w'.written = w.written
        /\ shm' = shm /\ written' = written
    BY <1>12 DEF WriteLoad, TypeInv, Writer
  <2>3. InFront(b, shm.unconsumed + b)'
    BY <1>1, <2>1, <2>2 DEF InFront, Cell
  <2> QED  BY <1>1, <1>4, <2>1, <2>2, <2>3 DEF WriterOrder
<1>13. CASE WriteStore
  <2>1. /\ w.pc = "store" /\ w.written = b /\ w.load = u /\ InFront(b, u + b)
    BY <1>13 DEF WriteStore, OrderInv, WriterOrder
  <2>2. /\ w'.pc = "publish" /\ written' = written /\ shm'.unconsumed = u + b
        /\ shm'.writerPosition = shm.writerPosition
        /\ shm'.readerPosition = shm.readerPosition
        /\ shm'.data = shm.data /\ shm'.bufferSize = shm.bufferSize
    BY <1>13, <2>1 DEF WriteStore, TypeInv, Writer, Segment
  <2>3. InFront(b, shm.unconsumed)'
    BY <1>1, <2>1, <2>2 DEF InFront, Cell
  <2> QED  BY <1>1, <1>4, <2>2, <2>3 DEF WriterOrder, Counted
<1>14. CASE Publish
  <2>1. w.pc = "publish" /\ Counted(b)
    BY <1>1, <1>14 DEF Publish, OrderInv, WriterOrder
  <2>2. /\ w'.pc = "idle" /\ written' = written /\ shm'.unconsumed = u
        /\ shm'.writerPosition = shm.writerPosition
        /\ shm'.readerPosition = shm.readerPosition
        /\ shm'.data = shm.data /\ shm'.bufferSize = shm.bufferSize
    BY <1>14 DEF Publish, TypeInv, Writer, Segment
  <2>3. Counted(b)'
    BY <1>1, <2>1, <2>2 DEF Counted, Miscounted, InFront, Cell
  <2> QED  BY <1>1, <1>4, <2>2, <2>3 DEF WriterOrder
<1> QED
  BY <1>6, <1>7, <1>8, <1>9, <1>9a, <1>10, <1>11, <1>12, <1>13, <1>14, SMTT(30) DEF Write

(* What a step of the consumer leaves alone.                               *)
LEMMA ReadLeavesOrder ==
  ASSUME NEW b, WholeBlocks(b), TypeInv, OrderInv(b), Exclusive, Read
  PROVE  /\ w.pc \in {"off", "idle"} /\ w' = w /\ written' = written
         /\ r.pc \notin {"off", "clear", "header"}
         /\ shm.bufferSize = BufferSize /\ shm'.bufferSize = BufferSize
         /\ shm'.writerPosition = shm.writerPosition
         /\ shm'.data = shm.data
<1> USE DEF ReaderStep, ReaderMayStep, onlyReader
<1>1. w.pc \in {"off", "idle"} /\ r.pc \notin {"off", "clear", "header"}
  BY DEF Read, Poll, ReadBegin, ReadSkip, ReadSpace, ReadCopy, ReadAdvance,
     ReadWrap, ReadLoad, ReadStore, ReadReturn
<1>2. written' = written
  BY DEF Read, Poll, ReadBegin, ReadSkip, ReadSpace, ReadCopy, ReadAdvance,
     ReadWrap, ReadLoad, ReadStore, ReadReturn
<1>3. w' = w /\ shm'.writerPosition = shm.writerPosition
  BY ReadLeavesWriter
<1>4. shm.bufferSize = BufferSize
  BY <1>1, SegmentFacts DEF OrderInv, Apart
<1>5. shm'.bufferSize = shm.bufferSize /\ shm'.data = shm.data
  <2>1. CASE Poll        BY <2>1 DEF Poll
  <2>2. CASE ReadBegin   BY <2>2 DEF ReadBegin
  <2>3. CASE ReadSkip
    <3>1. CASE shm.unconsumed - r.count > 0
      BY <2>3, <3>1 DEF ReadSkip, TypeInv, Segment
    <3>2. CASE ~(shm.unconsumed - r.count > 0)
      BY <2>3, <3>2 DEF ReadSkip
    <3> QED  BY <3>1, <3>2
  <2>4. CASE ReadSpace   BY <2>4 DEF ReadSpace
  <2>5. CASE ReadCopy    BY <2>5 DEF ReadCopy
  <2>6. CASE ReadAdvance BY <2>6 DEF ReadAdvance, TypeInv, Segment
  <2>7. CASE ReadWrap    BY <2>7 DEF ReadWrap, TypeInv, Segment
  <2>8. CASE ReadLoad    BY <2>8 DEF ReadLoad
  <2>9. CASE ReadStore   BY <2>9 DEF ReadStore, TypeInv, Segment
  <2>10. CASE ReadReturn BY <2>10 DEF ReadReturn
  <2> QED
    BY <2>1, <2>2, <2>3, <2>4, <2>5, <2>6, <2>7, <2>8, <2>9, <2>10 DEF Read
<1> QED  BY <1>1, <1>2, <1>3, <1>4, <1>5

(* A copy of n floats that wait extends what buf holds of the last u.      *)
LEMMA FetchedFills ==
  ASSUME NEW u \in Nat, NEW n \in Nat, TypeInv, MaxCount >= BufferSize,
         Filled(u), r.copied + n <= u, u <= BufferSize,
         shm.readerPosition + n <= BufferSize,
         \A i \in 0 .. n - 1 :
            shm.data[shm.readerPosition + i] = (written - u) + (r.copied + i + 1)
  PROVE  \A i \in 0 .. (r.copied + n) - 1 : Fetched(n)[i] = (written - u) + (i + 1)
<1> SUFFICES ASSUME NEW i \in 0 .. (r.copied + n) - 1
             PROVE  Fetched(n)[i] = (written - u) + (i + 1)
  OBVIOUS
<1>1. i \in 0 .. MaxCount - 1 /\ r.copied \in Nat /\ written \in Nat
  BY SegmentFacts, RingConstants
<1>2. CASE i < r.copied
  <2>1. Fetched(n)[i] = r.buf[i]
    BY <1>1, <1>2 DEF Fetched
  <2> QED  BY <1>1, <1>2, <2>1 DEF Filled
<1>3. CASE i >= r.copied
  <2> DEFINE j == i - r.copied
  <2>1. j \in 0 .. n - 1 /\ i = r.copied + j
    BY <1>1, <1>3
  <2>2. shm.readerPosition + j \in Slots
    BY <2>1, SegmentFacts DEF Slots
  <2>3. Fetched(n)[i] = shm.data[shm.readerPosition + j]
    BY <1>1, <1>3, <2>1, <2>2 DEF Fetched
  <2>4. shm.data[shm.readerPosition + j] = (written - u) + (r.copied + j + 1)
    BY <2>1
  <2> QED  BY <1>1, <2>1, <2>3, <2>4
<1> QED  BY <1>1, <1>2, <1>3

LEMMA CopyKeepsOrder ==
  ASSUME NEW b, WholeBlocks(b), MaxCount >= BufferSize, TypeInv, ReadFits, OrderInv(b),
         Exclusive, ReadCopy
  PROVE  ReaderOrder(b)' /\ heard' = heard /\ r'.pc = "advance"
<1> DEFINE u  == shm.unconsumed
           rp == shm.readerPosition
<1>1. /\ r.pc = "copy" /\ InFront(b, u) /\ u >= 1 /\ r.consumed = 0
      /\ r.n1 + r.count = u /\ r.n1 >= 1
      /\ r.count > 0 => rp + r.n1 = BufferSize
      /\ r.copied = 0 /\ rp + r.n1 <= BufferSize
  BY DEF ReadCopy, ReaderStep, OrderInv, ReaderOrder, ReadFits
<1>2. /\ u \in Nat /\ u <= BufferSize /\ r.n1 \in Nat /\ r.count \in Nat
      /\ rp \in Nat /\ BufferSize \in Nat /\ written \in Nat
      /\ r.copied \in Nat /\ heard <= written - u
  BY <1>1, SegmentFacts DEF InFront
<1>3. /\ r'.pc = "advance" /\ r'.buf = Fetched(r.n1) /\ r'.copied = r.n1
      /\ r'.n1 = r.n1 /\ r'.count = r.count /\ r'.consumed = r.consumed
      /\ shm' = shm /\ written' = written /\ heard' = heard
  BY <1>1, <1>2 DEF ReadCopy, onlyReader, TypeInv, Reader
<1>4. \A i \in 0 .. (r.copied + r.n1) - 1 : Fetched(r.n1)[i] = (written - u) + (i + 1)
  <2>1. Filled(u)
    BY <1>1, <1>2 DEF Filled
  <2>2. ASSUME NEW i \in 0 .. r.n1 - 1
        PROVE  shm.data[rp + i] = (written - u) + (r.copied + i + 1)
    <3>1. Cell(rp, i) = rp + i
      BY <1>1, <1>2 DEF Cell
    <3> QED  BY <1>1, <1>2, <3>1 DEF InFront
  <2>3. r.copied + r.n1 <= u
    BY <1>1, <1>2
  <2> QED  BY <1>1, <1>2, <2>1, <2>2, <2>3, FetchedFills
<1>5. Filled(shm.unconsumed)'
  BY <1>1, <1>2, <1>3, <1>4 DEF Filled
<1>6. InFront(b, shm.unconsumed)'
  BY <1>1, <1>3 DEF InFront, Cell
<1> QED  BY <1>1, <1>3, <1>5, <1>6 DEF ReaderOrder

LEMMA AdvanceKeepsOrder ==
  ASSUME NEW b, WholeBlocks(b), TypeInv, ReadFits, OrderInv(b), Exclusive, ReadAdvance
  PROVE  ReaderOrder(b)' /\ heard' = heard /\ r'.pc \in {"wrap", "load"}
<1> DEFINE u  == shm.unconsumed
           rp == shm.readerPosition
           wp == shm.writerPosition
<1>1. /\ r.pc = "advance" /\ InFront(b, u) /\ u >= 1 /\ r.consumed = 0
      /\ r.n1 + r.count = u /\ r.n1 >= 1
      /\ r.count > 0 => rp + r.n1 = BufferSize
      /\ Filled(u) /\ r.load = rp /\ r.copied = r.n1 /\ rp + r.n1 <= BufferSize
  BY DEF ReadAdvance, ReaderStep, OrderInv, ReaderOrder, ReadFits
<1>2. /\ u \in Nat /\ u <= BufferSize /\ r.n1 \in Nat /\ r.count \in Nat
      /\ rp \in Nat /\ rp < BufferSize /\ BufferSize \in Nat /\ written \in Nat
      /\ wp \in Nat /\ wp < BufferSize /\ wp = Cell(rp, u) /\ wp \in Blocks(b)
      /\ heard \in Int /\ heard <= written - u
  BY <1>1, SegmentFacts DEF InFront, OrderInv
<1>3. shm.bufferSize = BufferSize /\ Read
  BY <1>1, ReadLeavesOrder DEF Read
<1>4. /\ r'.pc = IF r.count > 0 THEN "wrap" ELSE "load"
      /\ r'.consumed = r.n1 /\ r'.copied = r.n1 /\ r'.count = r.count /\ r'.buf = r.buf
      /\ shm'.readerPosition = Advanced(rp, r.n1)
      /\ shm'.unconsumed = u /\ shm'.writerPosition = wp /\ shm'.data = shm.data
      /\ written' = written /\ heard' = heard
  BY <1>1, <1>2 DEF ReadAdvance, onlyReader, TypeInv, Reader, Segment
<1>5. Advanced(rp, r.n1) = IF rp + r.n1 = BufferSize THEN 0 ELSE rp + r.n1
  BY <1>1, <1>2, <1>3 DEF Advanced, Unsigned
<1>6. Filled(shm.unconsumed)' /\ Filled(r.copied)' = Filled(r.copied)
  BY <1>1, <1>4 DEF Filled
<1>7. CASE r.count > 0
  <2>1. rp + r.n1 = BufferSize /\ shm'.readerPosition = 0 /\ r'.pc = "wrap"
    BY <1>1, <1>4, <1>5, <1>7
  <2>2. wp = r.count
    BY <1>1, <1>2, <1>7, <2>1 DEF Cell
  <2>3. ASSUME NEW i \in 0 .. r.count - 1
        PROVE  shm.data[Cell(0, i)] = (written - r.count) + (i + 1)
    <3>1. Cell(0, i) = Cell(rp, r.n1 + i)
      BY <1>1, <1>2, <2>1 DEF Cell
    <3>2. shm.data[Cell(rp, r.n1 + i)] = (written - u) + ((r.n1 + i) + 1)
      BY <1>1, <1>2 DEF InFront
    <3> QED  BY <1>1, <1>2, <3>1, <3>2
  <2>4. InFront(b, r.count)'
    BY <1>1, <1>2, <1>4, <2>1, <2>2, <2>3 DEF InFront, Cell
  <2> QED  BY <1>1, <1>2, <1>4, <1>6, <1>7, <2>1, <2>4 DEF ReaderOrder
<1>8. CASE ~(r.count > 0)
  <2>1. r.n1 = u /\ r'.pc = "load"
    BY <1>1, <1>2, <1>4, <1>8
  <2>2. shm'.readerPosition = wp
    BY <1>1, <1>2, <1>4, <1>5, <2>1 DEF Cell
  <2>3. InFront(b, 0)'
    BY <1>2, <1>4, <2>2, BlockFacts DEF InFront, Cell
  <2>4. Filled(r.copied)'
    BY <1>1, <1>4, <2>1 DEF Filled
  <2> QED  BY <1>1, <1>2, <1>4, <2>1, <2>3, <2>4 DEF ReaderOrder
<1> QED  BY <1>4, <1>7, <1>8

LEMMA WrapKeepsOrder ==
  ASSUME NEW b, WholeBlocks(b), MaxCount >= BufferSize, TypeInv, ReadFits, OrderInv(b),
         Exclusive, ReadWrap
  PROVE  ReaderOrder(b)' /\ heard' = heard /\ r'.pc = "load"
<1> DEFINE u == shm.unconsumed
           n == r.count
<1>1. /\ r.pc = "wrap" /\ InFront(b, n) /\ n > 0 /\ r.copied >= 1
      /\ r.copied + n = u /\ u <= BufferSize /\ r.consumed = r.copied
      /\ Filled(u) /\ shm.readerPosition = 0
  BY DEF ReadWrap, ReaderStep, OrderInv, ReaderOrder, ReadFits
<1>2. /\ u \in Nat /\ n \in Nat /\ n < BufferSize /\ BufferSize \in Nat
      /\ r.copied \in Nat /\ written \in Nat
      /\ shm.writerPosition = n /\ shm.writerPosition \in Blocks(b)
      /\ heard \in Int /\ heard <= written - u /\ heard <= written - n
  <2>1. /\ u \in Int /\ n \in Nat /\ r.copied \in Nat /\ BufferSize \in Nat
        /\ written \in Nat /\ heard \in Int
    BY SegmentFacts DEF OrderInv
  <2>2. n < BufferSize /\ u \in Nat
    BY <1>1, <2>1
  <2>3. shm.writerPosition = n /\ shm.writerPosition \in Blocks(b) /\ heard <= written - n
    BY <1>1, <2>1, <2>2 DEF InFront, Cell
  <2>4. heard <= written - u
    BY <1>1 DEF Filled
  <2> QED  BY <2>1, <2>2, <2>3, <2>4
<1>3. shm.bufferSize = BufferSize
  BY <1>1, ReadLeavesOrder DEF Read
<1>4. MIN(r.count, shm.bufferSize) = n
  BY <1>2, <1>3 DEF MIN
<1>5. Advanced(0, n) = n
  BY <1>2, <1>3 DEF Advanced, Unsigned
<1>6. /\ r'.pc = "load" /\ r'.buf = Fetched(n) /\ r'.copied = u
      /\ r'.consumed = u + n
      /\ shm'.readerPosition = n /\ shm'.unconsumed = u
      /\ shm'.writerPosition = n /\ shm'.data = shm.data
      /\ written' = written /\ heard' = heard
  <2>1. /\ r' = [r EXCEPT !.pc = "load", !.buf = Fetched(n),
                          !.copied = @ + n, !.consumed = @ + n + n]
        /\ shm' = [shm EXCEPT !.readerPosition = n]
        /\ written' = written /\ heard' = heard
    BY <1>1, <1>4, <1>5 DEF ReadWrap, onlyReader
  <2> QED  BY <1>1, <1>2, <2>1 DEF TypeInv, Reader, Segment
<1>7. \A i \in 0 .. (r.copied + n) - 1 : Fetched(n)[i] = (written - u) + (i + 1)
  <2>1. ASSUME NEW i \in 0 .. n - 1
        PROVE  shm.data[shm.readerPosition + i] = (written - u) + (r.copied + i + 1)
    <3>1. shm.readerPosition + i = Cell(shm.readerPosition, i)
      BY <1>1, <1>2 DEF Cell
    <3>2. shm.data[Cell(shm.readerPosition, i)] = (written - n) + (i + 1)
      BY <1>1, <1>2 DEF InFront
    <3> QED  BY <1>1, <1>2, <3>1, <3>2
  <2>2. r.copied + n <= u /\ shm.readerPosition + n <= BufferSize
    BY <1>1, <1>2
  <2> QED  BY <1>1, <1>2, <2>1, <2>2, FetchedFills
<1>8. InFront(b, 0)'
  BY <1>2, <1>6, BlockFacts DEF InFront, Cell
<1>9. Filled(r.copied)'
  BY <1>1, <1>2, <1>6, <1>7 DEF Filled
<1> QED  BY <1>1, <1>2, <1>6, <1>8, <1>9 DEF ReaderOrder

LEMMA StoreKeepsOrder ==
  ASSUME NEW b, WholeBlocks(b), TypeInv, OrderInv(b), Exclusive, ReadStore
  PROVE  ReaderOrder(b)' /\ heard' = heard /\ r'.pc = "return"
<1>1. /\ r.pc = "store" /\ InFront(b, 0) /\ r.copied >= 1
      /\ r.copied = shm.unconsumed /\ Filled(r.copied) /\ r.copied <= BufferSize
      /\ r.copied <= r.consumed /\ r.consumed < r.copied + BufferSize
      /\ r.load = shm.unconsumed
  BY DEF ReadStore, ReaderStep, OrderInv, ReaderOrder
<1>2. /\ r.copied \in Nat /\ r.consumed \in Nat /\ BufferSize \in Nat
  BY SegmentFacts
<1>3. /\ r'.pc = "return" /\ r'.buf = r.buf /\ r'.copied = r.copied
      /\ r'.consumed = r.consumed
      /\ shm'.unconsumed = r.copied - r.consumed
      /\ shm'.readerPosition = shm.readerPosition
      /\ shm'.writerPosition = shm.writerPosition /\ shm'.data = shm.data
      /\ written' = written /\ heard' = heard
  BY <1>1 DEF ReadStore, onlyReader, TypeInv, Reader, Segment
<1>4. shm'.unconsumed <= 0 /\ -shm'.unconsumed < BufferSize
  BY <1>1, <1>2, <1>3
<1>5. Counted(b)'
  <2>1. CASE r.copied = r.consumed
    <3>1. InFront(b, 0)' /\ shm'.unconsumed = 0
      BY <1>1, <1>2, <1>3, <2>1 DEF InFront, Cell
    <3>2. InFront(b, shm.unconsumed)'
      BY <3>1
    <3> QED  BY <3>2 DEF Counted
  <2>2. CASE r.copied # r.consumed
    BY <1>1, <1>2, <1>3, <1>4, <2>2 DEF Counted, Miscounted
  <2> QED  BY <2>1, <2>2
<1>6. Filled(r.copied)'
  BY <1>1, <1>3 DEF Filled
<1> QED  BY <1>1, <1>3, <1>4, <1>5, <1>6 DEF ReaderOrder

LEMMA ReadsKeepOrder ==
  ASSUME NEW b, WholeBlocks(b), MaxCount >= BufferSize, TypeInv, Tidy, ReadFits, OrderInv(b),
         Exclusive, Read
  PROVE  OrderInv(b)'
<1> DEFINE u == shm.unconsumed
<1>1. /\ w.pc \in {"off", "idle"} /\ w' = w /\ written' = written
      /\ shm.bufferSize = BufferSize /\ shm'.bufferSize = BufferSize
      /\ shm'.writerPosition = shm.writerPosition /\ shm'.data = shm.data
  BY ReadLeavesOrder
<1>2. /\ written \in Nat /\ heard \in Int /\ heard <= written
      /\ BufferSize \in Nat /\ BufferSize >= 1 /\ u \in Int
      /\ shm.readerPosition \in Nat /\ shm.readerPosition < BufferSize
  BY SegmentFacts DEF OrderInv
<1>3. SUFFICES /\ heard' \in Int /\ heard' <= written' /\ ReaderOrder(b)'
               /\ r'.pc \in {"idle", "begin"} => Counted(b)'
               /\ r'.pc \notin {"off", "clear", "header"}
  BY <1>1, <1>2 DEF OrderInv, Apart, WriterOrder
<1> USE DEF ReaderStep
<1>4. CASE Poll
  <2>1. /\ r.pc = "idle" /\ r'.pc = "begin" /\ shm' = shm /\ heard' = heard
    BY <1>4 DEF Poll, TypeInv, Reader
  <2>2. Counted(b)
    BY <1>1, <2>1 DEF OrderInv, WriterOrder
  <2>3. Counted(b)'
    BY <1>1, <2>1, <2>2 DEF Counted, Miscounted, InFront, Cell
  <2> QED  BY <1>1, <1>2, <2>1, <2>3 DEF ReaderOrder
<1>5. CASE ReadBegin
  <2>1. r.pc = "begin" /\ shm' = shm /\ heard' = heard
    BY <1>5 DEF ReadBegin
  <2>2. Counted(b)
    BY <1>1, <2>1 DEF OrderInv, WriterOrder
  <2>3. CASE u < 1
    <3>1. r'.pc = "return" /\ r'.consumed = 0
      BY <1>5, <2>3 DEF ReadBegin, TypeInv, Reader
    <3>2. Counted(b)'
      BY <1>1, <2>1, <2>2 DEF Counted, Miscounted, InFront, Cell
    <3> QED  BY <1>1, <1>2, <2>1, <3>1, <3>2 DEF ReaderOrder
  <2>4. CASE ~(u < 1)
    <3>1. InFront(b, u) /\ u <= BufferSize
      BY <1>2, <2>2, <2>4 DEF Counted, Miscounted, InFront
    <3>2. MIN(MaxCount, u) = u
      BY <1>2, <3>1, RingConstants DEF MIN
    <3>3. r'.pc = "skip" /\ r'.consumed = 0 /\ r'.count = u
      BY <1>5, <2>4, <3>2 DEF ReadBegin, TypeInv, Reader
    <3>4. InFront(b, shm.unconsumed)'
      BY <1>1, <2>1, <3>1 DEF InFront, Cell
    <3> QED  BY <1>1, <1>2, <2>1, <2>4, <3>3, <3>4 DEF ReaderOrder
  <2> QED  BY <2>3, <2>4
<1>6. CASE ReadSkip
  <2>1. /\ r.pc = "skip" /\ InFront(b, u) /\ u >= 1 /\ r.consumed = 0 /\ r.count = u
    BY <1>6 DEF ReadSkip, OrderInv, ReaderOrder
  <2>2. ~(shm.unconsumed - r.count > 0)
    BY <1>2, <2>1
  <2>3. /\ shm' = shm /\ heard' = heard
        /\ r'.pc = "space" /\ r'.count = r.count /\ r'.consumed = r.consumed
    BY <1>6, <2>2 DEF ReadSkip, TypeInv, Reader
  <2>4. InFront(b, shm.unconsumed)'
    BY <1>1, <2>1, <2>3 DEF InFront, Cell
  <2> QED  BY <1>1, <1>2, <2>1, <2>3, <2>4 DEF ReaderOrder
<1>7. CASE ReadSpace
  <2>1. /\ r.pc = "space" /\ InFront(b, u) /\ u >= 1 /\ r.consumed = 0 /\ r.count = u
    BY <1>7 DEF ReadSpace, OrderInv, ReaderOrder
  <2> DEFINE n1 == FirstChunk(r.count, shm.bufferSize, shm.readerPosition)
  <2>2. /\ n1 \in Nat /\ n1 >= 1 /\ n1 <= u
        /\ n1 < u => shm.readerPosition + n1 = BufferSize
    BY <1>1, <1>2, <2>1 DEF FirstChunk, MIN
  <2>3. /\ shm' = shm /\ heard' = heard
        /\ r'.pc = "copy" /\ r'.n1 = n1 /\ r'.count = u - n1 /\ r'.consumed = 0
    <3>1. r' = [r EXCEPT !.pc = "copy", !.n1 = n1, !.count = @ - n1] /\ shm' = shm /\ heard' = heard
      BY <1>7 DEF ReadSpace, Tidy
    <3> HIDE DEF n1
    <3> QED  BY <2>1, <3>1 DEF TypeInv, Reader
  <2> HIDE DEF n1
  <2>4. InFront(b, shm.unconsumed)'
    BY <1>1, <2>1, <2>3 DEF InFront, Cell
  <2>5. /\ r'.n1 + r'.count = shm'.unconsumed /\ r'.n1 >= 1
        /\ r'.count > 0 => shm'.readerPosition + r'.n1 = BufferSize
    BY <1>2, <2>2, <2>3
  <2> QED  BY <1>1, <1>2, <2>1, <2>3, <2>4, <2>5 DEF ReaderOrder
<1>8. CASE ReadCopy     BY <1>1, <1>2, <1>8, CopyKeepsOrder
<1>9. CASE ReadAdvance  BY <1>1, <1>2, <1>9, AdvanceKeepsOrder
<1>10. CASE ReadWrap    BY <1>1, <1>2, <1>10, WrapKeepsOrder
<1>11. CASE ReadLoad
  <2>1. /\ r.pc = "load" /\ InFront(b, 0) /\ r.copied >= 1
        /\ r.copied = u /\ Filled(r.copied) /\ r.copied <= BufferSize
        /\ r.copied <= r.consumed /\ r.consumed < r.copied + BufferSize
    BY <1>11 DEF ReadLoad, OrderInv, ReaderOrder
  <2>2. /\ shm' = shm /\ heard' = heard /\ r'.pc = "store" /\ r'.load = u
        /\ r'.copied = r.copied /\ r'.consumed = r.consumed /\ r'.buf = r.buf
    BY <1>11 DEF ReadLoad, TypeInv, Reader
  <2>3. InFront(b, 0)' /\ Filled(r.copied)'
    BY <1>1, <2>1, <2>2 DEF InFront, Cell, Filled
  <2> QED  BY <1>1, <1>2, <2>1, <2>2, <2>3 DEF ReaderOrder
<1>12. CASE ReadStore   BY <1>1, <1>2, <1>12, StoreKeepsOrder
<1>13. CASE ReadReturn
  <2>1. /\ r.pc = "return" /\ Counted(b)
        /\ r.consumed > 0 =>
             /\ r.copied >= 1 /\ r.copied <= BufferSize
             /\ Filled(r.copied) /\ u <= 0
    BY <1>13 DEF ReadReturn, OrderInv, ReaderOrder
  <2>2. shm' = shm /\ r'.pc = "idle" /\ r.copied \in Nat /\ r.consumed \in Nat
    BY <1>13, SegmentFacts DEF ReadReturn, TypeInv, Reader
  <2>3. CASE r.consumed > 0
    <3>1. heard' = r.buf[r.copied - 1]
      BY <1>13, <2>3 DEF ReadReturn
    <3>2. r.buf[r.copied - 1] = (written - r.copied) + ((r.copied - 1) + 1)
      BY <2>1, <2>2, <2>3 DEF Filled
    <3>3. heard' = written
      BY <1>2, <2>2, <3>1, <3>2
    <3>4. Counted(b)'
      <4>1. CASE Miscounted
        BY <2>2, <4>1 DEF Counted, Miscounted
      <4>2. CASE InFront(b, u)
        <5>1. u = 0
          BY <2>1, <2>3, <4>2 DEF InFront, Blocks
        <5> QED  BY <1>1, <1>2, <2>2, <3>3, <4>2, <5>1 DEF Counted, InFront, Cell
      <4> QED  BY <2>1, <4>1, <4>2 DEF Counted
    <3> QED  BY <1>1, <1>2, <2>2, <3>3, <3>4 DEF ReaderOrder
  <2>4. CASE ~(r.consumed > 0)
    <3>1. heard' = heard
      BY <1>13, <2>4 DEF ReadReturn
    <3>2. Counted(b)'
      BY <1>1, <2>1, <2>2, <3>1 DEF Counted, Miscounted, InFront, Cell
    <3> QED  BY <1>1, <1>2, <2>2, <3>1, <3>2 DEF ReaderOrder
  <2> QED  BY <2>3, <2>4
<1> QED
  BY <1>4, <1>5, <1>6, <1>7, <1>8, <1>9, <1>10, <1>11, <1>12, <1>13 DEF Read

-----------------------------------------------------------------------------

LEMMA LifecycleKeepsOrder ==
  ASSUME NEW b, WholeBlocks(b), TypeInv, Tidy, ReadFits, OrderInv(b), Exclusive, Lifecycle
  PROVE  OrderInv(b)'
<1> DEFINE between == {"off", "clear", "header", "idle"}
<1>1. /\ written \in Nat /\ heard \in Int /\ heard <= written
      /\ BufferSize \in Nat /\ BufferSize >= 1
  BY SegmentFacts DEF OrderInv
<1>2. /\ w.pc \in between /\ r.pc \in between
      /\ written' = written /\ heard' = heard
  <2>1. ~(r.pc = "copy" /\ r.n1 < 0)
    BY DEF ReadFits, TypeInv, Reader
  <2> QED
    BY <2>1 DEF Lifecycle, ProducerAttach, ProducerClear, ProducerHeader, ProducerExit,
       ConsumerAttach, ConsumerClear, ConsumerHeader, ConsumerExit, WriterMayStep, ReaderMayStep
<1>3. w'.pc \in between /\ r'.pc \in between
  BY <1>2 DEF Lifecycle, ProducerAttach, ProducerClear, ProducerHeader, ProducerExit,
     ConsumerAttach, ConsumerClear, ConsumerHeader, ConsumerExit, TypeInv, Reader, Writer
<1>4. Apart' /\ (w'.pc # "clear" /\ r'.pc # "clear" => Counted(b)')
  <2>1. CASE ProducerAttach
    BY <1>1, <2>1 DEF ProducerAttach, WriterMayStep, Apart, TypeInv, Writer
  <2>2. CASE ConsumerAttach
    BY <1>1, <2>2 DEF ConsumerAttach, ReaderMayStep, Apart, TypeInv, Reader
  <2>3. CASE ProducerClear \/ ConsumerClear
    <3>1. /\ shm' = Zeroed(Fields)
          /\ \/ w'.pc = "header" /\ r'.pc \in {"off", "idle"}
             \/ r'.pc = "header" /\ w'.pc \in {"off", "idle"}
      BY <2>3 DEF ProducerClear, ConsumerClear, WriterMayStep, ReaderMayStep, Tidy, Stores,
         TypeInv, Writer, Reader
    <3>2. shm'.unconsumed = 0 /\ shm'.writerPosition = 0 /\ shm'.readerPosition = 0
      BY <3>1, ZeroedIs DEF Fields
    <3>3. InFront(b, 0)'
      BY <1>1, <1>2, <3>2, NothingInFront
    <3>4. InFront(b, shm.unconsumed)'
      BY <3>2, <3>3
    <3> QED  BY <3>1, <3>4 DEF Counted, Apart
  <2>4. CASE ProducerHeader \/ ConsumerHeader
    <3>1. /\ SetHeader({"magic", "bufferSize"})
          /\ \/ w'.pc = "idle" /\ r'.pc \in {"off", "idle"}
             \/ r'.pc = "idle" /\ w'.pc \in {"off", "idle"}
          /\ w.pc # "clear" /\ r.pc # "clear"
      <4>1. CASE ProducerHeader
        BY <4>1 DEF ProducerHeader, WriterMayStep, Tidy, Stores, TypeInv, Writer
      <4>2. CASE ConsumerHeader
        BY <4>2, ZenonT(40) DEF ConsumerHeader, ReaderMayStep, Tidy, Stores, TypeInv, Reader
      <4> QED  BY <2>4, <4>1, <4>2
    <3>2. Counted(b)
      BY <1>2, <3>1 DEF OrderInv, WriterOrder
    <3>3. Counted(b)'
      BY <1>2, <3>1, <3>2, HeaderIs DEF Counted, Miscounted, InFront, Cell
    <3>4. shm'.bufferSize # 0
      BY <3>1, HeaderIs, RingConstants
    <3> QED  BY <3>1, <3>3, <3>4 DEF Apart
  <2>5. CASE ProducerExit
    <3>1. w.pc = "idle" /\ r.pc \in {"off", "idle"} /\ w'.pc = "off" /\ r' = r /\ shm' = shm
      BY <2>5 DEF ProducerExit, TypeInv, Writer
    <3>2. Counted(b)
      BY <3>1 DEF OrderInv, WriterOrder
    <3> QED  BY <1>2, <3>1, <3>2 DEF Apart, OrderInv, Counted, Miscounted, InFront, Cell
  <2>6. CASE ConsumerExit
    <3>1. r.pc = "idle" /\ w.pc \in {"off", "idle"} /\ r'.pc = "off" /\ w' = w /\ shm' = shm
      BY <1>2, <2>6 DEF ConsumerExit, ReaderMayStep, TypeInv, Reader
    <3>2. Counted(b)
      BY <3>1 DEF OrderInv, WriterOrder
    <3> QED  BY <1>2, <3>1, <3>2 DEF Apart, OrderInv, Counted, Miscounted, InFront, Cell
  <2> QED  BY <2>1, <2>2, <2>3, <2>4, <2>5, <2>6 DEF Lifecycle
<1>5. WriterOrder(b)' /\ ReaderOrder(b)'
  BY <1>3, <1>4 DEF WriterOrder, ReaderOrder
<1> QED  BY <1>1, <1>2, <1>4, <1>5 DEF OrderInv

LEMMA OrderStutters ==
  ASSUME NEW b, OrderInv(b), UNCHANGED ringVars
  PROVE  OrderInv(b)'
  BY DEF OrderInv, Apart, WriterOrder, ReaderOrder, Counted, Miscounted, Filled, InFront,
     Joining, Cell, ringVars

LEMMA OrderInductive ==
  ASSUME NEW b, WholeBlocks(b), MaxCount >= BufferSize, Exclusive,
         RingInv, OrderInv(b), [RingNext]_ringVars
  PROVE  OrderInv(b)'
<1>1. TypeInv /\ WriteFits /\ ReadFits /\ Tidy
  BY DEF RingInv
<1> QED
  BY <1>1, WritesKeepOrder, ReadsKeepOrder, LifecycleKeepsOrder, OrderStutters DEF RingNext

LEMMA InitOrder ==
  ASSUME NEW b, WholeBlocks(b), RingInit
  PROVE  OrderInv(b)
<1>1. InFront(b, 0)
  BY BlockFacts, RingConstants DEF InFront, Cell, RingInit
<1>2. Counted(b)
  BY <1>1 DEF Counted, RingInit
<1> QED
  BY <1>2 DEF OrderInv, Apart, WriterOrder, ReaderOrder, RingInit

(* When calls do not overlap, every block fills the same part of the ring  *)
(* and a read takes all there is, the floats a read copies follow one      *)
(* another and come after all that earlier reads copied: through wraps,    *)
(* overflows and restarts of either process, and in spite of the miscount  *)
(* of a read that wraps (VPAudioOutputIPC.c:172).                          *)
THEOREM CopiesInOrder ==
  ASSUME NEW b, WholeBlocks(b), MaxCount >= BufferSize, Exclusive
  PROVE  RingSpec => CopiedInOrder
<1>1. RingInit => OrderInv(b)
  BY InitOrder
<1>2. RingInv /\ OrderInv(b) /\ [RingNext]_ringVars => OrderInv(b)'
  BY OrderInductive
<1>3. OrderInv(b) /\ RingInv =>
        (ReadReturn /\ r.consumed > 0 =>
           \A i \in DOMAIN Copied :
              Copied[i] > IF i = 0 THEN heard ELSE Copied[i - 1])
  <2> SUFFICES ASSUME OrderInv(b), RingInv, ReadReturn, r.consumed > 0,
                      NEW i \in DOMAIN Copied
               PROVE  Copied[i] > IF i = 0 THEN heard ELSE Copied[i - 1]
    OBVIOUS
  <2>1. Filled(r.copied) /\ r.copied >= 1
    BY DEF ReadReturn, ReaderStep, OrderInv, ReaderOrder
  <2>2. r.copied \in Nat /\ written \in Nat /\ heard \in Int
    BY SegmentFacts DEF RingInv, OrderInv
  <2>3. i \in 0 .. r.copied - 1 /\ Copied[i] = r.buf[i]
    BY DEF Copied
  <2>4. r.buf[i] = (written - r.copied) + (i + 1) /\ heard <= written - r.copied
    BY <2>1, <2>3 DEF Filled
  <2>5. CASE i = 0
    BY <2>2, <2>3, <2>4, <2>5
  <2>6. CASE i # 0
    <3>1. i - 1 \in 0 .. r.copied - 1
      BY <2>2, <2>3, <2>6
    <3>2. Copied[i - 1] = (written - r.copied) + ((i - 1) + 1)
      BY <2>1, <3>1 DEF Filled, Copied
    <3> QED  BY <2>2, <2>3, <2>4, <2>6, <3>2
  <2> QED  BY <2>5, <2>6
<1> QED
  BY <1>1, <1>2, <1>3, RingInvariance, PTL DEF RingSpec, CopiedInOrder

-----------------------------------------------------------------------------
(* The stream of the mix: what AudioMix keeps of times.                    *)

SampleFrame == [n : Nat, t : Int, new : BOOLEAN, moved : BOOLEAN]
SourceState == [audioTs : Nat, buf : Seq(SampleFrame), pending : BOOLEAN, lastSize : Nat,
                nextTs : Nat, nextSysTs : Nat, offset : Int, n : Nat, end : Nat, lost : Nat,
                taken : Int, reset : BOOLEAN]

MixTypes ==
  /\ MixTypeOK /\ next \in Nat /\ ts \in Int /\ bufferedTs \in Int
  /\ src \in [Source -> SourceState] /\ peeked \in [Source -> Seq(SampleFrame)]
  /\ windows \in Seq(Int) /\ out \in Int \X Int
  /\ mix \in [Root -> Seq(SampleFrame)]

(* The blocks to be made follow one another, up to the clock's next.  The  *)
(* first of them is not much before time zero, because no source is.       *)
FirstDue == next - Len(windows) * Frames
Windows ==
  /\ Len(windows) = ticks + Pending
  /\ \A i \in 1..Len(windows) : windows[i] = next - (Len(windows) + 1 - i) * Frames
  /\ stage # "sleep" => ts = FirstDue
  /\ wait > 0 => bufferedTs = FirstDue + wait * Frames
  /\ FirstDue > -Frames

(* The next block to be delivered begins where the last one ended.         *)
Delivered == stage = "discard" /\ wait = 0
NextHeard == FirstDue + (IF Delivered THEN Frames ELSE wait * Frames)
Delivery ==
  /\ out[1] # 0 => out[2] = out[1] + Frames
  /\ out[2] # 0 => out[2] + Frames = NextHeard

(* A frame is near its time.                                               *)
Jumped(a) == a.nextSysTs # a.nextTs
Slack(a) == IF Jumped(a) THEN 0 ELSE Smoothing - 1
Near(a, f, p) == f.n # 0 /\ ~f.moved => Diff(a.audioTs + p - 1, f.t) <= 2 * (Smoothing - 1)
AtTime(a, frames) == \A k \in 1..Len(frames) : Near(a, frames[k], k)

(* A buffer that has a start ends where the source's next block is         *)
(* expected, shifted by the offset it is put by, unless a block is missing *)
(* in it.                                                                  *)
Held(a) == a.audioTs # 0 \/ a.buf # <<>>
Clocked(a) ==
  /\ a.nextTs <= a.nextSysTs /\ a.nextSysTs - a.nextTs < MaxVar
  /\ Diff(a.nextTs, a.end) < Smoothing
  /\ a.nextTs = 0 \/ a.nextSysTs = 0 => a.nextTs = 0 /\ a.nextSysTs = 0 /\ a.n = 0 /\ ~Held(a)
  /\ Held(a) => /\ a.audioTs + Len(a.buf) <= a.nextSysTs + a.taken + Slack(a)
                /\ a.lost = 0 => a.nextSysTs + a.taken <= a.audioTs + Len(a.buf) + Slack(a)
  /\ \A k \in 1..Len(a.buf) : a.buf[k].n <= a.n
  /\ AtTime(a, a.buf)
  /\ a.taken \in {a.offset, 0}

(* What was peeked is at its time, unless the buffer was set back since.   *)
Peeking(s) ==
  /\ src[s].audioTs # 0 /\ Len(peeked[s]) = Frames
  /\ src[s].reset \/ AtTime(src[s], peeked[s])
Timed ==
  \A s \in Source :
    /\ Clocked(src[s])
    /\ stage \in {"measure", "mix"} /\ ~src[s].pending => Peeking(s)

NearTime ==
  \A s \in Root, i \in 1..Frames : LET f == mix[s][i] IN
    f.n # 0 /\ ~f.moved => Diff(out[2] + i - 1, f.t) <= 2 * (Smoothing - 1)

MixInv == MixTypes /\ Windows /\ Delivery /\ Timed /\ NearTime
-----------------------------------------------------------------------------
(* What the operators on buffers do.                                       *)

LEMMA MixSizesAre ==
  /\ {Frames, Smoothing, MaxVar, MaxTicks, MaxBuf} \subseteq Nat /\ Frames > 0 /\ Smoothing > 0
  /\ MaxBuf > 0 /\ MaxTicks > 0 /\ Smoothing <= MaxVar /\ Start \in Nat /\ MaxTime \in Nat /\ Start <= MaxTime
  /\ Root \subseteq Source
  BY MixConstants

LEMMA DiffIs == \A a, b \in Int : Diff(a, b) = (IF a <= b THEN b - a ELSE a - b)
  BY DEF Diff, MAX, MIN

LEMMA JoinedIs ==
  ASSUME NEW x \in Seq(SampleFrame), NEW y \in Seq(SampleFrame)
  PROVE  /\ Len(x \o y) = Len(x) + Len(y)
         /\ \A k \in 1..Len(x) : (x \o y)[k] = x[k]
         /\ \A k \in Len(x) + 1..Len(x) + Len(y) : (x \o y)[k] = y[k - Len(x)]
<1>1. Len(x) \in Nat /\ Len(y) \in Nat
  OBVIOUS
<1>2. /\ Len(x \o y) = Len(x) + Len(y)
      /\ \A k \in 1..Len(x) + Len(y) : (x \o y)[k] = IF k <= Len(x) THEN x[k] ELSE y[k - Len(x)]
  BY ConcatProperties
<1>3. /\ \A k \in 1..Len(x) : k \in 1..Len(x) + Len(y) /\ k <= Len(x)
      /\ \A k \in Len(x) + 1..Len(x) + Len(y) : k \in 1..Len(x) + Len(y) /\ ~(k <= Len(x))
  BY <1>1
<1> QED  BY <1>2, <1>3

LEMMA SilentIs ==
  ASSUME NEW k \in Nat
  PROVE  /\ Silent(k) \in Seq(SampleFrame) /\ Len(Silent(k)) = k
         /\ \A i \in 1..k : Silent(k)[i] = Silence
<1>1. Silence \in SampleFrame
  BY DEF Silence, SampleFrame
<1> QED  BY <1>1 DEF Silent

LEMMA PlacedIs ==
  ASSUME NEW buf \in Seq(SampleFrame), NEW p \in Nat, NEW data \in Seq(SampleFrame)
  PROVE  /\ Placed(buf, p, data) \in Seq(SampleFrame)
         /\ Len(Placed(buf, p, data)) = p + Len(data)
         /\ \A i \in 1..p : Placed(buf, p, data)[i] = IF i <= Len(buf) THEN buf[i] ELSE Silence
         /\ \A i \in p + 1..p + Len(data) : Placed(buf, p, data)[i] = data[i - p]
<1> DEFINE m == MIN(p, Len(buf))
           k == MAX(0, p - Len(buf))
           x == SubSeq(buf, 1, m)
           y == Silent(k)
<1>1. /\ m \in Nat /\ k \in Nat /\ m + k = p /\ m <= Len(buf) /\ (k = 0 \/ m = Len(buf))
      /\ Len(buf) \in Nat /\ Len(data) \in Nat
  BY DEF MIN, MAX
<1> HIDE DEF m, k
<1>2. x \in Seq(SampleFrame) /\ Len(x) = m /\ \A i \in 1..m : x[i] = buf[i]
  BY <1>1
<1>3. y \in Seq(SampleFrame) /\ Len(y) = k /\ \A i \in 1..k : y[i] = Silence
  BY <1>1, SilentIs
<1> HIDE DEF x, y
<1> DEFINE z == x \o y
<1>4. /\ z \in Seq(SampleFrame) /\ Len(z) = m + k
      /\ \A i \in 1..m + k : z[i] = IF i <= m THEN x[i] ELSE y[i - m]
  BY <1>2, <1>3, ConcatProperties
<1> HIDE DEF z
<1>5. z \in Seq(SampleFrame) /\ Len(z) = p
  BY <1>1, <1>4
<1>6. \A i \in 1..p : z[i] = IF i <= Len(buf) THEN buf[i] ELSE Silence
  <2>1. TAKE i \in 1..p
  <2>2. CASE i \in 1..m
    BY <1>1, <1>2, <1>4, <2>2
  <2>3. CASE i \in m + 1..m + k
    <3>1. i - m \in 1..k /\ ~(i <= m) /\ ~(i <= Len(buf))
      BY <1>1, <2>3
    <3> QED  BY <1>1, <1>3, <1>4, <3>1
  <2> QED  BY <1>1, <2>2, <2>3
<1>7. /\ z \o data \in Seq(SampleFrame) /\ Len(z \o data) = p + Len(data)
      /\ \A i \in 1..p + Len(data) : (z \o data)[i] = IF i <= p THEN z[i] ELSE data[i - p]
  BY <1>5, ConcatProperties
<1>8. /\ \A i \in 1..p : i \in 1..p + Len(data) /\ i <= p
      /\ \A i \in p + 1..p + Len(data) : i \in 1..p + Len(data) /\ ~(i <= p)
  BY <1>1
<1>9. /\ \A i \in 1..p : (z \o data)[i] = z[i]
      /\ \A i \in p + 1..p + Len(data) : (z \o data)[i] = data[i - p]
  BY <1>7, <1>8
<1>10. z \o data = Placed(buf, p, data)
  BY DEF Placed, x, y, z, m, k
<1> QED  BY <1>6, <1>9, <1>7, <1>10

(* source_output_audio_place: what of the buffer is kept, and where the    *)
(* data comes; or it is dropped.                                           *)
Resets(a, t) == a.audioTs = 0 \/ t < a.audioTs
KeptOf(a, t) == IF Resets(a, t) THEN <<>> ELSE a.buf
StartOf(a, t) == IF Resets(a, t) THEN t ELSE a.audioTs

LEMMA PlaceIs ==
  ASSUME NEW a \in SourceState, NEW data \in Seq(SampleFrame), NEW t \in Nat, Len(a.buf) <= MaxBuf
  PROVE  LET c == Place(a, data, t)
             p == t - StartOf(a, t)
         IN /\ c \in SourceState /\ p \in Nat /\ c.audioTs = StartOf(a, t) /\ Len(c.buf) <= MaxBuf
            /\ c.buf = IF p + Len(data) > MaxBuf THEN KeptOf(a, t) ELSE Placed(KeptOf(a, t), p, data)
            /\ c.pending = a.pending /\ c.nextTs = a.nextTs /\ c.nextSysTs = a.nextSysTs
            /\ c.n = a.n /\ c.end = a.end
            /\ c.offset = a.offset /\ c.taken = a.taken /\ c.reset = a.reset
<1> DEFINE z == IF Resets(a, t) THEN [a EXCEPT !.buf = <<>>, !.audioTs = t, !.lastSize = 0] ELSE a
           p == t - StartOf(a, t)
<1>1. <<>> \in Seq(SampleFrame) /\ Len(<<>>) = 0 /\ Len(data) \in Nat /\ MaxBuf \in Nat
  BY MixSizesAre
<1>2. /\ z \in SourceState /\ z.audioTs = StartOf(a, t) /\ z.buf = KeptOf(a, t)
      /\ z.pending = a.pending /\ z.nextTs = a.nextTs /\ z.nextSysTs = a.nextSysTs
      /\ z.n = a.n /\ z.end = a.end
      /\ z.offset = a.offset /\ z.taken = a.taken /\ z.reset = a.reset
  BY <1>1 DEF SourceState, StartOf, KeptOf
<1>3. p \in Nat /\ Len(z.buf) <= MaxBuf
  <2>1. a.audioTs \in Nat
    BY DEF SourceState
  <2>2. p \in Nat
    BY <2>1 DEF StartOf, Resets
  <2>3. Len(z.buf) = 0 \/ Len(z.buf) = Len(a.buf)
    BY <1>1, <1>2 DEF KeptOf
  <2> QED  BY <1>1, <2>2, <2>3
<1> HIDE DEF z
<1>4. Placed(z.buf, p, data) \in Seq(SampleFrame) /\ Len(Placed(z.buf, p, data)) = p + Len(data)
  <2>1. z.buf \in Seq(SampleFrame)
    BY <1>2 DEF SourceState
  <2> HIDE DEF p
  <2> QED  BY <1>3, <2>1, PlacedIs
<1> DEFINE c == IF p + Len(data) > MaxBuf THEN z
                ELSE [z EXCEPT !.buf = Placed(z.buf, p, data), !.lastSize = 0]
<1>5. Place(a, data, t) = c
  <2>1. Place(a, data, t) = IF t - z.audioTs + Len(data) > MaxBuf THEN z
          ELSE [z EXCEPT !.buf = Placed(z.buf, t - z.audioTs, data), !.lastSize = 0]
    BY DEF Place, z, Resets
  <2>2. t - z.audioTs = p
    BY <1>2
  <2> QED  BY <2>1, <2>2
<1> HIDE DEF p
<1>6. /\ c \in SourceState /\ c.audioTs = StartOf(a, t) /\ Len(c.buf) <= MaxBuf
      /\ c.buf = IF p + Len(data) > MaxBuf THEN KeptOf(a, t) ELSE Placed(KeptOf(a, t), p, data)
      /\ c.pending = a.pending /\ c.nextTs = a.nextTs /\ c.nextSysTs = a.nextSysTs
      /\ c.n = a.n /\ c.end = a.end
      /\ c.offset = a.offset /\ c.taken = a.taken /\ c.reset = a.reset
  <2>1. CASE p + Len(data) > MaxBuf
    BY <1>2, <1>3, <2>1
  <2>2. CASE ~(p + Len(data) > MaxBuf)
    <3>1. c = [z EXCEPT !.buf = Placed(z.buf, p, data), !.lastSize = 0]
      BY <2>2
    <3>2. /\ c \in SourceState /\ c.audioTs = z.audioTs /\ c.buf = Placed(z.buf, p, data)
          /\ c.pending = z.pending /\ c.nextTs = z.nextTs /\ c.nextSysTs = z.nextSysTs
          /\ c.n = z.n /\ c.end = z.end
          /\ c.offset = z.offset /\ c.taken = z.taken /\ c.reset = z.reset
      BY <1>2, <1>4, <3>1 DEF SourceState
    <3> HIDE DEF c
    <3> QED  BY <1>1, <1>2, <1>3, <1>4, <2>2, <3>2
  <2> QED  BY <2>1, <2>2
<1> HIDE DEF c
<1> QED  BY <1>3, <1>5, <1>6 DEF p

(* A block that was put in: the last frame of the buffer is its own.       *)
LEMMA LastTells ==
  ASSUME NEW buf \in Seq(SampleFrame), NEW data \in Seq(SampleFrame), NEW k \in Nat, Len(buf) = k + Len(data),
         Len(data) > 0, \A i \in k + 1..k + Len(data) : buf[i] = data[i - k]
  PROVE  buf # <<>> /\ Last(buf) = data[Len(data)]
<1>1. Len(data) \in Nat /\ Len(buf) \in k + 1..k + Len(data) /\ Len(buf) - k = Len(data)
  OBVIOUS
<1>2. buf[Len(buf)] = data[Len(data)]
  BY <1>1
<1>3. buf # <<>>
  BY <1>1
<1> QED  BY <1>2, <1>3 DEF Last

-----------------------------------------------------------------------------
(* A block of a source.                                                    *)

Expects(a, t1) == a.nextSysTs # 0 /\ Diff(a.nextSysTs, t1) < Smoothing
Appends(a, t1, offset) == Expects(a, t1) /\ ~OffsetChanged(a, offset) /\ a.audioTs # 0
Adjusts(a, t1, latency) == IF a.nextSysTs # 0 /\ Diff(a.nextSysTs, t1) > MaxVar THEN latency ELSE 0

LEMMA OutputIs ==
  ASSUME MixTypes, NEW s \in Source, NEW length \in Length, NEW late \in Lateness[s],
         NEW offset \in SyncOffset[s], Output(s, length, late, offset),
         \A k \in 1..Len(src[s].buf) : src[s].buf[k].n <= src[s].n
  PROVE  LET a == src[s]
             d == src'[s]
             t == now - length - late
             t1 == Smoothed(a, t)
             push == Appends(a, t1, offset)
             adjust == Adjusts(a, t1, length + late)
             taken == IF push THEN a.taken ELSE offset
             data == Block(a, length, t + taken, ~push \/ a.lost = a.n, adjust # 0 \/ (push /\ a.lost # 0))
             u == (IF adjust = 0 THEN t1 ELSE now) + offset
             full == (IF push THEN Len(a.buf) ELSE u - StartOf(a, u)) + length > MaxBuf
         IN /\ t \in Nat /\ t >= a.end /\ t1 \in Nat /\ length \in Nat /\ length > 0 /\ length + late < MaxVar
            /\ late \in Nat /\ now \in Nat /\ offset \in Int /\ u \in Nat /\ u > 0
            /\ d \in SourceState /\ src' = [src EXCEPT ![s] = d] /\ Len(d.buf) <= MaxBuf
            /\ d.pending = a.pending /\ d.n = a.n + length /\ d.end = t + length
            /\ d.nextTs = t1 + length /\ d.nextSysTs = t1 + length + adjust
            /\ d.offset = offset /\ d.taken = taken /\ d.reset = (a.reset \/ d.audioTs < a.audioTs)
            /\ data \in Seq(SampleFrame) /\ Len(data) = length
            /\ \A i \in 1..length : /\ data[i].n = a.n + i /\ data[i].t = t + taken + i - 1
                                    /\ data[i].moved = (adjust # 0 \/ (push /\ a.lost # 0))
                                    /\ data[i].new = ((~push \/ a.lost = a.n) /\ i = 1)
            /\ d.audioTs = IF push THEN a.audioTs ELSE StartOf(a, u)
            /\ ~push => u - StartOf(a, u) \in Nat
            /\ d.buf = IF full THEN IF push THEN a.buf ELSE KeptOf(a, u)
                       ELSE IF push THEN a.buf \o data ELSE Placed(KeptOf(a, u), u - StartOf(a, u), data)
            /\ full => d.lost # 0 /\ d.lost = d.n
            /\ ~full => d.lost = IF push THEN a.lost ELSE 0
<1> DEFINE a == src[s]
           t == now - length - late
           t1 == Smoothed(a, t)
           push == Appends(a, t1, offset)
           adjust == Adjusts(a, t1, length + late)
           taken == IF push THEN a.taken ELSE offset
           start == t + taken
           new == ~push \/ a.lost = a.n
           moved == adjust # 0 \/ (push /\ a.lost # 0)
           data == Block(a, length, start, new, moved)
           u == (IF adjust = 0 THEN t1 ELSE now) + offset
           full == (IF push THEN Len(a.buf) ELSE u - StartOf(a, u)) + length > MaxBuf
           b == [a EXCEPT !.n = @ + length, !.end = t + length, !.nextTs = t1 + length,
                          !.nextSysTs = t1 + length + adjust, !.offset = offset]
           c == IF push THEN PushBack(b, data) ELSE Place(b, data, u)
           d == [c EXCEPT !.lost = IF Dropped(c) THEN c.n ELSE IF push THEN a.lost ELSE 0,
                          !.taken = taken, !.reset = @ \/ c.audioTs < a.audioTs]
<1>1. /\ length \in Nat /\ length > 0 /\ late \in Nat /\ length + late < MaxVar /\ now \in Nat
      /\ a \in SourceState /\ Len(a.buf) <= MaxBuf /\ MaxBuf \in Nat
      /\ offset \in Int /\ Start + offset >= 2 * MaxVar /\ now >= Start /\ Start \in Nat
  BY MixConstants, MixSizesAre, SMTT(30) DEF MixTypes, MixTypeOK
<1>2. t >= a.end /\ src' = [src EXCEPT ![s] = d]
  <2>1. now - t = length + late
    BY <1>1
  <2>2. adjust = IF a.nextSysTs # 0 /\ Diff(a.nextSysTs, t1) > MaxVar THEN now - t ELSE 0
    BY <2>1 DEF Adjusts
  <2> HIDE DEF adjust
  <2> QED  BY <2>2 DEF Output, Appends, Expects
<1>3. t \in Nat /\ t1 \in Nat /\ adjust \in Nat /\ u \in Nat /\ u > 0 /\ taken \in Int /\ start \in Int
  <2>0. a.nextTs \in Nat /\ a.end \in Nat
    BY <1>1 DEF SourceState
  <2>1. t \in Nat /\ a.nextTs \in Nat /\ a.end \in Nat
    <3> HIDE DEF a
    <3> QED  BY <1>1, <1>2, <2>0
  <2>2. t1 \in Nat
    BY <2>1 DEF Smoothed
  <2>3. t1 > t - MaxVar /\ MaxVar \in Nat
    <3>1. Smoothing <= MaxVar /\ MaxVar \in Nat /\ Smoothing \in Nat /\ Smoothing > 0
      BY MixSizesAre
    <3>2. t1 = t \/ (t1 = a.nextTs /\ Diff(a.nextTs, t) < Smoothing)
      BY DEF Smoothed
    <3>3. Diff(a.nextTs, t) = (IF a.nextTs <= t THEN t - a.nextTs ELSE a.nextTs - t)
      BY <2>1, DiffIs
    <3> HIDE DEF t, t1, a
    <3> QED  BY <2>1, <3>1, <3>2, <3>3
  <2>4. t > now - MaxVar
    BY <1>1, <2>3
  <2>5. u \in Nat /\ u > 0
    <3>1. u = t1 + offset \/ u = now + offset
      OBVIOUS
    <3> HIDE DEF u, t, t1
    <3> QED  BY <1>1, <2>1, <2>2, <2>3, <2>4, <3>1
  <2>6. taken \in Int
    BY <1>1 DEF SourceState
  <2>7. start \in Int
    <3> HIDE DEF taken, t
    <3> QED  BY <2>1, <2>6
  <2> QED  BY <1>1, <2>1, <2>2, <2>5, <2>6, <2>7 DEF Adjusts
<1>4. new \in BOOLEAN /\ moved \in BOOLEAN /\ push \in BOOLEAN
  BY DEF Appends, Expects
<1> HIDE DEF new, moved, t, t1, adjust, push, a, taken, start
<1>5. /\ data \in Seq(SampleFrame) /\ Len(data) = length
      /\ \A i \in 1..length : /\ data[i].n = a.n + i /\ data[i].t = start + i - 1 /\ data[i].moved = moved
                              /\ data[i].new = (new /\ i = 1)
  <2> DEFINE x == [i \in 1..length |-> [n |-> a.n + i, t |-> start + i - 1, new |-> new /\ i = 1, moved |-> moved]]
  <2>0. \A i \in 1..length : a.n + i \in Nat /\ start + i - 1 \in Int
    BY <1>1, <1>3, SMTT(30) DEF SourceState
  <2>1. \A i \in 1..length : /\ x[i] \in SampleFrame /\ x[i].n = a.n + i /\ x[i].t = start + i - 1
                              /\ x[i].moved = moved /\ x[i].new = (new /\ i = 1)
    BY <1>4, <2>0 DEF SampleFrame
  <2>2. x \in Seq(SampleFrame) /\ Len(x) = length
    <3>1. x = [i \in 1..length |-> x[i]]
      OBVIOUS
    <3> HIDE DEF x
    <3> QED  BY <1>1, <2>1, <3>1, SMTT(30)
  <2>3. data = x
    BY DEF Block
  <2> HIDE DEF x, data
  <2> QED  BY <2>1, <2>2, <2>3
<1>6. data \in Seq(SampleFrame) /\ Len(data) = length /\ \A i \in 1..length : data[i].n = a.n + i
  BY <1>5
<1> HIDE DEF data, u
<1>7. b \in SourceState /\ b.audioTs = a.audioTs /\ b.buf = a.buf /\ b.pending = a.pending
      /\ b.n = a.n + length /\ b.end = t + length /\ b.nextTs = t1 + length
      /\ b.nextSysTs = t1 + length + adjust
      /\ b.offset = offset /\ b.taken = a.taken /\ b.reset = a.reset
  <2> DEFINE n1 == a.n + length
             e1 == t + length
             x1 == t1 + length
             y1 == t1 + length + adjust
  <2>1. n1 \in Nat /\ e1 \in Nat /\ x1 \in Nat /\ y1 \in Nat
    <3>1. a.n \in Nat /\ length \in Nat /\ t \in Nat /\ t1 \in Nat /\ adjust \in Nat
      BY <1>1, <1>3 DEF SourceState
    <3> HIDE DEF b, c, d, full
    <3> QED  BY <3>1
  <2>2. b = [a EXCEPT !.n = n1, !.end = e1, !.nextTs = x1, !.nextSysTs = y1, !.offset = offset]
    OBVIOUS
  <2> HIDE DEF n1, e1, x1, y1, b
  <2>3. b \in SourceState /\ b.audioTs = a.audioTs /\ b.buf = a.buf /\ b.pending = a.pending
        /\ b.n = n1 /\ b.end = e1 /\ b.nextTs = x1 /\ b.nextSysTs = y1
        /\ b.offset = offset /\ b.taken = a.taken /\ b.reset = a.reset
    BY <1>1, <2>1, <2>2 DEF SourceState
  <2> QED  BY <2>3 DEF n1, e1, x1, y1
<1> HIDE DEF b
<1>8. StartOf(b, u) = StartOf(a, u) /\ KeptOf(b, u) = KeptOf(a, u)
  BY <1>7 DEF StartOf, KeptOf, Resets
<1>9. /\ c \in SourceState /\ Len(c.buf) <= MaxBuf
      /\ c.pending = a.pending /\ c.n = a.n + length /\ c.end = t + length
      /\ c.nextTs = t1 + length /\ c.nextSysTs = t1 + length + adjust
      /\ c.offset = offset /\ c.reset = a.reset
      /\ c.audioTs = IF push THEN a.audioTs ELSE StartOf(a, u)
      /\ ~push => u - StartOf(a, u) \in Nat
      /\ c.buf = IF full THEN IF push THEN a.buf ELSE KeptOf(a, u)
                 ELSE IF push THEN a.buf \o data ELSE Placed(KeptOf(a, u), u - StartOf(a, u), data)
  <2>1. CASE push
    <3> DEFINE e == IF Len(b.buf) + Len(data) > MaxBuf THEN b
                    ELSE [b EXCEPT !.buf = b.buf \o data, !.lastSize = 0]
    <3>1. c = e
      BY <2>1 DEF PushBack
    <3>2. /\ b.buf \in Seq(SampleFrame) /\ b.buf \o data \in Seq(SampleFrame)
          /\ Len(b.buf \o data) = Len(b.buf) + length
      <4>1. b.buf \in Seq(SampleFrame)
        BY <1>7 DEF SourceState
      <4> QED  BY <1>6, <4>1, ConcatProperties
    <3>3. /\ e \in SourceState /\ Len(e.buf) <= MaxBuf
          /\ e.pending = b.pending /\ e.n = b.n /\ e.end = b.end
          /\ e.nextTs = b.nextTs /\ e.nextSysTs = b.nextSysTs /\ e.audioTs = b.audioTs
          /\ e.offset = b.offset /\ e.reset = b.reset
          /\ e.buf = IF full THEN b.buf ELSE b.buf \o data
      <4>1. CASE full
        <5>1. e = b
          BY <1>6, <1>7, <2>1, <4>1
        <5> QED  BY <1>1, <1>7, <4>1, <5>1 DEF SourceState
      <4>2. CASE ~full
        <5>1. e = [b EXCEPT !.buf = b.buf \o data, !.lastSize = 0] /\ Len(b.buf) + length <= MaxBuf
          <6>1. Len(b.buf) \in Nat /\ length \in Nat
            BY <1>1, <3>2
          <6> QED  BY <1>1, <1>6, <1>7, <2>1, <4>2, <6>1
        <5> HIDE DEF full
        <5> QED  BY <1>7, <3>2, <4>2, <5>1 DEF SourceState
      <4> QED  BY <4>1, <4>2
    <3> HIDE DEF e
    <3> QED  BY <1>7, <2>1, <3>1, <3>3
  <2>2. CASE ~push
    <3> DEFINE e == Place(b, data, u)
    <3>1. c = e
      BY <2>2
    <3> HIDE DEF c
    <3>2. /\ e \in SourceState /\ u - StartOf(b, u) \in Nat /\ e.audioTs = StartOf(b, u) /\ Len(e.buf) <= MaxBuf
          /\ e.buf = IF u - StartOf(b, u) + Len(data) > MaxBuf THEN KeptOf(b, u)
                     ELSE Placed(KeptOf(b, u), u - StartOf(b, u), data)
          /\ e.pending = b.pending /\ e.nextTs = b.nextTs /\ e.nextSysTs = b.nextSysTs
          /\ e.n = b.n /\ e.end = b.end /\ e.offset = b.offset /\ e.reset = b.reset
      BY <1>1, <1>3, <1>6, <1>7, PlaceIs
    <3> HIDE DEF e
    <3> QED  BY <1>6, <1>7, <1>8, <2>2, <3>1, <3>2
  <2> QED  BY <2>1, <2>2
<1> HIDE DEF c
<1>10. Dropped(c) <=> full
  <2>1. CASE full
    <3>1. c.buf = a.buf \/ c.buf = <<>>
      BY <1>9, <2>1 DEF KeptOf
    <3>2. ASSUME c.buf = a.buf, c.buf # <<>>
          PROVE  Last(c.buf).n # c.n
      <4>1. a.buf \in Seq(SampleFrame) /\ a.n \in Nat
        BY <1>1 DEF SourceState
      <4>2. Len(a.buf) \in 1..Len(a.buf) /\ a.buf[Len(a.buf)] \in SampleFrame
        BY <3>2, <4>1
      <4>3. a.buf[Len(a.buf)].n <= a.n /\ a.buf[Len(a.buf)].n \in Nat
        BY <4>2 DEF a, SampleFrame
      <4>4. Last(c.buf) = a.buf[Len(a.buf)]
        BY <3>2 DEF Last
      <4>5. c.n = a.n + length
        BY <1>9
      <4> QED  BY <1>1, <4>1, <4>3, <4>4, <4>5
    <3> QED  BY <2>1, <3>1, <3>2 DEF Dropped
  <2>2. CASE ~full
    <3> DEFINE k == IF push THEN Len(a.buf) ELSE u - StartOf(a, u)
               kept == IF push THEN a.buf ELSE KeptOf(a, u)
    <3>1. k \in Nat /\ kept \in Seq(SampleFrame) /\ a.buf \in Seq(SampleFrame)
      <4>1. a.buf \in Seq(SampleFrame) /\ <<>> \in Seq(SampleFrame)
        BY <1>1 DEF SourceState
      <4>2. k \in Nat
        BY <1>9, <4>1
      <4> QED  BY <4>1, <4>2 DEF KeptOf
    <3>2. Len(c.buf) = k + Len(data) /\ \A i \in k + 1..k + Len(data) : c.buf[i] = data[i - k]
      <4>1. CASE push
        <5>1. c.buf = a.buf \o data /\ k = Len(a.buf) /\ a.buf \in Seq(SampleFrame) /\ data \in Seq(SampleFrame)
          BY <1>6, <1>9, <2>2, <3>1, <4>1
        <5> HIDE DEF k, kept
        <5> QED  BY <5>1, JoinedIs
      <4>2. CASE ~push
        <5>1. c.buf = Placed(kept, k, data)
          BY <1>9, <2>2, <4>2
        <5> HIDE DEF k, kept
        <5> DEFINE x == Placed(kept, k, data)
        <5>2. Len(x) = k + Len(data) /\ \A i \in k + 1..k + Len(data) : x[i] = data[i - k]
          BY <1>6, <3>1, PlacedIs, Zenon
        <5> QED  BY <5>1, <5>2
      <4> QED  BY <4>1, <4>2
    <3> HIDE DEF k, kept
    <3>3. c.buf \in Seq(SampleFrame)
      BY <1>9 DEF SourceState
    <3>4. c.buf # <<>> /\ Last(c.buf) = data[Len(data)]
      BY <1>1, <1>6, <3>1, <3>2, <3>3, LastTells
    <3>5. Last(c.buf).n = c.n
      BY <1>1, <1>6, <1>9, <3>4
    <3> QED  BY <2>2, <3>4, <3>5 DEF Dropped
  <2> QED  BY <2>1, <2>2
<1> HIDE DEF full
<1>11. /\ d \in SourceState /\ Len(d.buf) <= MaxBuf
       /\ d.pending = c.pending /\ d.n = c.n /\ d.end = c.end
       /\ d.nextTs = c.nextTs /\ d.nextSysTs = c.nextSysTs
       /\ d.audioTs = c.audioTs /\ d.buf = c.buf
       /\ full => d.lost # 0 /\ d.lost = d.n
       /\ ~full => d.lost = IF push THEN a.lost ELSE 0
       /\ d.offset = c.offset /\ d.taken = taken /\ d.reset = (c.reset \/ c.audioTs < a.audioTs)
  <2> DEFINE l == IF Dropped(c) THEN c.n ELSE IF push THEN a.lost ELSE 0
             back == c.reset \/ c.audioTs < a.audioTs
  <2>1. l \in Nat /\ (full => l # 0 /\ l = c.n) /\ (~full => l = IF push THEN a.lost ELSE 0)
    <3>1. c.n \in Nat /\ c.n = a.n + length /\ a.n \in Nat /\ a.lost \in Nat
      BY <1>1, <1>9 DEF SourceState
    <3> QED  BY <1>1, <1>10, <3>1
  <2> HIDE DEF l
  <2>2. d = [c EXCEPT !.lost = l, !.taken = taken, !.reset = back]
    BY DEF l
  <2>3. back \in BOOLEAN
    BY <1>9 DEF SourceState
  <2> HIDE DEF d, back
  <2>4. /\ d \in SourceState /\ d.pending = c.pending /\ d.n = c.n /\ d.end = c.end
        /\ d.nextTs = c.nextTs /\ d.nextSysTs = c.nextSysTs /\ d.audioTs = c.audioTs /\ d.buf = c.buf
        /\ d.lost = l /\ d.offset = c.offset /\ d.taken = taken /\ d.reset = back
    BY <1>3, <1>9, <2>1, <2>2, <2>3 DEF SourceState
  <2> QED  BY <1>9, <2>1, <2>4 DEF back
<1>12. src'[s] = d
  BY <1>2 DEF MixTypes
<1> HIDE DEF d
<1> DEFINE e == src'[s]
<1>13. /\ e \in SourceState /\ Len(e.buf) <= MaxBuf /\ src' = [src EXCEPT ![s] = e]
       /\ e.pending = a.pending /\ e.n = a.n + length /\ e.end = t + length
       /\ e.nextTs = t1 + length /\ e.nextSysTs = t1 + length + adjust
       /\ e.offset = offset /\ e.taken = taken /\ e.reset = (a.reset \/ e.audioTs < a.audioTs)
       /\ e.audioTs = (IF push THEN a.audioTs ELSE StartOf(a, u))
       /\ (~push => u - StartOf(a, u) \in Nat)
       /\ e.buf = IF full THEN IF push THEN a.buf ELSE KeptOf(a, u)
                  ELSE IF push THEN a.buf \o data ELSE Placed(KeptOf(a, u), u - StartOf(a, u), data)
       /\ (full => e.lost # 0 /\ e.lost = e.n)
       /\ (~full => e.lost = IF push THEN a.lost ELSE 0)
  <2>1. e = d /\ src' = [src EXCEPT ![s] = e]
    BY <1>2, <1>12
  <2> HIDE DEF e
  <2>2. /\ e \in SourceState /\ Len(e.buf) <= MaxBuf
        /\ e.pending = a.pending /\ e.n = a.n + length /\ e.end = t + length
        /\ e.nextTs = t1 + length /\ e.nextSysTs = t1 + length + adjust
        /\ e.offset = offset /\ e.taken = taken /\ e.reset = (a.reset \/ e.audioTs < a.audioTs)
    BY <1>9, <1>11, <2>1
  <2>3. e.audioTs = (IF push THEN a.audioTs ELSE StartOf(a, u)) /\ (~push => u - StartOf(a, u) \in Nat)
    BY <1>9, <1>11, <2>1
  <2>4. e.buf = IF full THEN IF push THEN a.buf ELSE KeptOf(a, u)
                ELSE IF push THEN a.buf \o data ELSE Placed(KeptOf(a, u), u - StartOf(a, u), data)
    BY <1>9, <1>11, <2>1
  <2>5. (full => e.lost # 0 /\ e.lost = e.n) /\ (~full => e.lost = IF push THEN a.lost ELSE 0)
    BY <1>11, <2>1
  <2> QED  BY <2>1, <2>2, <2>3, <2>4, <2>5
<1>14. t >= a.end
  BY <1>2
<1> HIDE DEF e
<1> QED  BY <1>1, <1>3, <1>5, <1>13, <1>14 DEF a, t, t1, push, adjust, taken, start, new, moved, data, u, full, e

-----------------------------------------------------------------------------
(* A block keeps the times.                                                *)

LEMMA SlackIs == \A a \in SourceState :
  /\ Slack(a) \in Nat /\ Slack(a) < Smoothing /\ (a.nextSysTs # a.nextTs => Slack(a) = 0)
  /\ (a.nextSysTs = a.nextTs => Slack(a) = Smoothing - 1)
  BY MixSizesAre DEF Slack, Jumped

LEMMA FramesAre == \A x \in Seq(SampleFrame) : \A k \in 1..Len(x) :
  x[k].n \in Nat /\ x[k].t \in Int /\ x[k].moved \in BOOLEAN
<1>1. TAKE x \in Seq(SampleFrame)
<1>2. TAKE k \in 1..Len(x)
<1>3. x[k] \in SampleFrame
  OBVIOUS
<1> QED  BY <1>3 DEF SampleFrame

LEMMA SmoothedIs ==
  ASSUME NEW a \in SourceState, Clocked(a), NEW t \in Nat, a.end <= t
  PROVE  LET t1 == Smoothed(a, t) IN
         /\ t1 \in Nat /\ a.nextTs <= t1 /\ t1 - t < Smoothing /\ t - t1 < Smoothing
         /\ t1 = t \/ (a.nextTs # 0 /\ t1 = a.nextTs)
         /\ a.nextTs # 0 /\ t1 # a.nextTs => a.nextTs + Smoothing <= t1
<1>1. a.nextTs \in Nat /\ a.end \in Nat /\ Smoothing \in Nat /\ Smoothing > 0
  BY MixSizesAre DEF SourceState
<1>2. a.nextTs - a.end < Smoothing /\ a.end - a.nextTs < Smoothing
  BY <1>1, DiffIs DEF Clocked
<1>3. Diff(a.nextTs, t) = IF a.nextTs <= t THEN t - a.nextTs ELSE a.nextTs - t
  BY <1>1, DiffIs
<1> QED  BY <1>1, <1>2, <1>3 DEF Smoothed

LEMMA AtTimeLater ==
  ASSUME NEW a, NEW d, NEW frames, AtTime(a, frames), d.audioTs = a.audioTs
  PROVE  AtTime(d, frames)
BY DEF AtTime, Near

AppendsBlock(a, d, data, t, t1, length, offset) ==
  /\ length > 0 /\ a.end <= t /\ t1 = Smoothed(a, t) /\ Appends(a, t1, offset)
  /\ d.n = a.n + length /\ d.end = t + length /\ d.nextTs = t1 + length /\ d.nextSysTs = t1 + length
  /\ d.offset = offset /\ d.taken = a.taken
  /\ d.audioTs = a.audioTs /\ data \in Seq(SampleFrame) /\ Len(data) = length
  /\ \A i \in 1..length :
       data[i].n = a.n + i /\ data[i].t = t + a.taken + i - 1 /\ data[i].moved = (a.lost # 0)
  /\ \/ d.buf = a.buf /\ d.lost # 0
     \/ d.buf = a.buf \o data /\ d.lost = a.lost

LEMMA AppendedClocked ==
  ASSUME NEW a \in SourceState, Clocked(a), NEW d \in SourceState, NEW data,
         NEW t \in Nat, NEW t1 \in Nat, NEW length \in Nat, NEW offset \in Int,
         AppendsBlock(a, d, data, t, t1, length, offset)
  PROVE  Clocked(d)
<1>1. a.nextSysTs # 0 /\ Diff(a.nextSysTs, t1) < Smoothing /\ a.audioTs # 0
  BY DEF Appends, Expects, AppendsBlock
<1>2. /\ a.nextSysTs \in Nat /\ a.nextTs \in Nat /\ a.audioTs \in Nat /\ a.n \in Nat
      /\ a.lost \in Nat /\ a.end \in Nat /\ a.taken \in Int
      /\ Smoothing \in Nat /\ MaxVar \in Nat /\ MaxBuf \in Nat /\ Smoothing > 0 /\ Smoothing <= MaxVar
  BY MixSizesAre DEF SourceState
<1>3. a.buf \in Seq(SampleFrame) /\ Len(a.buf) \in Nat
  BY DEF SourceState
<1>4. PICK L \in Nat : L = Len(a.buf)
  BY <1>3
<1>5. (\A k \in 1..Len(a.buf) : a.buf[k].n <= a.n) /\ a.taken \in {a.offset, 0}
  BY DEF Clocked
<1>6. /\ d.n = a.n + length /\ d.end = t + length /\ d.nextTs = t1 + length /\ d.nextSysTs = t1 + length
      /\ d.audioTs = a.audioTs /\ length > 0 /\ d.taken = a.taken /\ d.offset = offset
  BY DEF AppendsBlock
<1>7. \A i \in 1..length : data[i].n = a.n + i /\ data[i].t = t + a.taken + i - 1 /\ data[i].moved = (a.lost # 0)
  BY DEF AppendsBlock
<1>8. /\ data \in Seq(SampleFrame) /\ Len(data) = length
      /\ \/ d.buf = a.buf /\ d.lost # 0
         \/ d.buf = a.buf \o data /\ d.lost = a.lost
  BY DEF AppendsBlock
<1>9. /\ a.nextTs <= t1 /\ t1 - t < Smoothing /\ t - t1 < Smoothing
      /\ t1 = a.nextTs \/ a.nextTs + Smoothing <= t1 \/ a.nextTs = 0
  <2>1. a.end <= t /\ t1 = Smoothed(a, t)
    BY DEF AppendsBlock
  <2> QED  BY <2>1, SmoothedIs
<1>10. /\ a.nextTs <= a.nextSysTs /\ a.nextTs # 0 /\ AtTime(a, a.buf)
       /\ a.audioTs + L <= a.nextSysTs + a.taken + Slack(a)
       /\ a.lost = 0 => a.nextSysTs + a.taken <= a.audioTs + L + Slack(a)
  BY <1>1, <1>2, <1>4 DEF Clocked, Held
<1>11. /\ a.nextSysTs - t1 < Smoothing /\ t1 - a.nextSysTs < Smoothing
       /\ Slack(a) \in Nat /\ Slack(a) < Smoothing
       /\ (a.nextSysTs = a.nextTs => t1 = a.nextTs) /\ (a.nextSysTs # a.nextTs => Slack(a) = 0)
  <2>1. a.nextSysTs - t1 < Smoothing /\ t1 - a.nextSysTs < Smoothing
    BY <1>1, <1>2, DiffIs
  <2> QED  BY <1>2, <1>9, <1>10, <2>1, SlackIs
<1>12. Slack(d) = Smoothing - 1 /\ Slack(d) \in Nat
  BY <1>2, <1>6, SlackIs
<1>13. a.audioTs + L <= t1 + a.taken + Smoothing - 1
  BY <1>2, <1>6, <1>9, <1>10, <1>11, <1>12
<1>14. AtTime(d, a.buf)
  BY <1>6, <1>10, AtTimeLater
<1>15. ASSUME NEW i \in 1..length
       PROVE  Near(d, data[i], L + i)
  <2>1. SUFFICES ASSUME a.lost = 0
                 PROVE  Diff(d.audioTs + (L + i) - 1, data[i].t) <= 2 * (Smoothing - 1)
    BY <1>7 DEF Near
  <2>2. i \in Nat /\ i <= length /\ data[i].t = t + a.taken + i - 1 /\ data[i].t \in Int
    BY <1>2, <1>7
  <2>4. a.audioTs + L - (t1 + a.taken) < Smoothing /\ (t1 + a.taken) - (a.audioTs + L) < Smoothing
    BY <1>2, <1>6, <1>9, <1>10, <1>11, <1>13, <2>1
  <2>5. Diff(d.audioTs + (L + i) - 1, data[i].t) <= 2 * (Smoothing - 1)
    <3> DEFINE x == d.audioTs + (L + i) - 1
               y == data[i].t
    <3>1. x \in Int /\ y \in Int /\ x - y <= 2 * (Smoothing - 1) /\ y - x <= 2 * (Smoothing - 1)
      BY <1>2, <1>6, <1>9, <2>2, <2>4
    <3> HIDE DEF x, y
    <3>2. Diff(x, y) <= 2 * (Smoothing - 1)
      BY <1>2, <3>1, DiffIs
    <3> QED  BY <3>2 DEF x, y
  <2> QED  BY <2>5
<1>16. /\ AtTime(d, d.buf)
       /\ \A k \in 1..Len(d.buf) : d.buf[k].n <= d.n
       /\ d.audioTs + Len(d.buf) <= d.nextSysTs + d.taken + Slack(d)
       /\ d.lost = 0 => d.nextSysTs + d.taken <= d.audioTs + Len(d.buf) + Slack(d)
  <2>1. CASE d.buf = a.buf /\ d.lost # 0
    <3>1. \A k \in 1..Len(d.buf) : d.buf[k].n <= d.n
      <4>1. TAKE k \in 1..Len(d.buf)
      <4>2. d.buf[k].n <= a.n /\ d.buf[k].n \in Nat
        BY <1>5, <1>3, <2>1, FramesAre
      <4>3. PICK m \in Nat : m = d.buf[k].n
        BY <4>2
      <4>4. m <= d.n
        BY <1>2, <1>6, <4>2, <4>3
      <4> QED  BY <4>3, <4>4
    <3>2. d.audioTs + Len(d.buf) <= d.nextSysTs + d.taken + Slack(d)
      <4>1. d.audioTs + L <= d.nextSysTs + d.taken + Slack(d)
        BY <1>2, <1>6, <1>12, <1>13
      <4> QED  BY <1>4, <2>1, <4>1
    <3> QED  BY <1>14, <2>1, <3>1, <3>2
  <2>2. CASE d.buf = a.buf \o data /\ d.lost = a.lost
    <3>1. /\ Len(d.buf) = L + length
          /\ \A k \in 1..L : d.buf[k] = a.buf[k]
          /\ \A k \in L + 1..L + length : d.buf[k] = data[k - L]
      <4> DEFINE x == a.buf
                 z == x \o data
      <4>1. x \in Seq(SampleFrame) /\ data \in Seq(SampleFrame) /\ Len(data) = length /\ Len(x) = L /\ d.buf = z
        BY <1>8, <1>3, <1>4, <2>2
      <4> HIDE DEF x
      <4>2. /\ Len(z) = Len(x) + Len(data) /\ \A k \in 1..Len(x) : z[k] = x[k]
            /\ \A k \in Len(x) + 1..Len(x) + Len(data) : z[k] = data[k - Len(x)]
        BY <4>1, JoinedIs
      <4> HIDE DEF z
      <4>3. /\ Len(d.buf) = L + length /\ \A k \in 1..L : d.buf[k] = x[k]
            /\ \A k \in L + 1..L + length : d.buf[k] = data[k - L]
        BY <4>1, <4>2
      <4> QED  BY <4>3 DEF x
    <3>2. ASSUME NEW k \in 1..L + length
          PROVE  Near(d, d.buf[k], k) /\ d.buf[k].n <= d.n
      <4>1. CASE k \in 1..L
        <5>1. d.buf[k] = a.buf[k] /\ a.buf[k].n <= a.n /\ a.buf[k].n \in Nat
          BY <1>5, <1>3, <1>4, <3>1, <4>1, FramesAre
        <5>2. Near(d, a.buf[k], k)
          BY <1>14, <1>4, <4>1 DEF AtTime
        <5>3. a.buf[k].n <= d.n
          BY <1>2, <1>6, <5>1
        <5> QED  BY <5>1, <5>2, <5>3
      <4>2. CASE k \in L + 1..L + length
        <5>1. PICK i \in 1..length : i = k - L /\ L + i = k
          BY <4>2
        <5>2. d.buf[k] = data[i] /\ data[i].n = a.n + i
          BY <1>7, <3>1, <4>2, <5>1
        <5>3. Near(d, data[i], k)
          BY <1>15, <5>1
        <5>4. data[i].n <= d.n
          BY <1>2, <1>6, <5>2
        <5> QED  BY <5>2, <5>3, <5>4
      <4> QED  BY <4>1, <4>2
    <3>3. AtTime(d, d.buf)
      BY <3>1, <3>2 DEF AtTime
    <3>4. d.audioTs + Len(d.buf) <= d.nextSysTs + d.taken + Slack(d)
      <4>1. d.audioTs + (L + length) <= d.nextSysTs + d.taken + Slack(d)
        BY <1>2, <1>6, <1>12, <1>13
      <4> QED  BY <3>1, <4>1
    <3>5. d.lost = 0 => d.nextSysTs + d.taken <= d.audioTs + Len(d.buf) + Slack(d)
      <4>1. a.lost = 0 => d.nextSysTs + d.taken <= d.audioTs + (L + length) + Slack(d)
        BY <1>2, <1>6, <1>9, <1>10, <1>11, <1>12
      <4> QED  BY <2>2, <3>1, <4>1
    <3> QED  BY <3>1, <3>2, <3>3, <3>4, <3>5
  <2> QED  BY <1>8, <2>1, <2>2
<1>17. Clocked(d)
  <2>1. Diff(d.nextTs, d.end) < Smoothing
    <3>1. Diff(t1 + length, t + length) < Smoothing
      <4> DEFINE x == t1 + length
                 y == t + length
      <4>1. x \in Int /\ y \in Int /\ x - y < Smoothing /\ y - x < Smoothing
        BY <1>2, <1>9
      <4> HIDE DEF x, y
      <4>2. Diff(x, y) = (IF x <= y THEN y - x ELSE x - y)
        BY <4>1, DiffIs
      <4>3. Diff(x, y) < Smoothing
        BY <4>1, <4>2
      <4> QED  BY <4>3 DEF x, y
    <3> QED  BY <1>6, <3>1
  <2>2. d.nextTs # 0 /\ d.nextSysTs # 0 /\ d.nextTs <= d.nextSysTs /\ d.nextSysTs - d.nextTs < MaxVar
    BY <1>2, <1>6
  <2>3. d.taken \in {d.offset, 0}
    <3>1. ~OffsetChanged(a, offset)
      BY DEF AppendsBlock, Appends
    <3> QED  BY <1>5, <1>6, <3>1 DEF OffsetChanged
  <2> QED  BY <1>16, <2>1, <2>2, <2>3 DEF Clocked
<1> QED  BY <1>17

PlacesBlock(a, d, data, t, t1, length, latency, adjust, offset, u) ==
  /\ length > 0 /\ length <= latency /\ latency < MaxVar /\ Len(a.buf) <= MaxBuf
  /\ a.end <= t /\ t1 = Smoothed(a, t)
  /\ adjust = Adjusts(a, t1, latency) /\ u = (IF adjust = 0 THEN t1 ELSE t + latency) + offset
  /\ d.offset = offset /\ d.taken = offset
  /\ d.n = a.n + length /\ d.end = t + length /\ d.nextTs = t1 + length /\ d.nextSysTs = t1 + length + adjust
  /\ d.audioTs = StartOf(a, u) /\ data \in Seq(SampleFrame) /\ Len(data) = length
  /\ \A i \in 1..length : data[i].n = a.n + i /\ data[i].t = t + offset + i - 1 /\ data[i].moved = (adjust # 0)
  /\ \/ d.buf = KeptOf(a, u) /\ d.lost # 0 /\ u - StartOf(a, u) + length > MaxBuf
     \/ d.buf = Placed(KeptOf(a, u), u - StartOf(a, u), data) /\ d.lost = 0

LEMMA PlacedClocked ==
  ASSUME NEW a \in SourceState, Clocked(a), NEW d \in SourceState, NEW data,
         NEW t \in Nat, NEW t1 \in Nat, NEW length \in Nat, NEW latency \in Nat, NEW adjust \in Nat, NEW offset \in Int,
         NEW u \in Nat, PlacesBlock(a, d, data, t, t1, length, latency, adjust, offset, u)
  PROVE  Clocked(d)
<1>1. /\ length > 0 /\ length <= latency /\ latency < MaxVar /\ a.end <= t
      /\ d.n = a.n + length /\ d.end = t + length /\ d.nextTs = t1 + length /\ d.nextSysTs = t1 + length + adjust
      /\ d.taken = offset /\ d.offset = offset
      /\ d.audioTs = (IF a.audioTs = 0 \/ u < a.audioTs THEN u ELSE a.audioTs)
  BY DEF PlacesBlock, StartOf, Resets
<1>2. /\ a.nextSysTs \in Nat /\ a.nextTs \in Nat /\ a.audioTs \in Nat /\ a.n \in Nat
      /\ a.lost \in Nat /\ a.end \in Nat
      /\ Smoothing \in Nat /\ MaxVar \in Nat /\ MaxBuf \in Nat /\ Smoothing > 0 /\ Smoothing <= MaxVar
  BY MixSizesAre DEF SourceState
<1>3. a.buf \in Seq(SampleFrame) /\ Len(a.buf) \in Nat
  BY DEF SourceState
<1>4. PICK L \in Nat : L = Len(a.buf)
  BY <1>3
<1>5. L <= MaxBuf
  BY <1>4 DEF PlacesBlock
<1>6. data \in Seq(SampleFrame) /\ Len(data) = length
  BY DEF PlacesBlock
<1>7. \A i \in 1..length : data[i].n = a.n + i /\ data[i].t = t + offset + i - 1 /\ data[i].moved = (adjust # 0)
  BY DEF PlacesBlock
<1>8. /\ a.nextTs <= t1 /\ t1 - t < Smoothing /\ t - t1 < Smoothing /\ (t1 = t \/ t1 = a.nextTs)
      /\ t1 = a.nextTs \/ a.nextTs + Smoothing <= t1 \/ a.nextTs = 0
  <2>1. a.end <= t /\ t1 = Smoothed(a, t)
    BY DEF PlacesBlock
  <2> QED  BY <2>1, SmoothedIs
<1>9. /\ a.nextTs <= a.nextSysTs /\ a.nextSysTs - a.nextTs < MaxVar /\ AtTime(a, a.buf)
      /\ a.nextTs = 0 \/ a.nextSysTs = 0 => a.nextTs = 0 /\ a.nextSysTs = 0 /\ a.audioTs = 0
      /\ Slack(a) \in Nat /\ Slack(a) < Smoothing
      /\ (a.nextSysTs # a.nextTs => Slack(a) = 0)
  BY <1>2, <1>4, SlackIs DEF Clocked, Held
<1>10. \/ adjust = 0 /\ u = t1 + offset
       \/ adjust = latency /\ u = t + latency + offset /\ t1 = t /\ a.nextSysTs + MaxVar < t
  <2>1. adjust = Adjusts(a, t1, latency) /\ u = (IF adjust = 0 THEN t1 ELSE t + latency) + offset
    BY DEF PlacesBlock
  <2>2. Diff(a.nextSysTs, t1) = (IF a.nextSysTs <= t1 THEN t1 - a.nextSysTs ELSE a.nextSysTs - t1)
    BY <1>2, DiffIs
  <2>3. CASE adjust = 0
    BY <2>1, <2>3
  <2>4. CASE adjust # 0
    <3>1. a.nextSysTs # 0 /\ Diff(a.nextSysTs, t1) > MaxVar /\ adjust = latency
      BY <2>1, <2>4 DEF Adjusts
    <3>2. a.nextSysTs + MaxVar < t1
      BY <1>2, <1>8, <1>9, <2>2, <3>1
    <3> QED  BY <1>2, <1>8, <1>9, <2>1, <2>4, <3>1, <3>2
  <2> QED  BY <2>3, <2>4
<1>11. /\ Slack(d) \in Nat /\ Slack(d) < Smoothing
       /\ adjust = 0 => Slack(d) = Smoothing - 1
  BY <1>1, <1>2, SlackIs
<1>15. PICK p \in Nat : p = u - StartOf(a, u) /\ d.audioTs + p = u
  BY <1>1, <1>2 DEF StartOf, Resets
<1>16. u + length <= d.nextSysTs + d.taken + Slack(d) /\ d.nextSysTs + d.taken <= u + length + Slack(d)
  BY <1>1, <1>2, <1>10, <1>11
<1>17. ASSUME NEW i \in 1..length
       PROVE  Near(d, data[i], p + i) /\ data[i].n <= d.n
  <2>1. data[i].n = a.n + i /\ data[i].t = t + offset + i - 1 /\ data[i].moved = (adjust # 0)
    BY <1>7
  <2>2. data[i].n <= d.n
    BY <1>1, <1>2, <2>1
  <2>3. ASSUME adjust = 0
        PROVE  Diff(d.audioTs + (p + i) - 1, data[i].t) <= 2 * (Smoothing - 1)
    <3>1. d.audioTs \in Nat
      BY <1>1, <1>2
    <3>2. d.audioTs + (p + i) - 1 = t1 + offset + i - 1
      BY <1>2, <1>10, <1>15, <2>3, <3>1
    <3>3. Diff(t1 + offset + i - 1, t + offset + i - 1) <= 2 * (Smoothing - 1)
      <4> DEFINE x == t1 + offset + i - 1
                 y == t + offset + i - 1
      <4>1. x \in Int /\ y \in Int /\ x - y <= 2 * (Smoothing - 1) /\ y - x <= 2 * (Smoothing - 1)
        BY <1>2, <1>8
      <4> HIDE DEF x, y
      <4>2. Diff(x, y) <= 2 * (Smoothing - 1)
        BY <1>2, <4>1, DiffIs
      <4> QED  BY <4>2 DEF x, y
    <3> QED  BY <2>1, <3>2, <3>3
  <2> QED  BY <2>1, <2>2, <2>3 DEF Near
<1>18. ASSUME NEW K \in Nat, K = 0 \/ (K = L /\ d.audioTs = a.audioTs), p + length > MaxBuf
       PROVE  d.audioTs + K <= d.nextSysTs + d.taken + Slack(d)
  <2>1. d.audioTs + K <= u + length
    <3>1. K <= MaxBuf
      BY <1>2, <1>5, <1>18
    <3>2. d.audioTs \in Nat
      BY <1>1, <1>2
    <3> QED  BY <1>2, <1>15, <1>18, <3>1, <3>2
  <2> QED  BY <1>1, <1>2, <1>11, <1>16, <2>1
<1>19. PICK K \in Nat : K = Len(KeptOf(a, u)) /\ (K = 0 \/ (K = L /\ d.audioTs = a.audioTs))
  <2>1. Len(<<>>) = 0
    OBVIOUS
  <2>2. CASE Resets(a, u)
    BY <2>1, <2>2 DEF KeptOf
  <2>3. CASE ~Resets(a, u)
    BY <1>1, <1>4, <2>3 DEF KeptOf, Resets
  <2> QED  BY <2>2, <2>3
<1>20. KeptOf(a, u) \in Seq(SampleFrame) /\ AtTime(d, KeptOf(a, u)) /\ \A k \in 1..K : KeptOf(a, u)[k].n <= d.n
  <2>1. CASE Resets(a, u)
    <3>1. KeptOf(a, u) = <<>> /\ K = 0
      BY <1>19, <2>1 DEF KeptOf
    <3> QED  BY <3>1 DEF AtTime
  <2>2. CASE ~Resets(a, u)
    <3>1. KeptOf(a, u) = a.buf /\ a.audioTs # 0
      BY <2>2 DEF KeptOf, Resets
    <3>2. AtTime(d, a.buf)
      <4>1. d.audioTs = a.audioTs
        BY <1>1, <2>2 DEF Resets
      <4> QED  BY <1>9, <4>1, AtTimeLater
    <3>3. \A k \in 1..Len(a.buf) : a.buf[k].n \in Nat /\ a.buf[k].n <= a.n
      BY <1>3, FramesAre DEF Clocked
    <3>4. \A n \in Nat : n <= a.n => n <= d.n
      BY <1>1, <1>2
    <3> QED  BY <1>3, <1>19, <3>1, <3>2, <3>3, <3>4
  <2> QED  BY <2>1, <2>2
<1>21. /\ AtTime(d, d.buf) /\ \A k \in 1..Len(d.buf) : d.buf[k].n <= d.n
       /\ d.audioTs + Len(d.buf) <= d.nextSysTs + d.taken + Slack(d)
       /\ d.lost = 0 => d.nextSysTs + d.taken <= d.audioTs + Len(d.buf) + Slack(d)
  <2>0. \/ d.buf = KeptOf(a, u) /\ d.lost # 0 /\ p + length > MaxBuf
        \/ d.buf = Placed(KeptOf(a, u), p, data) /\ d.lost = 0
    BY <1>15 DEF PlacesBlock
  <2>1. CASE d.buf = KeptOf(a, u) /\ d.lost # 0 /\ p + length > MaxBuf
    <3>1. d.audioTs + K <= d.nextSysTs + d.taken + Slack(d)
      BY <1>18, <1>19, <2>1
    <3> QED  BY <1>19, <1>20, <2>1, <3>1
  <2>2. CASE d.buf = Placed(KeptOf(a, u), p, data) /\ d.lost = 0
    <3> DEFINE kept == KeptOf(a, u)
               z == Placed(kept, p, data)
    <3>1. d.buf = z /\ kept \in Seq(SampleFrame) /\ Len(kept) = K
      BY <1>19, <1>20, <2>2
    <3> HIDE DEF kept
    <3>2. /\ Len(z) = p + length
          /\ \A k \in 1..p : z[k] = IF k <= K THEN kept[k] ELSE Silence
          /\ \A k \in p + 1..p + length : z[k] = data[k - p]
      <4>1. /\ Len(z) = p + Len(data)
            /\ \A k \in 1..p : z[k] = IF k <= Len(kept) THEN kept[k] ELSE Silence
            /\ \A k \in p + 1..p + Len(data) : z[k] = data[k - p]
        BY <1>6, <3>1, PlacedIs, Zenon
      <4> QED  BY <1>6, <3>1, <4>1
    <3> HIDE DEF z
    <3>3. ASSUME NEW k \in 1..p + length
          PROVE  Near(d, z[k], k) /\ z[k].n <= d.n
      <4>1. CASE k \in 1..K /\ k \in 1..p
        <5>1. z[k] = kept[k]
          BY <3>2, <4>1
        <5>2. Near(d, kept[k], k)
          BY <1>19, <1>20, <4>1 DEF AtTime, kept
        <5>3. kept[k].n <= d.n
          BY <1>20, <4>1 DEF kept
        <5> QED  BY <5>1, <5>2, <5>3
      <4>2. CASE ~(k <= K) /\ k \in 1..p
        <5>1. z[k].n = 0
          BY <3>2, <4>2 DEF Silence
        <5>2. 0 <= d.n
          BY <1>1, <1>2
        <5> QED  BY <5>1, <5>2 DEF Near
      <4>3. CASE k \in p + 1..p + length
        <5>1. PICK i \in 1..length : i = k - p /\ p + i = k
          BY <4>3
        <5>2. z[k] = data[i]
          BY <3>2, <4>3, <5>1
        <5> QED  BY <1>17, <5>1, <5>2
      <4> QED  BY <4>1, <4>2, <4>3
    <3>4. AtTime(d, z)
      BY <3>2, <3>3 DEF AtTime
    <3>5. d.audioTs + (p + length) = u + length
      BY <1>1, <1>2, <1>15
    <3>6. \A k \in 1..Len(z) : z[k].n <= d.n
      BY <3>2, <3>3
    <3> QED  BY <1>16, <2>2, <3>1, <3>2, <3>4, <3>5, <3>6
  <2> QED  BY <2>0, <2>1, <2>2
<1>22. Clocked(d)
  <2>1. Diff(d.nextTs, d.end) < Smoothing
    <3> DEFINE x == t1 + length
               y == t + length
    <3>1. x \in Int /\ y \in Int /\ x - y < Smoothing /\ y - x < Smoothing
      BY <1>2, <1>8
    <3> HIDE DEF x, y
    <3>2. Diff(x, y) < Smoothing
      BY <1>2, <3>1, DiffIs
    <3>3. Diff(t1 + length, t + length) < Smoothing
      BY <3>2 DEF x, y
    <3> QED  BY <1>1, <3>3
  <2>2. d.nextTs # 0 /\ d.nextSysTs # 0 /\ d.nextTs <= d.nextSysTs /\ d.nextSysTs - d.nextTs < MaxVar
    BY <1>1, <1>2, <1>10
  <2> QED  BY <1>1, <1>21, <2>1, <2>2 DEF Clocked
<1> QED  BY <1>22

LEMMA OutputKeeps ==
  ASSUME MixTypes, Timed, NEW s \in Source, NEW length \in Length, NEW late \in Lateness[s],
         NEW offset \in SyncOffset[s], Output(s, length, late, offset)
  PROVE  LET a == src[s]
             d == src'[s]
         IN /\ d \in SourceState /\ src' = [src EXCEPT ![s] = d] /\ Len(d.buf) <= MaxBuf /\ d.pending = a.pending
            /\ Clocked(d)
            /\ a.audioTs # 0 => d.audioTs # 0
            /\ \A x \in Seq(SampleFrame) : a.audioTs # 0 /\ (a.reset \/ AtTime(a, x)) => d.reset \/ AtTime(d, x)
<1> DEFINE a == src[s]
           d == src'[s]
           t == now - length - late
           t1 == Smoothed(a, t)
           push == Appends(a, t1, offset)
           taken == IF push THEN a.taken ELSE offset
           adjust == Adjusts(a, t1, length + late)
           data == Block(a, length, t + taken, ~push \/ a.lost = a.n, adjust # 0 \/ (push /\ a.lost # 0))
           u == (IF adjust = 0 THEN t1 ELSE now) + offset
           full == (IF push THEN Len(a.buf) ELSE u - StartOf(a, u)) + length > MaxBuf
<1>1. a \in SourceState /\ Clocked(a) /\ Len(a.buf) <= MaxBuf
  BY DEF MixTypes, MixTypeOK, Timed
<1>2. \A k \in 1..Len(a.buf) : a.buf[k].n <= a.n
  BY <1>1 DEF Clocked
<1>3. /\ t \in Nat /\ t >= a.end /\ t1 \in Nat /\ length \in Nat /\ length > 0 /\ length + late < MaxVar
      /\ late \in Nat /\ now \in Nat /\ offset \in Int /\ u \in Nat /\ u > 0
      /\ d \in SourceState /\ src' = [src EXCEPT ![s] = d] /\ Len(d.buf) <= MaxBuf
      /\ d.pending = a.pending /\ d.n = a.n + length /\ d.end = t + length
      /\ d.nextTs = t1 + length /\ d.nextSysTs = t1 + length + adjust
      /\ d.offset = offset /\ d.taken = taken /\ d.reset = (a.reset \/ d.audioTs < a.audioTs)
      /\ data \in Seq(SampleFrame) /\ Len(data) = length
      /\ \A i \in 1..length : /\ data[i].n = a.n + i /\ data[i].t = t + taken + i - 1
                              /\ data[i].moved = (adjust # 0 \/ (push /\ a.lost # 0))
                              /\ data[i].new = ((~push \/ a.lost = a.n) /\ i = 1)
      /\ d.audioTs = IF push THEN a.audioTs ELSE StartOf(a, u)
      /\ d.buf = IF full THEN IF push THEN a.buf ELSE KeptOf(a, u)
                 ELSE IF push THEN a.buf \o data ELSE Placed(KeptOf(a, u), u - StartOf(a, u), data)
      /\ full => d.lost # 0 /\ d.lost = d.n
      /\ ~full => d.lost = IF push THEN a.lost ELSE 0
  <2>1. /\ t \in Nat /\ t >= a.end /\ t1 \in Nat /\ length \in Nat /\ length > 0 /\ length + late < MaxVar
        /\ late \in Nat /\ now \in Nat /\ offset \in Int /\ u \in Nat /\ u > 0
    BY <1>2, OutputIs
  <2>2. /\ d \in SourceState /\ src' = [src EXCEPT ![s] = d] /\ Len(d.buf) <= MaxBuf
        /\ d.pending = a.pending /\ d.n = a.n + length /\ d.end = t + length
    BY <1>2, OutputIs
  <2>3. /\ d.nextTs = t1 + length /\ d.nextSysTs = t1 + length + adjust
        /\ d.offset = offset /\ d.taken = taken /\ d.reset = (a.reset \/ d.audioTs < a.audioTs)
    BY <1>2, OutputIs
  <2>4. data \in Seq(SampleFrame) /\ Len(data) = length
    BY <1>2, OutputIs
  <2>5. \A i \in 1..length : /\ data[i].n = a.n + i /\ data[i].t = t + taken + i - 1
                             /\ data[i].moved = (adjust # 0 \/ (push /\ a.lost # 0))
                             /\ data[i].new = ((~push \/ a.lost = a.n) /\ i = 1)
    BY <1>2, OutputIs
  <2>6. d.audioTs = IF push THEN a.audioTs ELSE StartOf(a, u)
    BY <1>2, OutputIs
  <2>7. d.buf = IF full THEN IF push THEN a.buf ELSE KeptOf(a, u)
                ELSE IF push THEN a.buf \o data ELSE Placed(KeptOf(a, u), u - StartOf(a, u), data)
    BY <1>2, OutputIs
  <2>8. (full => d.lost # 0 /\ d.lost = d.n) /\ (~full => d.lost = IF push THEN a.lost ELSE 0)
    BY <1>2, OutputIs
  <2> HIDE DEF a, d, t, t1, push, adjust, taken, data, u, full
  <2> QED  BY <2>1, <2>2, <2>3, <2>4, <2>5, <2>6, <2>7, <2>8
<1>4. now = t + (length + late)
  BY <1>3
<1>7. a.audioTs \in Nat /\ a.nextTs \in Nat /\ a.nextSysTs \in Nat /\ a.end \in Nat /\ a.reset \in BOOLEAN
  BY <1>1 DEF SourceState
<1> HIDE DEF a, d, t, t1, data, adjust
<1>5. CASE push
  <2>1. adjust = 0
    <3>1. Diff(a.nextSysTs, t1) < Smoothing
      BY <1>5 DEF Appends, Expects
    <3>2. a.nextSysTs \in Nat /\ Smoothing <= MaxVar /\ Smoothing \in Nat /\ MaxVar \in Nat
      BY <1>1, MixSizesAre DEF SourceState
    <3>4. t1 \in Nat
      BY <1>3
    <3>3. Diff(a.nextSysTs, t1) \in Int
      BY <3>2, <3>4, DiffIs
    <3> QED  BY <3>1, <3>2, <3>3 DEF adjust, Adjusts
  <2>2. AppendsBlock(a, d, data, t, t1, length, offset)
    <3>1. d.nextSysTs = t1 + length /\ taken = a.taken
      BY <1>3, <1>5, <2>1
    <3>2. \A i \in 1..length : data[i].moved = (a.lost # 0)
      BY <1>3, <1>5, <2>1
    <3>3. /\ d.audioTs = a.audioTs
          /\ \/ d.buf = a.buf /\ d.lost # 0
             \/ d.buf = a.buf \o data /\ d.lost = a.lost
      BY <1>3, <1>5
    <3>4. a.end <= t /\ t1 = Smoothed(a, t)
      BY <1>1, <1>3 DEF t1, SourceState
    <3> QED  BY <1>3, <1>5, <3>1, <3>2, <3>3, <3>4 DEF AppendsBlock
  <2>3. Clocked(d)
    BY <1>1, <1>3, <2>2, AppendedClocked
  <2>4. d.audioTs = a.audioTs /\ d.reset = a.reset
    BY <1>3, <1>5, <1>7
  <2>5. \A x \in Seq(SampleFrame) : a.audioTs # 0 /\ (a.reset \/ AtTime(a, x)) => d.reset \/ AtTime(d, x)
    BY <2>4, AtTimeLater
  <2> QED  BY <1>3, <2>3, <2>4, <2>5 DEF a, d
<1>6. CASE ~push
  <2> DEFINE latency == length + late
  <2>1. latency \in Nat /\ adjust \in Nat /\ u \in Nat /\ length <= latency /\ latency < MaxVar /\ now = t + latency
    BY <1>3, <1>4 DEF adjust, Adjusts
  <2>2. PlacesBlock(a, d, data, t, t1, length, latency, adjust, offset, u)
    <3>1. \A i \in 1..length : data[i].moved = (adjust # 0)
      BY <1>3, <1>6
    <3>2. /\ d.audioTs = StartOf(a, u)
          /\ \/ d.buf = KeptOf(a, u) /\ d.lost # 0 /\ u - StartOf(a, u) + length > MaxBuf
             \/ d.buf = Placed(KeptOf(a, u), u - StartOf(a, u), data) /\ d.lost = 0
      BY <1>3, <1>6
    <3>3. a.end <= t /\ t1 = Smoothed(a, t) /\ adjust = Adjusts(a, t1, latency)
      BY <1>1, <1>3 DEF t1, adjust, SourceState
    <3>4. u = (IF adjust = 0 THEN t1 ELSE t + latency) + offset /\ taken = offset
      BY <1>6, <2>1
    <3> HIDE DEF u, latency, taken
    <3> QED  BY <1>1, <1>3, <1>6, <2>1, <3>1, <3>2, <3>3, <3>4 DEF PlacesBlock
  <2> HIDE DEF latency, u
  <2>3. Clocked(d)
    BY <1>1, <1>3, <2>1, <2>2, PlacedClocked
  <2>4. \/ d.audioTs = a.audioTs
        \/ a.audioTs = 0
        \/ d.audioTs # 0 /\ d.reset
    <3>0. d.audioTs = StartOf(a, u)
      BY <1>3, <1>6
    <3> HIDE DEF push, full, taken
    <3>1. a.audioTs # 0 /\ d.audioTs # a.audioTs => d.audioTs = u /\ u < a.audioTs
      BY <3>0 DEF StartOf, Resets
    <3>2. u > 0 /\ d.reset = (a.reset \/ d.audioTs < a.audioTs)
      BY <1>3
    <3>3. CASE a.audioTs # 0 /\ d.audioTs # a.audioTs
      <4>1. d.audioTs = u /\ u < a.audioTs
        BY <3>1, <3>3
      <4>2. d.audioTs # 0
        BY <3>2, <4>1
      <4>3. d.reset
        BY <3>2, <4>1
      <4> QED  BY <4>2, <4>3
    <3> QED  BY <3>3
  <2>5. \A x \in Seq(SampleFrame) : a.audioTs # 0 /\ (a.reset \/ AtTime(a, x)) => d.reset \/ AtTime(d, x)
    <3>1. CASE d.audioTs = a.audioTs
      BY <1>3, <3>1, AtTimeLater
    <3>2. CASE a.audioTs = 0
      BY <3>2
    <3> QED  BY <2>4, <3>1, <3>2
  <2>6. a.audioTs # 0 => d.audioTs # 0
    BY <2>4
  <2> QED  BY <1>3, <2>3, <2>5, <2>6 DEF a, d
<1> QED  BY <1>5, <1>6

-----------------------------------------------------------------------------
(* What is taken from the front of a buffer, or thrown away.               *)

SameTimes(a, d) ==
  /\ d.n = a.n /\ d.end = a.end /\ d.nextTs = a.nextTs /\ d.nextSysTs = a.nextSysTs /\ d.lost = a.lost
  /\ d.offset = a.offset /\ d.taken = a.taken

LEMMA SameClock ==
  ASSUME NEW a \in SourceState, NEW d \in SourceState, SameTimes(a, d), d.audioTs = a.audioTs, d.buf = a.buf
  PROVE  /\ Clocked(a) => Clocked(d)
         /\ \A x \in Seq(SampleFrame) : AtTime(a, x) => AtTime(d, x)
<1>1. Slack(d) = Slack(a) /\ (Held(d) <=> Held(a))
  BY DEF SameTimes, Slack, Jumped, Held
<1>2. \A x \in Seq(SampleFrame) : AtTime(a, x) => AtTime(d, x)
  BY <1>1 DEF SameTimes, AtTime, Near
<1>3. a.buf \in Seq(SampleFrame)
  BY DEF SourceState
<1> QED  BY <1>1, <1>2, <1>3 DEF SameTimes, Clocked

LEMMA ShortenedClocked ==
  ASSUME NEW a \in SourceState, NEW d \in SourceState, Clocked(a), SameTimes(a, d), NEW k \in Nat,
         Len(d.buf) + k = Len(a.buf), d.audioTs = a.audioTs + k, \A i \in 1..Len(d.buf) : d.buf[i] = a.buf[i + k]
  PROVE  Clocked(d)
<1>1. /\ Slack(d) = Slack(a) /\ d.n = a.n /\ d.end = a.end /\ d.nextTs = a.nextTs /\ d.nextSysTs = a.nextSysTs
      /\ d.lost = a.lost /\ d.offset = a.offset /\ d.taken = a.taken
  BY DEF SameTimes, Slack, Jumped
<1>2. PICK L \in Nat, M \in Nat : L = Len(a.buf) /\ M = Len(d.buf) /\ M + k = L
  <2>1. Len(a.buf) \in Nat
    BY DEF SourceState
  <2>2. Len(d.buf) \in Nat
    BY DEF SourceState
  <2> QED  BY <2>1, <2>2
<1>3. a.audioTs \in Nat /\ a.nextTs \in Nat /\ a.buf \in Seq(SampleFrame) /\ d.buf \in Seq(SampleFrame)
  BY DEF SourceState
<1>4. Held(d) => Held(a)
  <2>1. SUFFICES ASSUME a.audioTs = 0, a.buf = <<>> PROVE ~Held(d)
    BY DEF Held
  <2>2. L = 0
    BY <1>2, <2>1
  <2>3. M = 0 /\ k = 0
    BY <1>2, <2>2
  <2>4. d.buf = <<>>
    BY <1>2, <1>3, <2>3, EmptySeq
  <2> QED  BY <2>1, <2>3, <2>4 DEF Held
<1>5. d.audioTs + M = a.audioTs + L
  <2>1. a.audioTs \in Nat
    BY <1>3
  <2> QED  BY <1>2, <2>1
<1>6. AtTime(d, d.buf)
  <2>1. SUFFICES ASSUME NEW i \in 1..M, d.buf[i].n # 0, ~d.buf[i].moved
                 PROVE  Diff(d.audioTs + i - 1, d.buf[i].t) <= 2 * (Smoothing - 1)
    BY <1>2 DEF AtTime, Near
  <2>2. i + k \in 1..L
    BY <1>2
  <2>3. d.buf[i] = a.buf[i + k]
    BY <1>2
  <2>4. a.audioTs + (i + k) - 1 = d.audioTs + i - 1
    BY <1>3
  <2>5. Diff(a.audioTs + (i + k) - 1, a.buf[i + k].t) <= 2 * (Smoothing - 1)
    BY <1>2, <2>1, <2>2, <2>3 DEF Clocked, AtTime, Near
  <2> QED  BY <1>1, <2>3, <2>4, <2>5
<1>7. \A i \in 1..M : d.buf[i].n <= d.n
  <2>1. TAKE i \in 1..M
  <2>2. i + k \in 1..L /\ d.buf[i] = a.buf[i + k]
    BY <1>2
  <2> QED  BY <1>1, <1>2, <2>2 DEF Clocked
<1>8. /\ a.nextTs <= a.nextSysTs /\ a.nextSysTs - a.nextTs < MaxVar /\ Diff(a.nextTs, a.end) < Smoothing
      /\ a.nextTs = 0 \/ a.nextSysTs = 0 => a.nextTs = 0 /\ a.nextSysTs = 0 /\ a.n = 0 /\ ~Held(a)
      /\ Held(a) => /\ a.audioTs + L <= a.nextSysTs + a.taken + Slack(a)
                    /\ a.lost = 0 => a.nextSysTs + a.taken <= a.audioTs + L + Slack(a)
      /\ a.taken \in {a.offset, 0}
  BY <1>2 DEF Clocked
<1> QED  BY <1>1, <1>2, <1>4, <1>5, <1>6, <1>7, <1>8 DEF Clocked

LEMMA EmptiedClocked ==
  ASSUME NEW a \in SourceState, NEW d \in SourceState, Clocked(a), SameTimes(a, d), d.buf = <<>>, d.audioTs = 0
  PROVE  Clocked(d)
<1>1. ~Held(d) /\ Len(d.buf) = 0 /\ AtTime(d, d.buf)
  BY DEF Held, AtTime
<1> QED  BY <1>1 DEF SameTimes, Clocked

Good(a) == a \in SourceState /\ Len(a.buf) <= MaxBuf /\ Clocked(a)

LEMMA ClearedIs ==
  ASSUME NEW a, Good(a)
  PROVE  Good(Cleared(a))
<1>1. a \in SourceState /\ <<>> \in Seq(SampleFrame) /\ Len(<<>>) = 0 /\ Len(a.buf) \in Nat /\ MaxBuf \in Nat
  BY MixSizesAre DEF Good, SourceState
<1>2. CASE a.buf = <<>>
  BY <1>2 DEF Cleared
<1>3. CASE a.buf # <<>> /\ Stopped(a)
  <2> DEFINE d == [a EXCEPT !.buf = <<>>, !.audioTs = 0, !.lastSize = 0]
  <2>1. Cleared(a) = d
    BY <1>3 DEF Cleared
  <2>2. d \in SourceState /\ d.buf = <<>> /\ d.audioTs = 0 /\ SameTimes(a, d)
    BY <1>1 DEF SourceState, SameTimes
  <2> HIDE DEF d
  <2> QED  BY <1>1, <2>1, <2>2, EmptiedClocked DEF Good
<1>4. CASE a.buf # <<>> /\ ~Stopped(a)
  <2> DEFINE d == [a EXCEPT !.lastSize = Len(a.buf)]
  <2>1. Cleared(a) = d
    BY <1>4 DEF Cleared
  <2>2. d \in SourceState /\ d.buf = a.buf /\ d.audioTs = a.audioTs /\ SameTimes(a, d)
    BY <1>1 DEF SourceState, SameTimes
  <2> HIDE DEF d
  <2> QED  BY <1>1, <2>1, <2>2, SameClock DEF Good
<1> QED  BY <1>2, <1>3, <1>4

LEMMA IgnoredIs ==
  ASSUME NEW a, Good(a)
  PROVE  Good(Ignored(a))
<1>1. a \in SourceState /\ <<>> \in Seq(SampleFrame) /\ Len(<<>>) = 0 /\ Len(a.buf) \in Nat /\ MaxBuf \in Nat
  BY MixSizesAre DEF Good, SourceState
<1>2. CASE a.buf = <<>>
  BY <1>2 DEF Ignored
<1>3. CASE a.buf # <<>>
  <2>1. PICK L \in Nat : L = Len(a.buf)
    BY <1>1
  <2> DEFINE e == a.audioTs + L
             d == [a EXCEPT !.buf = <<>>, !.lastSize = 0, !.audioTs = e]
  <2>2. Ignored(a) = d
    BY <1>3, <2>1 DEF Ignored
  <2>3. e \in Nat
    BY <1>1, <2>1 DEF SourceState
  <2> HIDE DEF e
  <2>4. d \in SourceState /\ d.buf = <<>> /\ d.audioTs = a.audioTs + L /\ SameTimes(a, d)
    BY <1>1, <2>3 DEF SourceState, SameTimes, e
  <2> HIDE DEF d
  <2>5. Len(d.buf) + L = Len(a.buf) /\ \A i \in 1..Len(d.buf) : d.buf[i] = a.buf[i + L]
    BY <1>1, <2>1, <2>4
  <2> QED  BY <1>1, <2>1, <2>2, <2>4, <2>5, ShortenedClocked DEF Good
<1> QED  BY <1>2, <1>3

LEMMA DiscardedIs ==
  ASSUME NEW a, Good(a), ts \in Int, ts > -Frames
  PROVE  Good(Discarded(a))
<1>1. a \in SourceState /\ a.audioTs \in Nat /\ a.buf \in Seq(SampleFrame)
  BY DEF Good, SourceState
<1>2. Frames \in Nat /\ Frames > 0 /\ MaxBuf \in Nat
  BY MixSizesAre
<1>3. CASE a.audioTs >= ts + Frames
  BY <1>3 DEF Discarded
<1>4. CASE ~(a.audioTs >= ts + Frames) /\ a.audioTs < ts
  <2> DEFINE b == IF a.pending /\ Len(a.buf) < Frames THEN Cleared(a) ELSE a
  <2>1. Good(b) /\ Good(Cleared(a))
    BY ClearedIs
  <2>2. Discarded(a) \in {Cleared(a), b, Ignored(b)}
    BY <1>4 DEF Discarded
  <2> HIDE DEF b
  <2>3. Good(Ignored(b))
    BY <2>1, IgnoredIs
  <2> QED  BY <2>1, <2>2, <2>3
<1>5. CASE ~(a.audioTs >= ts + Frames) /\ ~(a.audioTs < ts) /\ Len(a.buf) < Taken(a)
  BY <1>5, ClearedIs DEF Discarded
<1>6. CASE ~(a.audioTs >= ts + Frames) /\ ~(a.audioTs < ts) /\ ~(Len(a.buf) < Taken(a))
  <2>1. PICK k \in Nat : k = Taken(a) /\ k > 0 /\ ts + Frames = a.audioTs + k /\ a.audioTs + k \in Nat
    <3>1. Taken(a) = Frames - (a.audioTs - ts)
      BY DEF Taken
    <3> QED  BY <1>1, <1>2, <1>6, <3>1
  <2>2. PICK L \in Nat, M \in Nat : L = Len(a.buf) /\ k <= L /\ M + k = L /\ L - k = M
    <3>1. PICK L \in Nat : L = Len(a.buf)
      BY <1>1
    <3>2. k <= L
      BY <1>6, <2>1, <3>1
    <3> QED  BY <3>1, <3>2
  <2> DEFINE x == SubSeq(a.buf, k + 1, L)
  <2>3. x \in Seq(SampleFrame) /\ Len(x) = M /\ \A i \in 1..M : x[i] = a.buf[i + k]
    BY <1>1, <2>2, SubSeqProperties
  <2> HIDE DEF x
  <2> DEFINE e == ts + Frames
             d == [a EXCEPT !.buf = x, !.lastSize = 0, !.audioTs = e]
  <2>4. Discarded(a) = d
    BY <1>6, <2>1, <2>2 DEF Discarded, x
  <2>5. e \in Nat /\ e = a.audioTs + k
    BY <2>1
  <2> HIDE DEF e
  <2>6. d \in SourceState /\ d.buf = x /\ d.audioTs = a.audioTs + k /\ SameTimes(a, d)
    BY <1>1, <2>3, <2>5 DEF SourceState, SameTimes
  <2> HIDE DEF d
  <2>7. Len(d.buf) + k = Len(a.buf) /\ \A i \in 1..Len(d.buf) : d.buf[i] = a.buf[i + k]
    BY <2>2, <2>3, <2>6
  <2>8. Clocked(d)
    BY <1>1, <2>6, <2>7, ShortenedClocked DEF Good
  <2>9. Len(d.buf) <= MaxBuf
    <3>1. L <= MaxBuf
      BY <2>2 DEF Good
    <3>2. M <= MaxBuf
      BY <1>2, <2>2, <3>1
    <3> QED  BY <2>3, <2>6, <3>2
  <2> QED  BY <2>4, <2>6, <2>8, <2>9 DEF Good
<1> QED  BY <1>3, <1>4, <1>5, <1>6

-----------------------------------------------------------------------------
(* The windows.                                                            *)

LEMMA TimesIs ==
  /\ \A x \in Int : x * Frames \in Int
  /\ \A x, y \in Int : (x + y) * Frames = x * Frames + y * Frames /\ (x - y) * Frames = x * Frames - y * Frames
  /\ 0 * Frames = 0 /\ 1 * Frames = Frames
<1>1. Frames \in Int
  BY MixSizesAre
<1> QED  BY <1>1

(* find_min_ts finds a least time: there are none before zero.             *)
LEMMA MinTsIs ==
  ASSUME MixTypes, ts > -Frames
  PROVE  MinTs(ts) \in Int /\ MinTs(ts) <= ts /\ (MinTs(ts) < ts => MinTs(ts) \in Nat)
<1> DEFINE times == {src[s].audioTs : s \in {a \in Source : ~src[a].pending /\ src[a].audioTs # 0}}
           S == times \cup {ts}
           U == {t + Frames : t \in S}
<1>1. Frames \in Nat /\ ts \in Int
  BY MixSizesAre DEF MixTypes
<1>2. times \subseteq Nat
  BY DEF MixTypes, SourceState
<1> HIDE DEF times
<1>3. U \subseteq Nat /\ U # {}
  BY <1>1, <1>2
<1>4. \A x \in times : x \in Nat /\ x \in Int
  BY <1>2
<1>5. PICK u \in U : \A v \in U : ~(<<v, u>> \in OpToRel(<, Nat))
  BY <1>3, NatLessThanWellFounded, WFMin
<1>6. \A v \in U : u <= v
  <2>1. TAKE v \in U
  <2>2. ~(v < u)
    BY <1>3, <1>5 DEF OpToRel
  <2> HIDE DEF U
  <2>3. u \in Nat /\ v \in Nat
    BY <1>3
  <2> QED  BY <2>2, <2>3
<1>7. PICK m \in S : u = m + Frames
  OBVIOUS
<1>8. \A t \in S : m <= t
  BY <1>1, <1>2, <1>6, <1>7
<1>9. MinTs(ts) = CHOOSE x \in S : \A t \in S : x <= t
  BY DEF MinTs, times
<1>10. MinTs(ts) \in S /\ \A t \in S : MinTs(ts) <= t
  BY <1>8, <1>9
<1>11. MinTs(ts) \in Int /\ (MinTs(ts) \in Nat \/ MinTs(ts) = ts)
  <2>1. MinTs(ts) \in times \/ MinTs(ts) = ts
    BY <1>10
  <2> HIDE DEF S, U
  <2> QED  BY <1>1, <1>4, <2>1
<1>12. MinTs(ts) <= ts
  BY <1>10
<1> QED  BY <1>1, <1>11, <1>12

LEMMA RenderWindows ==
  ASSUME MixTypes, Windows, Delivery, Render
  PROVE  /\ Windows' /\ Delivery' /\ windows' \in Seq(Int) /\ ts' \in Int /\ next' \in Nat
         /\ NextHeard' = NextHeard
<1>1. /\ stage = "sleep" /\ stage' = "measure" /\ windows' = Append(windows, next) /\ next' = next + Frames
      /\ ts' = Head(windows') /\ ticks' = ticks /\ wait' = wait /\ bufferedTs' = bufferedTs /\ out' = out
  BY DEF Render, history
<1>2. windows \in Seq(Int) /\ next \in Nat /\ next \in Int
  BY DEF MixTypes
<1>3. Frames \in Nat /\ Frames > 0
  BY MixSizesAre
<1>4. PICK l \in Nat : l = Len(windows)
  BY <1>2
<1>5. l = ticks /\ \A i \in 1..l : windows[i] = next - (l + 1 - i) * Frames
  <2>1. Pending = 0
    BY <1>1 DEF Pending
  <2>2. ticks \in Nat
    BY MixSizesAre DEF MixTypes, MixTypeOK
  <2> QED  BY <1>4, <2>1, <2>2 DEF Windows
<1>6. /\ windows' \in Seq(Int) /\ Len(windows') = l + 1 /\ windows'[l + 1] = next
      /\ (\A i \in 1..l : windows'[i] = windows[i]) /\ windows' # <<>>
  BY <1>1, <1>2, <1>4
<1>7. ASSUME NEW i \in 1..l + 1
      PROVE  windows'[i] = next' - (l + 2 - i) * Frames
  <2>1. CASE i \in 1..l
    <3>1. windows'[i] = next - (l + 1 - i) * Frames
      BY <1>5, <1>6, <2>1
    <3>2. (l + 2 - i) * Frames = (l + 1 - i) * Frames + Frames
      <4> DEFINE x == l + 1 - i
      <4>1. x \in Int /\ l + 2 - i = x + 1
        BY <2>1
      <4> HIDE DEF x
      <4>2. (x + 1) * Frames = x * Frames + Frames
        BY <4>1, TimesIs
      <4> QED  BY <4>1, <4>2 DEF x
    <3>3. PICK p \in Int : p = (l + 1 - i) * Frames
      BY <1>3, <2>1
    <3>4. next' - (p + Frames) = next - p
      BY <1>1, <1>2, <1>3
    <3> QED  BY <3>1, <3>2, <3>3, <3>4
  <2>2. CASE i = l + 1
    <3>1. (l + 2 - i) * Frames = Frames
      BY <1>3, <2>2
    <3> QED  BY <1>1, <1>2, <1>3, <1>6, <2>2, <3>1
  <2> QED  BY <2>1, <2>2
<1>8. FirstDue' = FirstDue /\ FirstDue = next - l * Frames
  <2>1. FirstDue = next - l * Frames /\ FirstDue' = next' - (l + 1) * Frames
    BY <1>4, <1>6 DEF FirstDue
  <2>2. (l + 1) * Frames = l * Frames + Frames /\ l * Frames \in Int
    BY <1>3, TimesIs
  <2>3. PICK p \in Int : p = l * Frames
    BY <2>2
  <2> QED  BY <1>1, <1>2, <1>3, <2>1, <2>2, <2>3
<1>9. ts' = FirstDue'
  <2>1. ts' = windows'[1]
    BY <1>1, <1>6
  <2>2. windows'[1] = next' - (l + 1) * Frames
    BY <1>7
  <2> QED  BY <1>6, <2>1, <2>2 DEF FirstDue
<1>10. Windows'
  <2>1. Pending' = 1
    BY <1>1 DEF Pending
  <2>2. \A i \in 1..Len(windows') : windows'[i] = next' - (Len(windows') + 1 - i) * Frames
    BY <1>6, <1>7
  <2>3. Len(windows') = ticks' + Pending'
    BY <1>1, <1>5, <1>6, <2>1
  <2>4. wait' > 0 => bufferedTs' = FirstDue' + wait' * Frames
    BY <1>1, <1>8 DEF Windows
  <2>5. FirstDue' > -Frames
    BY <1>8 DEF Windows
  <2> QED  BY <1>9, <2>2, <2>3, <2>4, <2>5 DEF Windows
<1>11. Delivery' /\ NextHeard' = NextHeard
  <2>1. ~Delivered /\ ~Delivered'
    BY <1>1 DEF Delivered
  <2> QED  BY <1>1, <1>8, <2>1 DEF Delivery, NextHeard
<1>12. ts' \in Int
  <2>1. l * Frames \in Int
    BY <1>3
  <2> QED  BY <1>2, <1>8, <1>9, <2>1
<1> QED  BY <1>1, <1>2, <1>3, <1>6, <1>10, <1>11, <1>12

LEMMA BufferWindows ==
  ASSUME MixTypes, Windows, Delivery, Measure
  PROVE  /\ Windows' /\ Delivery' /\ windows' \in Seq(Int) /\ ts' \in Int /\ bufferedTs' \in Int
         /\ ticks' \in 0..MaxTicks /\ wait' \in 0..ticks' /\ NextHeard' = NextHeard
<1>1. stage = "measure" /\ stage' = "mix" /\ next' = next /\ out' = out
  BY DEF Measure, history
<1>2. /\ windows \in Seq(Int) /\ next \in Int /\ ts \in Int /\ bufferedTs \in Int /\ ticks \in 0..MaxTicks
      /\ wait \in 0..ticks
  BY DEF MixTypes, MixTypeOK
<1>3. Frames \in Nat /\ Frames > 0 /\ MaxTicks \in Nat
  BY MixSizesAre
<1>4. PICK l \in Nat : l = Len(windows)
  BY <1>2
<1>5. /\ l = ticks + 1 /\ ts = FirstDue /\ FirstDue > -Frames /\ FirstDue = next - l * Frames
      /\ \A i \in 1..l : windows[i] = next - (l + 1 - i) * Frames
      /\ wait > 0 => bufferedTs = FirstDue + wait * Frames
  <2>1. Pending = 1
    BY <1>1 DEF Pending
  <2> QED  BY <1>1, <1>4, <2>1 DEF Windows, FirstDue
<1>6. Pending' = 1 /\ Pending = 1 /\ ~Delivered /\ ~Delivered'
  BY <1>1 DEF Pending, Delivered
<1> DEFINE min == MinTs(ts)
<1>7. CASE ~(min < ts /\ ticks < MaxTicks)
  <2>1. windows' = windows /\ ticks' = ticks /\ wait' = wait /\ bufferedTs' = bufferedTs /\ ts' = ts
    BY <1>7 DEF Measure
  <2>2. FirstDue' = FirstDue
    BY <1>1, <2>1 DEF FirstDue
  <2>3. Windows' /\ Delivery' /\ NextHeard' = NextHeard
    <3>1. ts' = FirstDue'
      BY <1>5, <2>1, <2>2
    <3>2. NextHeard' = NextHeard
      BY <1>6, <2>1, <2>2 DEF NextHeard
    <3> QED  BY <1>1, <1>6, <2>1, <2>2, <3>1, <3>2 DEF Windows, Delivery
  <2> QED  BY <1>2, <2>1, <2>3
<1>8. CASE min < ts /\ ticks < MaxTicks
  <2>1. min \in Nat
    BY <1>5, <1>8, MinTsIs
  <2> DEFINE needed == (ts - min + Frames - 1) \div Frames
             added == MIN(needed, MaxTicks - ticks)
             base == IF wait = 0 THEN ts ELSE bufferedTs
             front == Earlier(base, added)
  <2>2. /\ ticks' = ticks + added /\ wait' = wait + added /\ bufferedTs' = base
        /\ windows' = front \o windows /\ ts' = Head(windows')
    BY <1>8 DEF Measure, Buffer
  <2> HIDE DEF min
  <2>3. needed \in Nat /\ needed > 0 /\ needed * Frames <= ts - min + Frames - 1
    <3> DEFINE x == ts - min + Frames - 1
    <3>1. x \in Nat /\ x >= Frames
      BY <1>2, <1>3, <1>8, <2>1
    <3> HIDE DEF x
    <3>2. x \div Frames \in Nat /\ x \div Frames > 0 /\ (x \div Frames) * Frames <= x
      BY <1>3, <3>1
    <3> QED  BY <3>2 DEF x
  <2> HIDE DEF needed
  <2>4. added \in Nat /\ added > 0 /\ added <= needed /\ ticks + added <= MaxTicks
    BY <1>2, <1>3, <1>8, <2>3 DEF MIN
  <2> HIDE DEF added
  <2>5. PICK g \in Nat : g = added * Frames /\ g <= ts - min + Frames - 1
    <3>1. PICK h \in Nat : needed = added + h
      <4>1. needed - added \in Nat /\ needed = added + (needed - added)
        BY <2>3, <2>4
      <4> QED  BY <4>1
    <3>2. needed * Frames = added * Frames + h * Frames /\ added * Frames \in Nat /\ h * Frames \in Nat
      BY <1>3, <2>4, <3>1
    <3>3. PICK x \in Nat, y \in Nat : x = added * Frames /\ y = h * Frames
      BY <3>2
    <3>4. x <= ts - min + Frames - 1
      BY <1>2, <1>3, <2>1, <2>3, <3>2, <3>3
    <3> QED  BY <3>3, <3>4
  <2>6. base = FirstDue + wait * Frames /\ base \in Int
    BY <1>2, <1>3, <1>5
  <2>7. PICK v \in Int : v = wait * Frames
    BY <1>2, <1>3
  <2>8. /\ front \in Seq(Int) /\ Len(front) = added
        /\ \A i \in 1..added : front[i] = base - (wait + added + 1 - i) * Frames
    <3> HIDE DEF base
    <3>1. \A i \in 1..added : base - (wait + added + 1 - i) * Frames \in Int
      BY <1>2, <1>3, <2>4, <2>6
    <3> QED  BY <2>4, <3>1 DEF Earlier
  <2> HIDE DEF front
  <2>9. /\ windows' \in Seq(Int) /\ Len(windows') = added + l
        /\ \A i \in 1..added : windows'[i] = front[i]
        /\ \A i \in added + 1..added + l : windows'[i] = windows[i - added]
    <3>1. /\ front \o windows \in Seq(Int) /\ Len(front \o windows) = Len(front) + Len(windows)
          /\ \A i \in 1..Len(front) + Len(windows) :
               (front \o windows)[i] = IF i <= Len(front) THEN front[i] ELSE windows[i - Len(front)]
      BY <1>2, <2>8, ConcatProperties
    <3>2. /\ windows' \in Seq(Int) /\ Len(windows') = added + l
          /\ \A i \in 1..added + l : windows'[i] = IF i <= added THEN front[i] ELSE windows[i - added]
      BY <1>4, <2>2, <2>8, <3>1
    <3> QED  BY <2>4, <3>2
  <2>10. ASSUME NEW i \in 1..added + l
         PROVE  windows'[i] = next - (added + l + 1 - i) * Frames
    <3>1. CASE i \in 1..added
      <4> DEFINE x == added + 1 - i
      <4>1. x \in Int /\ wait + added + 1 - i = wait + x /\ added + l + 1 - i = l + x
        BY <1>2, <2>4, <3>1
      <4>2. windows'[i] = base - (wait + added + 1 - i) * Frames /\ base = FirstDue + v
        BY <2>6, <2>7, <2>8, <2>9, <3>1
      <4> HIDE DEF x, base
      <4>3. (wait + x) * Frames = wait * Frames + x * Frames /\ (l + x) * Frames = l * Frames + x * Frames
        BY <1>2, <4>1, TimesIs
      <4>4. PICK p \in Int, q \in Int : p = x * Frames /\ q = l * Frames
        BY <1>3, <4>1
      <4>5. (FirstDue + v) - (v + p) = next - (q + p)
        BY <1>2, <1>5, <4>4
      <4>6. windows'[i] = base - (v + p) /\ next - (added + l + 1 - i) * Frames = next - (q + p)
        BY <2>7, <4>1, <4>2, <4>3, <4>4
      <4> QED  BY <4>2, <4>5, <4>6
    <3>2. CASE i \in added + 1..added + l
      <4>1. i - added \in 1..l /\ l + 1 - (i - added) = added + l + 1 - i
        BY <2>4, <3>2
      <4> QED  BY <1>5, <2>9, <3>2, <4>1
    <3> QED  BY <2>4, <3>1, <3>2
  <2>11. FirstDue' = FirstDue - g /\ FirstDue' = next - (added + l) * Frames
    <3>1. FirstDue' = next - (added + l) * Frames
      BY <1>1, <2>9 DEF FirstDue
    <3>2. (added + l) * Frames = added * Frames + l * Frames
      BY <2>4, TimesIs
    <3>3. PICK q \in Int : q = l * Frames
      BY <1>3
    <3> QED  BY <1>2, <1>5, <2>5, <3>1, <3>2, <3>3
  <2>12. ts' = FirstDue'
    <3>1. windows' # <<>>
      BY <2>4, <2>9
    <3>2. ts' = windows'[1]
      BY <2>2, <2>9, <3>1
    <3>3. windows'[1] = next - (added + l) * Frames
      <4>1. 1 \in 1..added + l /\ added + l + 1 - 1 = added + l
        BY <2>4
      <4> QED  BY <2>10, <4>1
    <3> QED  BY <2>11, <3>2, <3>3
  <2>13. FirstDue \in Int
    BY <1>2, <1>5
  <2>14. bufferedTs' = FirstDue' + wait' * Frames
    <3>1. wait' * Frames = v + g
      BY <1>2, <2>2, <2>4, <2>5, <2>7, TimesIs
    <3>2. bufferedTs' = FirstDue + v
      BY <2>2, <2>6, <2>7
    <3> QED  BY <2>5, <2>7, <2>11, <2>13, <3>1, <3>2
  <2>15. FirstDue' > -Frames
    BY <1>2, <1>3, <1>5, <2>1, <2>5, <2>11
  <2>16. Windows'
    <3>1. Len(windows') = ticks' + Pending'
      BY <1>2, <1>5, <1>6, <2>2, <2>4, <2>9
    <3>2. \A i \in 1..Len(windows') : windows'[i] = next' - (Len(windows') + 1 - i) * Frames
      BY <1>1, <2>9, <2>10
    <3> QED  BY <2>12, <2>14, <2>15, <3>1, <3>2 DEF Windows
  <2>17. Delivery' /\ NextHeard' = NextHeard
    <3>1. FirstDue' + wait' * Frames = FirstDue + wait * Frames
      BY <2>2, <2>6, <2>14
    <3> QED  BY <1>1, <1>6, <3>1 DEF Delivery, NextHeard
  <2>18. ticks' \in 0..MaxTicks /\ wait' \in 0..ticks'
    BY <1>2, <1>3, <2>2, <2>4
  <2>19. ts' \in Int /\ bufferedTs' \in Int
    <3>1. FirstDue - g \in Int
      BY <2>5, <2>13
    <3> QED  BY <2>2, <2>6, <2>11, <2>12, <3>1
  <2> QED  BY <2>9, <2>16, <2>17, <2>18, <2>19
<1> QED  BY <1>7, <1>8

LEMMA MixWindows ==
  ASSUME MixTypes, Windows, Delivery, Mix
  PROVE  /\ Windows' /\ Delivery' /\ out' \in Int \X Int
         /\ NextHeard' = IF Passed THEN NextHeard ELSE ts + Frames
         /\ ~Passed => NextHeard = ts /\ Delivered'
<1>1. /\ stage = "mix" /\ stage' = "discard" /\ next' = next /\ windows' = windows /\ ticks' = ticks /\ wait' = wait
      /\ bufferedTs' = bufferedTs /\ ts' = ts /\ out' = (IF Passed THEN out ELSE <<out[2], ts>>)
  BY DEF Mix, mixer, history
<1>2. wait \in Nat /\ ts \in Int /\ out \in Int \X Int /\ Frames \in Nat
  BY MixSizesAre DEF MixTypes, MixTypeOK
<1>3. FirstDue' = FirstDue /\ ts = FirstDue /\ Pending' = Pending
  BY <1>1 DEF FirstDue, Pending, Windows
<1>4. Windows'
  BY <1>1, <1>3 DEF Windows
<1>5. CASE Passed
  <2>1. ~Delivered /\ ~Delivered'
    BY <1>1, <1>5 DEF Delivered, Passed
  <2>2. NextHeard' = NextHeard
    BY <1>1, <1>3, <2>1 DEF NextHeard
  <2> QED  BY <1>1, <1>2, <1>4, <1>5, <2>2 DEF Delivery
<1>6. CASE ~Passed
  <2>1. wait = 0 /\ ~Delivered /\ Delivered'
    BY <1>1, <1>2, <1>6 DEF Delivered, Passed
  <2>2. out'[1] = out[2] /\ out'[2] = ts /\ out' \in Int \X Int
    BY <1>1, <1>2, <1>6
  <2>3. NextHeard = ts /\ NextHeard' = ts + Frames
    BY <1>2, <1>3, <2>1 DEF NextHeard
  <2>4. out[2] # 0 => out[2] + Frames = ts
    BY <2>3 DEF Delivery
  <2> QED  BY <1>4, <1>6, <2>1, <2>2, <2>3, <2>4 DEF Delivery
<1> QED  BY <1>5, <1>6

LEMMA DiscardWindows ==
  ASSUME MixTypes, Windows, Delivery, Discard
  PROVE  Windows' /\ Delivery' /\ windows' \in Seq(Int) /\ wait' \in 0..ticks' /\ NextHeard' = NextHeard
<1>1. /\ stage = "discard" /\ stage' = "sleep" /\ windows' = Tail(windows) /\ wait' = MAX(wait - 1, 0)
      /\ next' = next /\ ticks' = ticks /\ bufferedTs' = bufferedTs /\ out' = out
  BY DEF Discard, history
<1>2. /\ windows \in Seq(Int) /\ next \in Int /\ bufferedTs \in Int /\ ticks \in Nat /\ wait \in 0..ticks
      /\ Frames \in Nat /\ Frames > 0
  BY MixSizesAre DEF MixTypes, MixTypeOK
<1>3. Pending = 1 /\ Pending' = 0 /\ ~Delivered'
  BY <1>1 DEF Pending, Delivered
<1>4. PICK l \in Nat : Len(windows) = l + 1 /\ ticks = l
  <2>1. Len(windows) = ticks + 1
    BY <1>3 DEF Windows
  <2> QED  BY <1>2, <2>1
<1>5. /\ FirstDue = next - (l + 1) * Frames /\ FirstDue > -Frames
      /\ \A i \in 1..l + 1 : windows[i] = next - (l + 2 - i) * Frames
      /\ wait > 0 => bufferedTs = FirstDue + wait * Frames
  <2>1. FirstDue = next - (l + 1) * Frames
    BY <1>4 DEF FirstDue
  <2>2. \A i \in 1..l + 1 : windows[i] = next - (l + 2 - i) * Frames
    <3>1. TAKE i \in 1..l + 1
    <3>2. l + 1 + 1 - i = l + 2 - i
      OBVIOUS
    <3> QED  BY <1>4, <3>2 DEF Windows
  <2> QED  BY <2>1, <2>2 DEF Windows
<1>6. windows' \in Seq(Int) /\ Len(windows') = l /\ \A i \in 1..l : windows'[i] = windows[i + 1]
  <2>1. windows # <<>>
    BY <1>2, <1>4
  <2> QED  BY <1>1, <1>2, <1>4, <2>1, HeadTailProperties
<1>7. \A i \in 1..l : windows'[i] = next - (l + 1 - i) * Frames
  <2>1. TAKE i \in 1..l
  <2>2. i + 1 \in 1..l + 1 /\ l + 2 - (i + 1) = l + 1 - i
    OBVIOUS
  <2> QED  BY <1>5, <1>6, <2>2
<1>8. FirstDue' = FirstDue + Frames /\ FirstDue \in Int
  <2>1. FirstDue' = next - l * Frames
    BY <1>1, <1>6 DEF FirstDue
  <2>2. (l + 1) * Frames = l * Frames + Frames /\ l * Frames \in Int
    BY <1>2, TimesIs
  <2>3. PICK p \in Int : p = l * Frames
    BY <2>2
  <2> QED  BY <1>2, <1>5, <2>1, <2>2, <2>3
<1>9. wait' \in 0..ticks' /\ (wait = 0 => wait' = 0) /\ (wait > 0 => wait' = wait - 1)
  BY <1>1, <1>2 DEF MAX
<1>10. wait > 0 => FirstDue' + wait' * Frames = FirstDue + wait * Frames
  <2>1. SUFFICES ASSUME wait > 0 PROVE FirstDue' + wait' * Frames = FirstDue + wait * Frames
    OBVIOUS
  <2>2. PICK v \in Nat : v = wait' /\ wait = v + 1
    BY <1>2, <1>9, <2>1
  <2>3. (v + 1) * Frames = v * Frames + Frames
    BY <1>2, TimesIs
  <2>4. PICK p \in Int : p = v * Frames
    BY <1>2
  <2> QED  BY <1>2, <1>8, <2>2, <2>3, <2>4
<1>11. Windows'
  <2>1. wait' > 0 => bufferedTs' = FirstDue' + wait' * Frames
    BY <1>1, <1>2, <1>5, <1>9, <1>10
  <2>2. FirstDue' > -Frames
    BY <1>2, <1>5, <1>8
  <2>3. Len(windows') = ticks' + Pending' /\ stage' = "sleep"
    BY <1>1, <1>2, <1>3, <1>4, <1>6
  <2>4. \A i \in 1..Len(windows') : windows'[i] = next' - (Len(windows') + 1 - i) * Frames
    BY <1>1, <1>6, <1>7
  <2> QED  BY <2>1, <2>2, <2>3, <2>4 DEF Windows
<1>12. Delivery' /\ NextHeard' = NextHeard
  <2>1. CASE wait = 0
    <3>1. Delivered
      BY <1>1, <2>1 DEF Delivered
    <3>2. FirstDue' + wait' * Frames = FirstDue + Frames
      BY <1>2, <1>8, <1>9, <2>1
    <3> QED  BY <1>1, <1>3, <3>1, <3>2 DEF Delivery, NextHeard
  <2>2. CASE wait > 0
    <3>1. ~Delivered
      BY <2>2 DEF Delivered
    <3> QED  BY <1>1, <1>3, <1>10, <2>2, <3>1 DEF Delivery, NextHeard
  <2> QED  BY <1>2, <2>1, <2>2
<1> QED  BY <1>6, <1>9, <1>11, <1>12

-----------------------------------------------------------------------------
(* The sources, in the steps of the audio thread.                          *)

LEMMA PrefixAtTime ==
  ASSUME NEW a \in SourceState, AtTime(a, a.buf), NEW n \in Nat, n <= Len(a.buf)
  PROVE  LET x == SubSeq(a.buf, 1, n) IN x \in Seq(SampleFrame) /\ Len(x) = n /\ AtTime(a, x)
<1>1. a.buf \in Seq(SampleFrame)
  BY DEF SourceState
<1>2. \A i \in 1..n : a.buf[i] \in SampleFrame
  BY <1>1
<1> DEFINE x == SubSeq(a.buf, 1, n)
<1>3. x \in Seq(SampleFrame) /\ Len(x) = n /\ \A i \in 1..n : x[i] = a.buf[i]
  BY <1>2, SubSeqProperties
<1> HIDE DEF x
<1>4. \A i \in 1..n : i \in 1..Len(a.buf)
  BY <1>1
<1>5. AtTime(a, x)
  BY <1>3, <1>4 DEF AtTime, Near
<1> QED  BY <1>3, <1>5 DEF x

LEMMA RenderKeeps ==
  ASSUME MixTypes, Timed, Render
  PROVE  /\ src' \in [Source -> SourceState] /\ (\A s \in Source : Len(src'[s].buf) <= MaxBuf)
         /\ peeked' \in [Source -> Seq(SampleFrame)] /\ Timed'
<1>1. /\ src' = [s \in Source |-> [src[s] EXCEPT !.reset = FALSE, !.pending = src[s].audioTs = 0 \/ Len(src[s].buf) < Frames]]
      /\ peeked' = [s \in Source |-> IF src'[s].pending THEN peeked[s] ELSE SubSeq(src[s].buf, 1, Frames)]
  BY DEF Render
<1>2. ASSUME NEW s \in Source
      PROVE  /\ src'[s] \in SourceState /\ Len(src'[s].buf) <= MaxBuf /\ Clocked(src'[s])
             /\ peeked'[s] \in Seq(SampleFrame)
             /\ ~src'[s].pending => src'[s].audioTs # 0 /\ Len(peeked'[s]) = Frames /\ AtTime(src'[s], peeked'[s])
  <2> DEFINE a == src[s]
             p == a.audioTs = 0 \/ Len(a.buf) < Frames
             d == [a EXCEPT !.reset = FALSE, !.pending = p]
  <2>1. src'[s] = d /\ peeked'[s] = IF d.pending THEN peeked[s] ELSE SubSeq(a.buf, 1, Frames)
    BY <1>1
  <2>2. a \in SourceState /\ Len(a.buf) <= MaxBuf /\ Clocked(a) /\ peeked[s] \in Seq(SampleFrame) /\ p \in BOOLEAN
    BY DEF MixTypes, MixTypeOK, Timed
  <2> HIDE DEF a, p
  <2>3. d \in SourceState /\ d.buf = a.buf /\ d.audioTs = a.audioTs /\ d.pending = p /\ SameTimes(a, d)
    BY <2>2 DEF SourceState, SameTimes
  <2> HIDE DEF d
  <2>4. Clocked(d) /\ \A x \in Seq(SampleFrame) : AtTime(a, x) => AtTime(d, x)
    BY <2>2, <2>3, SameClock
  <2>5. CASE p
    BY <2>1, <2>2, <2>3, <2>4, <2>5
  <2>6. CASE ~p
    <3>1. a.audioTs # 0 /\ Frames <= Len(a.buf) /\ Frames \in Nat
      BY <2>2, <2>6, MixSizesAre, SMTT(30) DEF p, SourceState
    <3> DEFINE x == SubSeq(a.buf, 1, Frames)
    <3>2. x \in Seq(SampleFrame) /\ Len(x) = Frames /\ AtTime(a, x)
      BY <2>2, <3>1, PrefixAtTime DEF Clocked
    <3>3. peeked'[s] = x
      BY <2>1, <2>3, <2>6
    <3> HIDE DEF x
    <3> QED  BY <2>1, <2>2, <2>3, <2>4, <3>1, <3>2, <3>3
  <2> QED  BY <2>5, <2>6
<1>3. peeked' \in [Source -> Seq(SampleFrame)] /\ src' \in [Source -> SourceState]
  BY <1>1, <1>2
<1> QED  BY <1>2, <1>3 DEF Timed, Peeking

LEMMA MeasureKeeps ==
  ASSUME MixTypes, Timed, Measure
  PROVE  src' \in [Source -> SourceState] /\ (\A s \in Source : Len(src'[s].buf) <= MaxBuf) /\ Timed'
<1> DEFINE min == MinTs(ts)
<1>1. /\ src' = [s \in Source |-> [src[s] EXCEPT !.pending = @ \/ Insufficient(src[s], min)]]
      /\ peeked' = peeked /\ stage = "measure"
  BY DEF Measure
<1> HIDE DEF min
<1>2. ASSUME NEW s \in Source
      PROVE  /\ src'[s] \in SourceState /\ Len(src'[s].buf) <= MaxBuf /\ Clocked(src'[s])
             /\ ~src'[s].pending => src'[s].audioTs # 0 /\ Len(peeked'[s]) = Frames /\ (src'[s].reset \/ AtTime(src'[s], peeked'[s]))
  <2> DEFINE a == src[s]
             p == a.pending \/ Insufficient(a, min)
             d == [a EXCEPT !.pending = p]
  <2>1. src'[s] = d
    BY <1>1
  <2>2. a \in SourceState /\ Len(a.buf) <= MaxBuf /\ Clocked(a) /\ peeked[s] \in Seq(SampleFrame) /\ p \in BOOLEAN
    BY DEF MixTypes, MixTypeOK, Timed, SourceState, Insufficient
  <2>3. ~a.pending => a.audioTs # 0 /\ Len(peeked[s]) = Frames /\ (a.reset \/ AtTime(a, peeked[s]))
    BY <1>1 DEF Timed, Peeking
  <2>4. ~p => ~a.pending
    OBVIOUS
  <2> HIDE DEF a, p
  <2>5. d \in SourceState /\ d.buf = a.buf /\ d.audioTs = a.audioTs /\ d.pending = p /\ d.reset = a.reset /\ SameTimes(a, d)
    BY <2>2 DEF SourceState, SameTimes
  <2> HIDE DEF d
  <2>6. Clocked(d) /\ \A x \in Seq(SampleFrame) : AtTime(a, x) => AtTime(d, x)
    BY <2>2, <2>5, SameClock
  <2> QED  BY <1>1, <2>1, <2>2, <2>3, <2>4, <2>5, <2>6
<1>3. src' \in [Source -> SourceState]
  BY <1>1, <1>2
<1> QED  BY <1>2, <1>3 DEF Timed, Peeking

LEMMA DiscardKeeps ==
  ASSUME MixTypes, Timed, Discard, ts > -Frames
  PROVE  src' \in [Source -> SourceState] /\ (\A s \in Source : Len(src'[s].buf) <= MaxBuf) /\ Timed'
<1>1. src' = [s \in Source |-> Discarded(src[s])] /\ stage' = "sleep" /\ ts \in Int
  BY DEF Discard, MixTypes
<1>2. \A s \in Source : Good(src'[s])
  <2>1. TAKE s \in Source
  <2>2. Good(src[s])
    BY DEF MixTypes, MixTypeOK, Timed, Good
  <2>3. Good(Discarded(src[s]))
    BY <1>1, <2>2, DiscardedIs
  <2> QED  BY <1>1, <2>3
<1> QED  BY <1>1, <1>2 DEF Good, Timed

(* A block that is put by another start than the one it was peeked at.     *)
LEMMA MovedIs ==
  ASSUME NEW p \in Seq(SampleFrame), NEW m \in Nat, m <= Len(p), NEW reset \in BOOLEAN
  PROVE  LET y == [i \in 1..m |-> [p[i] EXCEPT !.moved = @ \/ reset]] IN
         /\ y \in Seq(SampleFrame) /\ Len(y) = m
         /\ \A i \in 1..m : /\ y[i].n = p[i].n /\ y[i].t = p[i].t /\ y[i].new = p[i].new
                            /\ y[i].moved = (p[i].moved \/ reset)
<1> DEFINE y == [i \in 1..m |-> [p[i] EXCEPT !.moved = @ \/ reset]]
<1>1. \A i \in 1..m : p[i] \in SampleFrame
  OBVIOUS
<1>2. ASSUME NEW i \in 1..m
      PROVE  /\ y[i] \in SampleFrame /\ y[i].n = p[i].n /\ y[i].t = p[i].t /\ y[i].new = p[i].new
             /\ y[i].moved = (p[i].moved \/ reset)
  <2> DEFINE f == p[i]
             shifted == f.moved \/ reset
  <2>1. y[i] = [f EXCEPT !.moved = shifted] /\ f \in SampleFrame
    BY <1>1
  <2>2. shifted \in BOOLEAN
    OBVIOUS
  <2> HIDE DEF y, f, shifted
  <2>3. /\ y[i] \in SampleFrame /\ y[i].n = f.n /\ y[i].t = f.t /\ y[i].new = f.new /\ y[i].moved = shifted
    BY <2>1, <2>2 DEF SampleFrame
  <2> QED  BY <2>3 DEF f, shifted
<1>3. y \in [1..m -> SampleFrame]
  BY <1>2
<1>4. y \in Seq(SampleFrame) /\ Len(y) = m
  BY <1>3, SMTT(30)
<1> QED  BY <1>2, <1>4

LEMMA AddedIs ==
  ASSUME MixTypes, Timed, stage = "mix", NEW s \in Source
  PROVE  /\ Added(s) \in Seq(SampleFrame)
         /\ \A i \in 1..Frames : Added(s)[i].n # 0 /\ ~Added(s)[i].moved =>
              Diff(ts + i - 1, Added(s)[i].t) <= 2 * (Smoothing - 1)
<1> DEFINE a == src[s]
           start == a.audioTs - ts
<1>1. Frames \in Nat /\ Frames > 0
  BY MixSizesAre
<1>2. CASE a.pending \/ a.audioTs = 0 \/ start < 0 \/ start >= Frames
  <2>1. Added(s) = Silent(Frames)
    BY <1>2 DEF Added
  <2>2. Silent(Frames) \in Seq(SampleFrame) /\ \A i \in 1..Frames : Silent(Frames)[i].n = 0
    BY <1>1, SilentIs DEF Silence
  <2> QED  BY <2>1, <2>2
<1>3. CASE ~(a.pending \/ a.audioTs = 0 \/ start < 0 \/ start >= Frames)
  <2>1. a.audioTs \in Nat /\ ts \in Int
    BY DEF MixTypes, SourceState
  <2>2. PICK k \in Nat, m \in Nat :
          k = start /\ m = Frames - start /\ k + m = Frames /\ ts + k = a.audioTs /\ m <= Frames
    <3>1. start \in Nat /\ Frames - start \in Nat
      BY <1>1, <1>3, <2>1
    <3> QED  BY <1>1, <2>1, <3>1
  <2> DEFINE x == Silent(k)
             y == [i \in 1..m |-> [peeked[s][i] EXCEPT !.moved = @ \/ a.reset]]
  <2>3. Added(s) = x \o y
    BY <1>3, <2>2 DEF Added
  <2>4. peeked[s] \in Seq(SampleFrame) /\ Len(peeked[s]) = Frames /\ (a.reset \/ AtTime(a, peeked[s])) /\ a.reset \in BOOLEAN
    BY <1>3 DEF MixTypes, Timed, Peeking, SourceState
  <2>5. /\ y \in Seq(SampleFrame) /\ Len(y) = m
        /\ \A i \in 1..m : /\ y[i].n = peeked[s][i].n /\ y[i].t = peeked[s][i].t /\ y[i].new = peeked[s][i].new
                           /\ y[i].moved = (peeked[s][i].moved \/ a.reset)
    <3>1. a.reset \in BOOLEAN /\ m <= Len(peeked[s])
      BY <2>2, <2>4
    <3> DEFINE reset == a.reset
    <3> HIDE DEF reset
    <3>2. LET v == [i \in 1..m |-> [peeked[s][i] EXCEPT !.moved = @ \/ reset]] IN
          /\ v \in Seq(SampleFrame) /\ Len(v) = m
          /\ \A i \in 1..m : /\ v[i].n = peeked[s][i].n /\ v[i].t = peeked[s][i].t /\ v[i].new = peeked[s][i].new
                             /\ v[i].moved = (peeked[s][i].moved \/ reset)
      <4>1. reset \in BOOLEAN
        BY <3>1 DEF reset
      <4> QED  BY <2>4, <3>1, <4>1, MovedIs, ZenonT(40)
    <3> QED  BY <3>2 DEF reset
  <2>6. x \in Seq(SampleFrame) /\ Len(x) = k /\ \A i \in 1..k : x[i] = Silence
    BY SilentIs
  <2> HIDE DEF x, y, a
  <2>7. /\ x \o y \in Seq(SampleFrame)
        /\ \A i \in 1..k : (x \o y)[i] = Silence
        /\ \A i \in k + 1..k + m :
             LET f == (x \o y)[i] IN /\ f.n = peeked[s][i - k].n /\ f.t = peeked[s][i - k].t
                                     /\ f.moved = (peeked[s][i - k].moved \/ a.reset)
    <3>1. /\ x \o y \in Seq(SampleFrame)
          /\ \A i \in 1..k + m : (x \o y)[i] = IF i <= k THEN x[i] ELSE y[i - k]
      BY <2>5, <2>6, ConcatProperties
    <3>2. \A i \in k + 1..k + m : i - k \in 1..m /\ i \in 1..k + m /\ ~(i <= k)
      OBVIOUS
    <3>3. \A i \in 1..k : i \in 1..k + m /\ i <= k
      OBVIOUS
    <3>4. \A i \in k + 1..k + m : (x \o y)[i] = y[i - k]
      BY <3>1, <3>2
    <3>5. \A i \in 1..k : (x \o y)[i] = Silence
      BY <2>6, <3>1, <3>3
    <3> QED  BY <2>5, <3>1, <3>2, <3>4, <3>5, ZenonT(40)
  <2> DEFINE z == x \o y
  <2> HIDE DEF z
  <2>8. ASSUME NEW i \in 1..Frames, z[i].n # 0, ~z[i].moved
        PROVE  Diff(ts + i - 1, z[i].t) <= 2 * (Smoothing - 1)
    <3>1. ~(i \in 1..k)
      <4>1. \A j \in 1..k : z[j] = Silence
        BY <2>7 DEF z
      <4>2. Silence.n = 0
        BY DEF Silence
      <4> QED  BY <2>8, <4>1, <4>2
    <3>2. PICK j \in 1..Frames : j = i - k /\ i \in k + 1..k + m /\ a.audioTs + j - 1 = ts + i - 1
      <4>1. i - k \in 1..Frames /\ i \in k + 1..k + m
        BY <1>1, <2>2, <3>1
      <4>2. a.audioTs + (i - k) - 1 = ts + i - 1
        BY <2>1, <2>2, <4>1
      <4> QED  BY <4>1, <4>2
    <3>3. z[i].n = peeked[s][j].n /\ z[i].t = peeked[s][j].t /\ ~peeked[s][j].moved /\ ~a.reset
      BY <2>7, <2>8, <3>2 DEF z
    <3>4. Diff(a.audioTs + j - 1, peeked[s][j].t) <= 2 * (Smoothing - 1)
      BY <2>4, <2>8, <3>2, <3>3 DEF AtTime, Near
    <3> QED  BY <3>2, <3>3, <3>4
  <2>9. Added(s) = z /\ z \in Seq(SampleFrame)
    BY <2>3, <2>7 DEF z
  <2> QED  BY <2>8, <2>9
<1> QED  BY <1>2, <1>3

LEMMA MixOnTime ==
  ASSUME MixTypes, Timed, NearTime, Mix
  PROVE  NearTime' /\ mix' \in [Root -> Seq(SampleFrame)]
<1>1. CASE Passed
  <2>1. mix' = mix /\ out' = out
    BY <1>1 DEF Mix, history
  <2> QED  BY <2>1 DEF NearTime, MixTypes
<1>2. CASE ~Passed
  <2>1. mix' = [s \in Root |-> Added(s)] /\ out' = <<out[2], ts>> /\ stage = "mix" /\ Root \subseteq Source
    BY <1>2, MixConstants DEF Mix
  <2>2. out'[2] = ts
    BY <2>1
  <2>3. \A s \in Root : Added(s) \in Seq(SampleFrame) /\ mix'[s] = Added(s)
    BY <2>1, AddedIs
  <2>4. mix' \in [Root -> Seq(SampleFrame)]
    BY <2>1, <2>3
  <2>5. NearTime'
    <3>1. SUFFICES ASSUME NEW s \in Root, NEW i \in 1..Frames, mix'[s][i].n # 0, ~mix'[s][i].moved
                   PROVE  Diff(out'[2] + i - 1, mix'[s][i].t) <= 2 * (Smoothing - 1)
      BY DEF NearTime
    <3>2. \A j \in 1..Frames : Added(s)[j].n # 0 /\ ~Added(s)[j].moved =>
            Diff(ts + j - 1, Added(s)[j].t) <= 2 * (Smoothing - 1)
      BY <2>1, AddedIs
    <3> QED  BY <2>2, <2>3, <3>1, <3>2
  <2> QED  BY <2>4, <2>5
<1> QED  BY <1>1, <1>2

-----------------------------------------------------------------------------
(* The invariant.                                                          *)

LEMMA MixInvInit ==
  ASSUME MixInit
  PROVE  MixInv
<1>1. /\ now = Start /\ next = Start /\ stage = "sleep" /\ windows = <<>> /\ ticks = 0 /\ wait = 0 /\ bufferedTs = 0
      /\ ts = Start /\ peeked = [s \in Source |-> <<>>] /\ mix = [s \in Root |-> Silent(Frames)] /\ out = <<0, 0>>
      /\ src = [s \in Source |-> [audioTs |-> 0, buf |-> <<>>, pending |-> FALSE, lastSize |-> 0, nextTs |-> 0,
                                  nextSysTs |-> 0, offset |-> 0, n |-> 0, end |-> 0, lost |-> 0,
                                  taken |-> 0, reset |-> FALSE]]
  BY DEF MixInit
<1>2. /\ Frames \in Nat /\ Frames > 0 /\ Smoothing \in Nat /\ Smoothing > 0 /\ MaxVar \in Nat /\ Smoothing <= MaxVar
      /\ MaxBuf \in Nat /\ MaxTicks \in Nat /\ Start \in Nat /\ MaxTime \in Nat /\ Start <= MaxTime
  BY MixSizesAre
<1>3. /\ <<>> \in Seq(SampleFrame) /\ <<>> \in Seq(Int) /\ Len(<<>>) = 0
      /\ Silent(Frames) \in Seq(SampleFrame) /\ \A i \in 1..Frames : Silent(Frames)[i].n = 0
  <2>1. Silent(Frames) \in Seq(SampleFrame) /\ \A i \in 1..Frames : Silent(Frames)[i] = Silence
    BY <1>2, SilentIs
  <2>2. Silence.n = 0
    BY DEF Silence
  <2> QED  BY <2>1, <2>2
<1>4. \A s \in Source : src[s] \in SourceState /\ Len(src[s].buf) <= MaxBuf /\ src[s].pending = FALSE
  BY <1>1, <1>2, <1>3 DEF SourceState
<1>5. ASSUME NEW s \in Source
      PROVE  Clocked(src[s])
  <2> DEFINE a == src[s]
  <2>1. /\ a.audioTs = 0 /\ a.buf = <<>> /\ a.nextTs = 0 /\ a.nextSysTs = 0 /\ a.n = 0 /\ a.end = 0 /\ a.lost = 0
        /\ a.taken = 0 /\ a.offset = 0
    BY <1>1
  <2> HIDE DEF a
  <2>2. ~Held(a) /\ AtTime(a, a.buf) /\ Len(a.buf) = 0
    BY <1>3, <2>1 DEF Held, AtTime
  <2>3. Diff(a.nextTs, a.end) = 0
    <3>1. Diff(0, 0) = 0
      BY DiffIs
    <3> QED  BY <2>1, <3>1
  <2>4. Clocked(a)
    BY <1>2, <2>1, <2>2, <2>3 DEF Clocked
  <2> QED  BY <2>4 DEF a
<1>6. src \in [Source -> SourceState] /\ peeked \in [Source -> Seq(SampleFrame)] /\ mix \in [Root -> Seq(SampleFrame)]
  <2>1. src \in [Source -> SourceState]
    BY <1>1, <1>4
  <2> QED  BY <1>1, <1>3, <2>1
<1>7. MixTypeOK
  BY <1>1, <1>2, <1>4 DEF MixTypeOK
<1>8. MixTypes
  BY <1>1, <1>2, <1>3, <1>6, <1>7 DEF MixTypes
<1>9. FirstDue = Start /\ Pending = 0
  <2>1. 0 * Frames = 0
    BY TimesIs
  <2> QED  BY <1>1, <1>2, <1>3, <2>1 DEF FirstDue, Pending
<1>10. Windows
  BY <1>1, <1>2, <1>3, <1>9 DEF Windows
<1>11. Delivery
  BY <1>1 DEF Delivery
<1>12. Timed
  BY <1>1, <1>5 DEF Timed
<1>13. NearTime
  BY <1>1, <1>3 DEF NearTime
<1> QED  BY <1>8, <1>10, <1>11, <1>12, <1>13 DEF MixInv

LEMMA MixInvStep ==
  ASSUME MixInv, [MixNext]_mixVars
  PROVE  MixInv'
<1>1. MixTypes /\ MixTypeOK /\ Windows /\ Delivery /\ Timed /\ NearTime
  BY DEF MixInv, MixTypes
<1>2. ASSUME NEW s \in Source, NEW length \in Length, NEW late \in Lateness[s],
             NEW offset \in SyncOffset[s], Output(s, length, late, offset)
      PROVE  MixInv'
  <2>1. UNCHANGED <<now, stage, next, windows, ticks, wait, bufferedTs, ts, peeked, mix, out>>
    BY <1>2 DEF Output, mixer, history
  <2> DEFINE d == src'[s]
  <2>2. /\ d \in SourceState /\ src' = [src EXCEPT ![s] = d] /\ Len(d.buf) <= MaxBuf /\ d.pending = src[s].pending
        /\ Clocked(d)
        /\ src[s].audioTs # 0 => d.audioTs # 0
        /\ \A x \in Seq(SampleFrame) : src[s].audioTs # 0 /\ (src[s].reset \/ AtTime(src[s], x)) => d.reset \/ AtTime(d, x)
    BY <1>1, <1>2, OutputKeeps
  <2> HIDE DEF d
  <2>3. src \in [Source -> SourceState] /\ peeked \in [Source -> Seq(SampleFrame)]
    BY <1>1 DEF MixTypes
  <2>4. src' \in [Source -> SourceState] /\ src'[s] = d /\ \A q \in Source \ {s} : src'[q] = src[q]
    BY <2>2, <2>3
  <2>5. \A q \in Source : Len(src'[q].buf) <= MaxBuf
    BY <1>1, <2>2, <2>4 DEF MixTypeOK
  <2>6. MixTypes'
    BY <1>1, <2>1, <2>4, <2>5 DEF MixTypes, MixTypeOK
  <2>7. Windows' /\ Delivery' /\ NearTime'
    BY <1>1, <2>1 DEF Windows, FirstDue, Pending, Delivery, NextHeard, Delivered, NearTime
  <2>8. Timed'
    <3>1. SUFFICES ASSUME NEW q \in Source
                   PROVE  /\ Clocked(src'[q])
                          /\ stage' \in {"measure", "mix"} /\ ~src'[q].pending =>
                               /\ src'[q].audioTs # 0 /\ Len(peeked'[q]) = Frames
                               /\ src'[q].reset \/ AtTime(src'[q], peeked'[q])
      BY DEF Timed, Peeking
    <3>2. /\ Clocked(src[q])
          /\ stage \in {"measure", "mix"} /\ ~src[q].pending =>
               /\ src[q].audioTs # 0 /\ Len(peeked[q]) = Frames
               /\ src[q].reset \/ AtTime(src[q], peeked[q])
      BY <1>1 DEF Timed, Peeking
    <3>3. CASE q # s
      BY <2>1, <2>4, <3>2, <3>3
    <3>4. CASE q = s
      <4>1. Clocked(src'[q]) /\ src'[q].pending = src[q].pending
        BY <2>2, <2>4, <3>4
      <4>2. ASSUME src[q].audioTs # 0, src[q].reset \/ AtTime(src[q], peeked[q])
            PROVE  src'[q].audioTs # 0 /\ (src'[q].reset \/ AtTime(src'[q], peeked'[q]))
        BY <2>1, <2>2, <2>3, <2>4, <3>4, <4>2
      <4> QED  BY <2>1, <3>2, <4>1, <4>2
    <3> QED  BY <3>3, <3>4
  <2> QED  BY <2>6, <2>7, <2>8 DEF MixInv
<1>3. ASSUME Render
      PROVE  MixInv'
  <2>1. Windows' /\ Delivery' /\ windows' \in Seq(Int) /\ ts' \in Int /\ next' \in Nat
    BY <1>1, <1>3, RenderWindows
  <2>2. /\ src' \in [Source -> SourceState] /\ (\A s \in Source : Len(src'[s].buf) <= MaxBuf)
        /\ peeked' \in [Source -> Seq(SampleFrame)] /\ Timed'
    BY <1>1, <1>3, RenderKeeps
  <2>3. UNCHANGED <<now, ticks, wait, bufferedTs, mix, out>> /\ stage' = "measure"
    BY <1>3 DEF Render, history
  <2>4. MixTypes' /\ NearTime'
    BY <1>1, <2>1, <2>2, <2>3 DEF MixTypes, MixTypeOK, NearTime
  <2> QED  BY <2>1, <2>2, <2>4 DEF MixInv
<1>4. ASSUME Measure
      PROVE  MixInv'
  <2>1. /\ Windows' /\ Delivery' /\ windows' \in Seq(Int) /\ ts' \in Int /\ bufferedTs' \in Int
        /\ ticks' \in 0..MaxTicks /\ wait' \in 0..ticks'
    BY <1>1, <1>4, BufferWindows
  <2>2. src' \in [Source -> SourceState] /\ (\A s \in Source : Len(src'[s].buf) <= MaxBuf) /\ Timed'
    BY <1>1, <1>4, MeasureKeeps
  <2>3. UNCHANGED <<now, next, peeked, mix, out>> /\ stage' = "mix"
    BY <1>4 DEF Measure, history
  <2>4. MixTypes' /\ NearTime'
    BY <1>1, <2>1, <2>2, <2>3 DEF MixTypes, MixTypeOK, NearTime
  <2> QED  BY <2>1, <2>2, <2>4 DEF MixInv
<1>5. ASSUME Mix
      PROVE  MixInv'
  <2>1. Windows' /\ Delivery' /\ out' \in Int \X Int
    BY <1>1, <1>5, MixWindows
  <2>2. NearTime' /\ mix' \in [Root -> Seq(SampleFrame)]
    BY <1>1, <1>5, MixOnTime
  <2>3. UNCHANGED <<now, src, next, windows, ticks, wait, bufferedTs, ts, peeked>> /\ stage' = "discard"
    BY <1>5 DEF Mix, mixer
  <2>4. MixTypes'
    BY <1>1, <2>1, <2>2, <2>3 DEF MixTypes, MixTypeOK
  <2>5. Timed'
    BY <1>1, <2>3 DEF Timed
  <2> QED  BY <2>1, <2>2, <2>4, <2>5 DEF MixInv
<1>6. ASSUME Discard
      PROVE  MixInv'
  <2>1. Windows' /\ Delivery' /\ windows' \in Seq(Int) /\ wait' \in 0..ticks'
    BY <1>1, <1>6, DiscardWindows
  <2>2. src' \in [Source -> SourceState] /\ (\A s \in Source : Len(src'[s].buf) <= MaxBuf) /\ Timed'
    <3>1. ts > -Frames
      BY <1>1, <1>6 DEF Discard, Windows
    <3> QED  BY <1>1, <1>6, <3>1, DiscardKeeps
  <2>3. UNCHANGED <<now, next, ticks, bufferedTs, ts, peeked, mix, out>> /\ stage' = "sleep"
    BY <1>6 DEF Discard, history
  <2>4. MixTypes' /\ NearTime'
    BY <1>1, <2>1, <2>2, <2>3 DEF MixTypes, MixTypeOK, NearTime
  <2> QED  BY <2>1, <2>2, <2>4 DEF MixInv
<1>7. ASSUME Advance \/ UNCHANGED mixVars
      PROVE  MixInv'
  <2>1. UNCHANGED <<src, stage, next, windows, ticks, wait, bufferedTs, ts, peeked, mix, out>>
    BY <1>7 DEF Advance, mixVars, mixer, history
  <2>2. now' \in Start..MaxTime
    BY <1>1, <1>7, MixSizesAre DEF Advance, mixVars, MixTypeOK
  <2>3. MixTypes'
    BY <1>1, <2>1, <2>2 DEF MixTypes, MixTypeOK
  <2>4. Windows' /\ Delivery' /\ NearTime' /\ Timed'
    BY <1>1, <2>1 DEF Windows, FirstDue, Pending, Delivery, NextHeard, Delivered, NearTime, Timed, Peeking
  <2> QED  BY <2>3, <2>4 DEF MixInv
<1> QED  BY <1>2, <1>3, <1>4, <1>5, <1>6, <1>7 DEF MixNext

LEMMA MixInvariant == MixSpec => []MixInv
<1>1. MixInit => MixInv
  BY MixInvInit
<1>2. MixInv /\ [MixNext]_mixVars => MixInv'
  BY MixInvStep
<1> QED  BY <1>1, <1>2, PTL DEF MixSpec

(* The stream of the mix is delivered block after block, nothing twice and *)
(* no time left out, while blocks are put in front of it because a source  *)
(* is late: add_audio_buffering, the windows of audio_callback and the     *)
(* ticks it waits.                                                         *)
THEOREM StreamUnbroken == MixSpec => []OutputUnbroken
<1>1. MixInv => OutputUnbroken
  <2>1. SUFFICES ASSUME MixInv PROVE OutputUnbroken
    OBVIOUS
  <2>2. MixTypes /\ Windows /\ Delivery
    BY <2>1 DEF MixInv
  <2>3. DOMAIN windows = 1..Len(windows)
    BY <2>2 DEF MixTypes
  <2> QED  BY <2>2, <2>3 DEF OutputUnbroken, MixTypes, Windows, Delivery
<1> QED  BY <1>1, MixInvariant, PTL

(* What is heard at a time is what the source gave for it, shifted by the  *)
(* sync offset its block was put by, but for what source_output_audio_data *)
(* smooths, twice at most: the time a block is put at stays within the     *)
(* threshold of its own, and the position in the buffer within the         *)
(* threshold of that, whatever was discarded before it.  The offset is the *)
(* one the last block found, or none was set when the buffer began.        *)
THEOREM HeardOnTime == MixSpec => []OnTime
<1>1. MixInv => OnTime
  BY DEF MixInv, NearTime, Timed, Clocked, OnTime
<1> QED  BY <1>1, MixInvariant, PTL

-----------------------------------------------------------------------------
(* What is heard of a source, in order.                                    *)

(* The frames of a source are in order, and those of a block follow one    *)
(* another.                                                                *)
Rising(q) == \A j \in 1..Len(q) : q[j].n # 0 => \A i \in 1..(j - 1) : q[i].n < q[j].n
Follows(q) ==
  \A j \in 2..Len(q) : q[j].n # 0 /\ ~q[j].new => q[j - 1].n # 0 /\ q[j].n = q[j - 1].n + 1

(* A buffer ends with the last frame of its source, unless that found no   *)
(* room.                                                                   *)
Arranged(a) ==
  /\ Rising(a.buf) /\ Follows(a.buf)
  /\ \A j \in 1..Len(a.buf) : a.buf[j].n <= a.n
  /\ a.buf # <<>> => a.buf[Len(a.buf)].n # 0 /\ (a.buf[Len(a.buf)].n = a.n \/ a.lost = a.n)

(* A frame that may be the next one that is heard.                         *)
Joins(s, f) == f.n # 0 => f.new \/ f.n = lastHeard[s] + 1 \/ s \in cut

(* What has not been heard yet comes after what was.                       *)
Unplayed(s) ==
  LET a == src[s] IN
  /\ lastHeard[s] \in Nat /\ lastHeard[s] <= a.n
  /\ \A j \in 1..Len(a.buf) :
       a.buf[j].n # 0 /\ a.audioTs + j - 1 >= NextHeard => a.buf[j].n > lastHeard[s]
  /\ a.audioTs # 0 /\ a.audioTs >= NextHeard =>
       IF a.buf = <<>> THEN a.lost = a.n \/ lastHeard[s] = a.n \/ s \in cut
       ELSE Joins(s, a.buf[1])

(* What the audio thread copied for the block being made: until it is      *)
(* mixed it comes after what was heard, and the buffer's frames behind it  *)
(* after it.  Then its last frame was heard, unless the buffer was begun   *)
(* anew since.                                                             *)
Picked(s) ==
  /\ Len(peeked[s]) = Frames /\ Rising(peeked[s]) /\ Follows(peeked[s])
  /\ \A i \in 1..Frames : peeked[s][i].n <= src[s].n
Unmixed(s) ==
  LET a == src[s]
      q == peeked[s] IN
  /\ \A j \in 1..Len(a.buf) : a.buf[j].n # 0 => \A i \in 1..Frames : i < j => q[i].n < a.buf[j].n
  /\ a.audioTs >= NextHeard => (\A i \in 1..Frames : q[i].n # 0 => q[i].n > lastHeard[s]) /\ Joins(s, q[1])
Renewed(s) ==
  \A j \in 1..Len(src[s].buf) : src[s].buf[j].n # 0 => \A i \in 1..Frames : peeked[s][i].n < src[s].buf[j].n
LastMixed(s) ==
  LET a == src[s]
      q == peeked[s] IN
  ts <= a.audioTs /\ a.audioTs < ts + Frames /\ q[Taken(a)].n # 0 => lastHeard[s] = q[Taken(a)].n
Rendered(s) ==
  stage # "sleep" /\ ~src[s].pending =>
    /\ src[s].audioTs # 0 /\ Picked(s)
    /\ stage # "discard" => Unmixed(s)
    /\ Delivered => Renewed(s) \/ LastMixed(s)

HeardInv == \A s \in Root : Arranged(src[s]) /\ Unplayed(s) /\ Rendered(s)

LEMMA LastBeforeIs ==
  ASSUME NEW frames \in Seq(SampleFrame), NEW i \in Nat, i > 0, NEW before
  PROVE  \/ (\A k \in 1..(i - 1) : frames[k].n = 0) /\ LastBefore(frames, i, before) = before
         \/ \E k \in 1..(i - 1) : /\ frames[k].n # 0 /\ LastBefore(frames, i, before) = frames[k].n
                                  /\ \A m \in k + 1..(i - 1) : frames[m].n = 0
<1> DEFINE earlier == {k \in 1..(i - 1) : frames[k].n # 0}
<1>1. CASE earlier = {}
  BY <1>1 DEF LastBefore
<1>2. CASE earlier # {}
  <2> DEFINE U == {i - k : k \in earlier}
  <2>1. U \subseteq Nat /\ U # {}
    BY <1>2
  <2>2. PICK u \in U : \A v \in U : ~(<<v, u>> \in OpToRel(<, Nat))
    BY <2>1, NatLessThanWellFounded, WFMin
  <2>3. PICK k \in earlier : u = i - k
    OBVIOUS
  <2>4. \A m \in earlier : k >= m
    <3>1. TAKE m \in earlier
    <3>2. i - m \in U /\ i - m \in Nat /\ u \in Nat
      BY <2>1
    <3>3. ~(i - m < u)
      BY <2>2, <3>2 DEF OpToRel
    <3> QED  BY <2>3, <3>3
  <2>5. Max(earlier) \in earlier /\ \A m \in earlier : Max(earlier) >= m
    <3> HIDE DEF earlier
    <3> QED  BY <2>3, <2>4 DEF Max
  <2>6. LastBefore(frames, i, before) = frames[Max(earlier)].n
    BY <1>2 DEF LastBefore
  <2>7. PICK g \in earlier : g = Max(earlier) /\ \A m \in earlier : g >= m
    BY <2>5
  <2>8. g \in 1..(i - 1) /\ frames[g].n # 0 /\ \A m \in g + 1..(i - 1) : frames[m].n = 0
    <3>1. \A m \in g + 1..(i - 1) : ~(m \in earlier) /\ m \in 1..(i - 1)
      BY <2>7
    <3> QED  BY <3>1
  <2> QED  BY <2>6, <2>7, <2>8
<1> QED  BY <1>1, <1>2

(* A block of a source: what is kept of its buffer, or nothing, up to      *)
(* where the block comes, and the block; or it found no room.              *)
Grows(a, d, kept, p, length, new) ==
  /\ length > 0 /\ d.n = a.n + length
  /\ \/ kept = a.buf /\ d.audioTs = a.audioTs
     \/ kept = <<>> /\ p = 0 /\ (a.audioTs = 0 \/ d.audioTs < a.audioTs)
  /\ \/ d.buf = kept /\ d.lost = d.n
     \/ /\ Len(d.buf) = p + length
        /\ \A j \in 1..p : d.buf[j] = IF j <= Len(kept) THEN kept[j] ELSE Silence
        /\ \A j \in p + 1..p + length : d.buf[j].n = a.n + (j - p) /\ d.buf[j].new = (new /\ j = p + 1)
        /\ new \/ (p = Len(a.buf) /\ kept = a.buf /\ d.audioTs = a.audioTs /\ a.lost # a.n)

LEMMA OutputGrows ==
  ASSUME MixTypes, Timed, NEW s \in Source, NEW length \in Length, NEW late \in Lateness[s],
         NEW offset \in SyncOffset[s], Output(s, length, late, offset)
  PROVE  /\ src' = [src EXCEPT ![s] = src'[s]] /\ src'[s] \in SourceState /\ length \in Nat
         /\ \E kept \in Seq(SampleFrame), p \in Nat, new \in BOOLEAN : Grows(src[s], src'[s], kept, p, length, new)
<1> DEFINE a == src[s]
           d == src'[s]
           t == now - length - late
           t1 == Smoothed(a, t)
           push == Appends(a, t1, offset)
           taken == IF push THEN a.taken ELSE offset
           adjust == Adjusts(a, t1, length + late)
           new == ~push \/ a.lost = a.n
           data == Block(a, length, t + taken, new, adjust # 0 \/ (push /\ a.lost # 0))
           u == (IF adjust = 0 THEN t1 ELSE now) + offset
           full == (IF push THEN Len(a.buf) ELSE u - StartOf(a, u)) + length > MaxBuf
<1>1. a \in SourceState /\ \A k \in 1..Len(a.buf) : a.buf[k].n <= a.n
  BY DEF MixTypes, Timed, Clocked
<1>2. /\ t1 \in Nat /\ now \in Nat /\ length \in Nat /\ length > 0
      /\ d \in SourceState /\ src' = [src EXCEPT ![s] = d] /\ d.n = a.n + length
      /\ data \in Seq(SampleFrame) /\ Len(data) = length
      /\ \A i \in 1..length : data[i].n = a.n + i /\ data[i].new = (new /\ i = 1)
      /\ d.audioTs = IF push THEN a.audioTs ELSE StartOf(a, u)
      /\ ~push => u - StartOf(a, u) \in Nat
      /\ d.buf = IF full THEN IF push THEN a.buf ELSE KeptOf(a, u)
                 ELSE IF push THEN a.buf \o data ELSE Placed(KeptOf(a, u), u - StartOf(a, u), data)
      /\ full => d.lost = d.n
      /\ u \in Nat
  <2>1. \A k \in 1..Len(a.buf) : a.buf[k].n <= a.n
    BY <1>1
  <2>2. /\ t1 \in Nat /\ now \in Nat /\ length \in Nat /\ length > 0
        /\ d \in SourceState /\ src' = [src EXCEPT ![s] = d] /\ d.n = a.n + length /\ u \in Nat
    BY <2>1, OutputIs
  <2>3. data \in Seq(SampleFrame) /\ Len(data) = length
    BY <2>1, OutputIs
  <2>4. \A i \in 1..length : data[i].n = a.n + i /\ data[i].new = (new /\ i = 1)
    BY <2>1, OutputIs
  <2>5. (d.audioTs = IF push THEN a.audioTs ELSE StartOf(a, u)) /\ (~push => u - StartOf(a, u) \in Nat)
    BY <2>1, OutputIs
  <2>6. /\ d.buf = IF full THEN IF push THEN a.buf ELSE KeptOf(a, u)
                   ELSE IF push THEN a.buf \o data ELSE Placed(KeptOf(a, u), u - StartOf(a, u), data)
        /\ full => d.lost = d.n
    BY <2>1, OutputIs, SMTT(30)
  <2> QED  BY <2>2, <2>3, <2>4, <2>5, <2>6
<1>3. a.buf \in Seq(SampleFrame) /\ <<>> \in Seq(SampleFrame) /\ a.audioTs \in Nat /\ new \in BOOLEAN
  BY <1>1 DEF SourceState, Appends, Expects
<1> DEFINE kept == IF push THEN a.buf ELSE KeptOf(a, u)
           p == IF push THEN Len(a.buf) ELSE u - StartOf(a, u)
<1>4. kept \in Seq(SampleFrame) /\ p \in Nat
  BY <1>2, <1>3 DEF KeptOf
<1>5. \/ kept = a.buf /\ d.audioTs = a.audioTs
      \/ kept = <<>> /\ p = 0 /\ (a.audioTs = 0 \/ d.audioTs < a.audioTs)
  <2>1. CASE push
    BY <1>2, <2>1
  <2>2. CASE ~push /\ ~Resets(a, u)
    BY <1>2, <2>2 DEF KeptOf, StartOf
  <2>3. CASE ~push /\ Resets(a, u)
    <3>1. StartOf(a, u) = u /\ kept = <<>> /\ d.audioTs = u /\ (a.audioTs = 0 \/ u < a.audioTs)
      BY <1>2, <2>3 DEF KeptOf, StartOf, Resets
    <3>2. u \in Nat
      BY <1>2
    <3> HIDE DEF u
    <3>3. p = 0
      BY <2>3, <3>1, <3>2
    <3> QED  BY <3>1, <3>3
  <2> QED  BY <2>1, <2>2, <2>3
<1>6. ASSUME ~full
      PROVE  /\ Len(d.buf) = p + length
             /\ \A j \in 1..p : d.buf[j] = IF j <= Len(kept) THEN kept[j] ELSE Silence
             /\ \A j \in p + 1..p + length : d.buf[j] = data[j - p]
  <2>1. CASE push
    <3>1. d.buf = a.buf \o data /\ kept = a.buf /\ p = Len(a.buf)
      BY <1>2, <1>6, <2>1
    <3> HIDE DEF a, d, data, kept, p
    <3>2. /\ Len(a.buf \o data) = Len(a.buf) + Len(data)
          /\ \A k \in 1..Len(a.buf) : (a.buf \o data)[k] = a.buf[k]
          /\ \A k \in Len(a.buf) + 1..Len(a.buf) + Len(data) : (a.buf \o data)[k] = data[k - Len(a.buf)]
      BY <1>2, <1>3, JoinedIs
    <3>3. \A j \in 1..p : j <= Len(kept)
      BY <1>4, <3>1
    <3> QED  BY <1>2, <3>1, <3>2, <3>3
  <2>2. CASE ~push
    <3>1. d.buf = Placed(kept, p, data)
      BY <1>2, <1>6, <2>2
    <3> HIDE DEF a, d, data, kept, p, full
    <3> DEFINE x == Placed(kept, p, data)
    <3>2. kept \in Seq(SampleFrame) /\ p \in Nat /\ data \in Seq(SampleFrame)
      BY <1>2, <1>4
    <3>3. /\ Len(x) = p + Len(data)
          /\ \A i \in 1..p : x[i] = IF i <= Len(kept) THEN kept[i] ELSE Silence
          /\ \A i \in p + 1..p + Len(data) : x[i] = data[i - p]
      BY <3>2, PlacedIs, Zenon
    <3> HIDE DEF x
    <3> QED  BY <1>2, <3>1, <3>3 DEF x
  <2> QED  BY <2>1, <2>2
<1>7. ~new => p = Len(a.buf) /\ kept = a.buf /\ d.audioTs = a.audioTs /\ a.lost # a.n
  BY <1>2
<1>8. full => d.buf = kept /\ d.lost = d.n
  BY <1>2
<1> HIDE DEF a, d, t, t1, push, adjust, taken, new, data, u, full, kept, p
<1>9. ~full => \A j \in p + 1..p + length : d.buf[j].n = a.n + (j - p) /\ d.buf[j].new = (new /\ j = p + 1)
  <2>1. SUFFICES ASSUME ~full, NEW j \in p + 1..p + length
                 PROVE  d.buf[j].n = a.n + (j - p) /\ d.buf[j].new = (new /\ j = p + 1)
    OBVIOUS
  <2>2. PICK i \in 1..length : i = j - p /\ (i = 1 <=> j = p + 1)
    <3>1. j - p \in 1..length /\ (j - p = 1 <=> j = p + 1)
      BY <1>2, <1>4
    <3> QED  BY <3>1
  <2>3. d.buf[j] = data[i]
    BY <1>6, <2>1, <2>2
  <2> QED  BY <1>2, <2>2, <2>3
<1>10. Grows(a, d, kept, p, length, new)
  BY <1>2, <1>5, <1>6, <1>7, <1>8, <1>9 DEF Grows
<1> QED  BY <1>2, <1>3, <1>4, <1>10 DEF a, d

LEMMA GrownArranged ==
  ASSUME NEW a \in SourceState, NEW d \in SourceState, Arranged(a), NEW kept \in Seq(SampleFrame), NEW p \in Nat,
         NEW length \in Nat, NEW new \in BOOLEAN, Grows(a, d, kept, p, length, new)
  PROVE  /\ Arranged(d) /\ a.n <= d.n
         /\ \A j \in 1..Len(d.buf) :
              \/ d.buf[j].n = 0 \/ d.buf[j].n > a.n
              \/ j <= Len(a.buf) /\ d.audioTs = a.audioTs /\ d.buf[j] = a.buf[j]
         /\ d.audioTs = a.audioTs \/ a.audioTs = 0 \/ d.audioTs < a.audioTs
         /\ d.audioTs # a.audioTs => \A j \in 1..Len(d.buf) : d.buf[j].n # 0 => d.buf[j].n > a.n
         /\ d.buf = <<>> => d.lost = d.n
         /\ d.buf # <<>> => \/ d.buf[1].n = 0 \/ d.buf[1].new
                            \/ d.audioTs = a.audioTs /\ a.buf # <<>> /\ d.buf[1] = a.buf[1]
                            \/ d.audioTs = a.audioTs /\ a.buf = <<>> /\ d.buf[1].n = a.n + 1 /\ a.lost # a.n
<1>1. /\ length > 0 /\ d.n = a.n + length /\ a.n \in Nat /\ d.n \in Nat /\ a.audioTs \in Nat /\ d.audioTs \in Nat
      /\ a.buf \in Seq(SampleFrame) /\ d.buf \in Seq(SampleFrame)
  BY DEF Grows, SourceState
<1>2. \/ kept = a.buf /\ d.audioTs = a.audioTs
      \/ kept = <<>> /\ p = 0 /\ (a.audioTs = 0 \/ d.audioTs < a.audioTs)
  BY DEF Grows
<1>3. PICK L \in Nat, K \in Nat, M \in Nat : L = Len(a.buf) /\ K = Len(kept) /\ M = Len(d.buf)
  BY <1>1
<1>4. /\ \A j \in 1..L : a.buf[j].n \in Nat /\ a.buf[j].n <= a.n
      /\ \A j \in 1..M : d.buf[j].n \in Nat
  BY <1>1, <1>3, FramesAre DEF Arranged
<1>5. \A j \in 1..K : j \in 1..L /\ d.audioTs = a.audioTs /\ kept[j] = a.buf[j]
  BY <1>2, <1>3
<1>6. Silence.n = 0
  BY DEF Silence
<1>7. /\ \A j \in 1..L : a.buf[j].n # 0 => \A i \in 1..(j - 1) : a.buf[i].n < a.buf[j].n
      /\ \A j \in 2..L : a.buf[j].n # 0 /\ ~a.buf[j].new => a.buf[j - 1].n # 0 /\ a.buf[j].n = a.buf[j - 1].n + 1
      /\ a.buf # <<>> => a.buf[L].n # 0 /\ (a.buf[L].n = a.n \/ a.lost = a.n)
  BY <1>3 DEF Arranged, Rising, Follows
<1>8. CASE d.buf = kept /\ d.lost = d.n
  <2>1. M = K
    BY <1>3, <1>8
  <2>2. Rising(d.buf)
    <3>1. SUFFICES ASSUME NEW j \in 1..M, d.buf[j].n # 0, NEW i \in 1..(j - 1) PROVE d.buf[i].n < d.buf[j].n
      BY <1>3 DEF Rising
    <3>2. i \in 1..K /\ j \in 1..K
      BY <2>1
    <3> QED  BY <1>5, <1>7, <1>8, <3>1, <3>2
  <2>3. Follows(d.buf)
    <3>1. SUFFICES ASSUME NEW j \in 2..M, d.buf[j].n # 0, ~d.buf[j].new
                   PROVE  d.buf[j - 1].n # 0 /\ d.buf[j].n = d.buf[j - 1].n + 1
      BY <1>3 DEF Follows
    <3>2. j - 1 \in 1..K /\ j \in 1..K /\ j \in 2..L
      BY <1>5, <2>1
    <3> QED  BY <1>5, <1>7, <1>8, <3>1, <3>2
  <2>4. \A j \in 1..M : d.buf[j].n <= d.n
    <3>1. TAKE j \in 1..M
    <3>2. j \in 1..L /\ d.buf[j] = a.buf[j]
      BY <1>5, <1>8, <2>1
    <3> QED  BY <1>1, <1>4, <3>2
  <2>5. d.buf # <<>> => d.buf[M].n # 0
    <3>1. SUFFICES ASSUME d.buf # <<>> PROVE d.buf[M].n # 0
      OBVIOUS
    <3>2. d.buf = a.buf /\ M = L
      BY <1>2, <1>3, <1>8, <3>1
    <3> QED  BY <1>7, <3>1, <3>2
  <2>6. Arranged(d)
    BY <1>3, <1>8, <2>2, <2>3, <2>4, <2>5 DEF Arranged
  <2>7. \A j \in 1..M : j <= L /\ d.audioTs = a.audioTs /\ d.buf[j] = a.buf[j]
    BY <1>5, <1>8, <2>1
  <2>8. d.audioTs # a.audioTs => M = 0
    <3>1. d.audioTs # a.audioTs => kept = <<>>
      BY <1>2
    <3> QED  BY <1>3, <1>8, <3>1
  <2>9. d.buf # <<>> => d.audioTs = a.audioTs /\ a.buf # <<>> /\ d.buf[1] = a.buf[1]
    BY <1>2, <1>8
  <2> QED  BY <1>1, <1>2, <1>3, <1>8, <2>6, <2>7, <2>8, <2>9
<1>9. CASE ~(d.buf = kept /\ d.lost = d.n)
  <2>1. /\ M = p + length
        /\ \A j \in 1..p : d.buf[j] = IF j <= K THEN kept[j] ELSE Silence
        /\ \A j \in p + 1..p + length : d.buf[j].n = a.n + (j - p) /\ d.buf[j].new = (new /\ j = p + 1)
        /\ new \/ (p = L /\ kept = a.buf /\ d.audioTs = a.audioTs /\ a.lost # a.n)
    BY <1>3, <1>9 DEF Grows
  <2>2. \A j \in 1..p : d.buf[j].n = 0 \/ (j \in 1..L /\ d.audioTs = a.audioTs /\ d.buf[j] = a.buf[j])
    <3>1. TAKE j \in 1..p
    <3>2. CASE j <= K
      BY <1>5, <2>1, <3>2
    <3>3. CASE ~(j <= K)
      BY <1>6, <2>1, <3>3
    <3> QED  BY <3>2, <3>3
  <2>3. \A j \in 1..p : d.buf[j].n \in Nat /\ d.buf[j].n <= a.n
    <3>1. TAKE j \in 1..p
    <3>2. j \in 1..M
      BY <2>1
    <3>3. d.buf[j].n \in Nat
      BY <1>4, <3>2
    <3>4. CASE d.buf[j].n = 0
      BY <1>1, <3>4
    <3>5. CASE j \in 1..L /\ d.buf[j] = a.buf[j]
      BY <1>4, <3>3, <3>5
    <3> QED  BY <2>2, <3>4, <3>5
  <2>4. Rising(d.buf)
    <3>1. SUFFICES ASSUME NEW j \in 1..M, d.buf[j].n # 0, NEW i \in 1..(j - 1) PROVE d.buf[i].n < d.buf[j].n
      BY <1>3 DEF Rising
    <3>2. CASE j \in 1..p
      <4>1. i \in 1..p /\ j \in 1..L /\ d.buf[j] = a.buf[j]
        BY <2>2, <3>1, <3>2
      <4>2. CASE d.buf[i].n = 0
        BY <1>4, <3>1, <4>2
      <4>3. CASE d.buf[i] = a.buf[i]
        BY <1>7, <3>1, <4>1, <4>3
      <4> QED  BY <2>2, <4>1, <4>2, <4>3
    <3>3. CASE j \in p + 1..p + length
      <4>1. d.buf[j].n = a.n + (j - p) /\ j - p >= 1
        BY <2>1, <3>3
      <4>2. CASE i \in 1..p
        <5>1. d.buf[i].n \in Nat /\ d.buf[i].n <= a.n
          BY <2>3, <4>2
        <5>2. PICK x \in Nat, y \in Nat : x = d.buf[i].n /\ y = a.n
          BY <1>1, <5>1
        <5>3. PICK z \in Nat : z = j - p /\ z >= 1
          BY <1>1, <3>3, <4>1
        <5> QED  BY <4>1, <5>1, <5>2, <5>3
      <4>3. CASE i \in p + 1..p + length
        <5>1. d.buf[i].n = a.n + (i - p)
          BY <2>1, <4>3
        <5> QED  BY <1>1, <4>1, <5>1
      <4> QED  BY <3>3, <4>2, <4>3
    <3> QED  BY <2>1, <3>2, <3>3
  <2>5. Follows(d.buf)
    <3>1. SUFFICES ASSUME NEW j \in 2..M, d.buf[j].n # 0, ~d.buf[j].new
                   PROVE  d.buf[j - 1].n # 0 /\ d.buf[j].n = d.buf[j - 1].n + 1
      BY <1>3 DEF Follows
    <3>2. CASE j \in 2..p
      <4>1. j \in 2..L /\ d.buf[j] = a.buf[j] /\ j - 1 \in 1..p
        BY <2>2, <3>1, <3>2
      <4>2. a.buf[j - 1].n # 0 /\ a.buf[j].n = a.buf[j - 1].n + 1
        BY <1>7, <3>1, <4>1
      <4>3. d.buf[j - 1] = a.buf[j - 1]
        <5>1. K = L /\ kept = a.buf
          BY <1>2, <1>3, <3>2
        <5>2. j - 1 <= K
          BY <4>1, <5>1
        <5> QED  BY <2>1, <4>1, <5>1, <5>2
      <4> QED  BY <4>1, <4>2, <4>3
    <3>3. CASE j = p + 1
      <4>1. ~new
        <5>1. j \in p + 1..p + length
          BY <1>1, <3>3
        <5> QED  BY <2>1, <3>1, <3>3, <5>1
      <4>2. p = L /\ kept = a.buf /\ a.lost # a.n /\ p >= 1
        BY <2>1, <3>3, <4>1
      <4>3. a.buf[L].n # 0 /\ a.buf[L].n = a.n
        <5>1. a.buf # <<>>
          BY <1>3, <4>2
        <5> QED  BY <1>7, <4>2, <5>1
      <4>4. p \in 1..p /\ p <= K
        BY <1>3, <4>2
      <4>5. d.buf[p] = a.buf[L]
        BY <2>1, <4>2, <4>4
      <4>6. d.buf[j].n = a.n + (j - p)
        BY <1>1, <2>1, <3>3
      <4>7. j - 1 = p /\ j - p = 1
        BY <1>1, <3>3
      <4> QED  BY <4>3, <4>5, <4>6, <4>7
    <3>4. CASE j \in p + 2..p + length
      <4>1. j \in p + 1..p + length /\ j - 1 \in p + 1..p + length
        BY <3>4
      <4>2. PICK x \in Nat : j - p = x + 1 /\ (j - 1) - p = x /\ x > 0
        <5>1. (j - 1) - p \in Nat /\ j - p = ((j - 1) - p) + 1 /\ (j - 1) - p > 0
          BY <3>4
        <5> QED  BY <5>1
      <4>3. d.buf[j].n = a.n + (x + 1)
        BY <2>1, <4>1, <4>2
      <4>4. d.buf[j - 1].n = a.n + x
        BY <2>1, <4>1, <4>2
      <4>5. PICK y \in Nat : y = a.n
        BY <1>1
      <4>6. d.buf[j].n = y + (x + 1) /\ d.buf[j - 1].n = y + x
        BY <4>3, <4>4, <4>5
      <4> QED  BY <4>2, <4>5, <4>6
    <3>5. j \in 2..p \/ j = p + 1 \/ j \in p + 2..p + length
      BY <2>1
    <3> QED  BY <3>2, <3>3, <3>4, <3>5
  <2>6. \A j \in 1..M : d.buf[j].n <= d.n
    <3>1. TAKE j \in 1..M
    <3>2. CASE j \in 1..p
      <4>1. d.buf[j].n \in Nat /\ d.buf[j].n <= a.n
        BY <2>3, <3>2
      <4> QED  BY <1>1, <4>1
    <3>3. CASE j \in p + 1..p + length
      <4>1. d.buf[j].n = a.n + (j - p)
        BY <2>1, <3>3
      <4> QED  BY <1>1, <3>3, <4>1
    <3> QED  BY <2>1, <3>2, <3>3
  <2>7. d.buf[M].n = d.n /\ d.n # 0 /\ M > 0 /\ d.buf # <<>>
    <3>1. M \in p + 1..p + length /\ M - p = length /\ M > 0
      BY <1>1, <2>1
    <3>2. d.buf # <<>>
      BY <1>3, <3>1
    <3> QED  BY <1>1, <2>1, <3>1, <3>2
  <2>8. Arranged(d)
    BY <1>3, <2>4, <2>5, <2>6, <2>7 DEF Arranged
  <2>9. \A j \in p + 1..p + length : d.buf[j].n > a.n
    <3>1. TAKE j \in p + 1..p + length
    <3>2. d.buf[j].n = a.n + (j - p)
      BY <2>1
    <3> QED  BY <1>1, <3>2
  <2>10. d.audioTs # a.audioTs => p = 0
    BY <1>2
  <2>11. \/ d.buf[1].n = 0 \/ d.buf[1].new
         \/ d.audioTs = a.audioTs /\ a.buf # <<>> /\ d.buf[1] = a.buf[1]
         \/ d.audioTs = a.audioTs /\ a.buf = <<>> /\ d.buf[1].n = a.n + 1 /\ a.lost # a.n
    <3>1. CASE p > 0
      <4>1. 1 \in 1..p
        BY <3>1
      <4>2. d.buf[1].n = 0 \/ (1 \in 1..L /\ d.audioTs = a.audioTs /\ d.buf[1] = a.buf[1])
        BY <2>2, <4>1
      <4>3. 1 \in 1..L => a.buf # <<>>
        BY <1>3
      <4> QED  BY <4>2, <4>3
    <3>2. CASE p = 0
      <4>1. 1 \in p + 1..p + length /\ p + 1 = 1
        BY <1>1, <3>2
      <4>2. d.buf[1].n = a.n + 1 /\ d.buf[1].new = new
        BY <2>1, <3>2, <4>1
      <4>3. CASE ~new
        <5>1. L = 0 /\ kept = a.buf /\ a.lost # a.n
          BY <2>1, <3>2, <4>3
        <5>2. a.buf = <<>>
          BY <1>1, <1>3, <5>1, EmptySeq
        <5>3. d.audioTs = a.audioTs
          BY <2>1, <4>3
        <5> QED  BY <4>2, <5>1, <5>2, <5>3
      <4> QED  BY <4>2, <4>3
    <3> QED  BY <3>1, <3>2
  <2>12. \A j \in 1..M : \/ d.buf[j].n = 0 \/ d.buf[j].n > a.n
                         \/ j <= L /\ d.audioTs = a.audioTs /\ d.buf[j] = a.buf[j]
    <3>1. TAKE j \in 1..M
    <3>2. j \in 1..p \/ j \in p + 1..p + length
      BY <2>1
    <3> QED  BY <2>2, <2>9, <3>2
  <2>13. d.audioTs # a.audioTs => \A j \in 1..M : d.buf[j].n # 0 => d.buf[j].n > a.n
    <3>1. SUFFICES ASSUME d.audioTs # a.audioTs, NEW j \in 1..M PROVE d.buf[j].n > a.n
      OBVIOUS
    <3>2. j \in p + 1..p + length
      BY <2>1, <2>10, <3>1
    <3> QED  BY <2>9, <3>2
  <2>14. a.n <= d.n /\ (d.audioTs = a.audioTs \/ a.audioTs = 0 \/ d.audioTs < a.audioTs)
    BY <1>1, <1>2
  <2> QED  BY <1>3, <2>7, <2>8, <2>11, <2>12, <2>13, <2>14
<1> QED  BY <1>8, <1>9

LEMMA NextHeardIs ==
  ASSUME MixTypes
  PROVE  NextHeard \in Int /\ Frames \in Nat /\ Frames > 0 /\ ts \in Int /\ Root \subseteq Source
<1>1. next \in Int /\ Len(windows) \in Int /\ wait \in Int /\ Frames \in Nat /\ Frames > 0
  BY MixSizesAre DEF MixTypes, MixTypeOK
<1>2. Len(windows) * Frames \in Int /\ wait * Frames \in Int
  BY <1>1
<1>3. FirstDue \in Int
  BY <1>1, <1>2 DEF FirstDue
<1> QED  BY <1>1, <1>2, <1>3, MixSizesAre, SMTT(30) DEF NextHeard, MixTypes

LEMMA StillUnplayed ==
  ASSUME NEW s \in Source, lastHeard' = lastHeard, cut' = cut, NextHeard' = NextHeard,
         src'[s].buf = src[s].buf, src'[s].audioTs = src[s].audioTs, src'[s].n = src[s].n, src'[s].lost = src[s].lost,
         Arranged(src[s]), Unplayed(s)
  PROVE  Arranged(src'[s]) /\ Unplayed(s)'
<1>1. Arranged(src'[s])
  BY DEF Arranged
<1>2. Unplayed(s)'
  BY DEF Unplayed, Joins
<1> QED  BY <1>1, <1>2

(* A block of the source itself: whatever is in the buffer then was there  *)
(* at the same time, or comes after all that the source put out before.    *)
LEMMA OutputHeard ==
  ASSUME MixTypes, Timed, HeardInv, NEW s \in Source, NEW length \in Length, NEW late \in Lateness[s],
         NEW offset \in SyncOffset[s], Output(s, length, late, offset)
  PROVE  HeardInv'
<1>1. UNCHANGED <<stage, next, windows, wait, ts, peeked, lastHeard, cut>>
  BY DEF Output, mixer, history
<1>2. /\ src' = [src EXCEPT ![s] = src'[s]] /\ src'[s] \in SourceState /\ length \in Nat /\ src \in [Source -> SourceState]
      /\ src'[s].pending = src[s].pending
      /\ src[s].audioTs # 0 => src'[s].audioTs # 0
  BY OutputGrows, OutputKeeps DEF MixTypes
<1>3. NextHeard' = NextHeard /\ Delivered' = Delivered /\ NextHeard \in Int /\ Frames \in Nat /\ Frames > 0 /\ ts \in Int
      /\ Root \subseteq Source
  BY <1>1, NextHeardIs DEF NextHeard, FirstDue, Delivered
<1>4. SUFFICES ASSUME NEW q \in Root PROVE Arranged(src'[q]) /\ Unplayed(q)' /\ Rendered(q)'
  BY DEF HeardInv
<1>5. Arranged(src[q]) /\ Unplayed(q) /\ Rendered(q) /\ q \in Source
  BY <1>3 DEF HeardInv
<1>6. CASE q # s
  <2>1. src'[q] = src[q]
    BY <1>2, <1>5, <1>6
  <2>2. Arranged(src'[q]) /\ Unplayed(q)'
    BY <1>1, <1>3, <1>5, <2>1, StillUnplayed
  <2>3. Rendered(q)'
    BY <1>1, <1>3, <1>5, <2>1 DEF Rendered, Picked, Unmixed, Renewed, LastMixed, Joins, Taken
  <2> QED  BY <2>2, <2>3
<1>7. CASE q = s
  <2> DEFINE a == src[q]
             d == src'[q]
             h == lastHeard[q]
             f == peeked[q]
             H == NextHeard
  <2>1. a \in SourceState /\ d \in SourceState /\ f \in Seq(SampleFrame)
    BY <1>2, <1>5, <1>7 DEF MixTypes
  <2>2. /\ Arranged(d) /\ a.n <= d.n
        /\ \A j \in 1..Len(d.buf) :
             \/ d.buf[j].n = 0 \/ d.buf[j].n > a.n
             \/ j <= Len(a.buf) /\ d.audioTs = a.audioTs /\ d.buf[j] = a.buf[j]
        /\ d.audioTs = a.audioTs \/ a.audioTs = 0 \/ d.audioTs < a.audioTs
        /\ d.audioTs # a.audioTs => \A j \in 1..Len(d.buf) : d.buf[j].n # 0 => d.buf[j].n > a.n
        /\ d.buf = <<>> => d.lost = d.n
        /\ d.buf # <<>> => \/ d.buf[1].n = 0 \/ d.buf[1].new
                           \/ d.audioTs = a.audioTs /\ a.buf # <<>> /\ d.buf[1] = a.buf[1]
                           \/ d.audioTs = a.audioTs /\ a.buf = <<>> /\ d.buf[1].n = a.n + 1 /\ a.lost # a.n
    <3>1. PICK kept \in Seq(SampleFrame), p \in Nat, new \in BOOLEAN : Grows(src[s], src'[s], kept, p, length, new)
      BY OutputGrows
    <3>2. Grows(a, d, kept, p, length, new) /\ Arranged(a)
      BY <1>5, <1>7, <3>1
    <3> HIDE DEF a, d
    <3> QED  BY <1>2, <2>1, <3>2, GrownArranged
  <2>3. /\ h \in Nat /\ h <= a.n
        /\ \A j \in 1..Len(a.buf) : a.buf[j].n # 0 /\ a.audioTs + j - 1 >= H => a.buf[j].n > h
        /\ a.audioTs # 0 /\ a.audioTs >= H =>
             IF a.buf = <<>> THEN a.lost = a.n \/ h = a.n \/ q \in cut ELSE Joins(q, a.buf[1])
    BY <1>5 DEF Unplayed
  <2>4. a.n \in Nat /\ d.n \in Nat /\ a.audioTs \in Nat /\ d.audioTs \in Nat /\ a.buf \in Seq(SampleFrame)
        /\ d.buf \in Seq(SampleFrame) /\ \A j \in 1..Len(d.buf) : d.buf[j].n \in Nat
    BY <2>1, FramesAre DEF SourceState
  <2>5. Unplayed(q)'
    <3> HIDE DEF a, d, h, H
    <3>1. h <= d.n
      BY <2>2, <2>3, <2>4
    <3>2. ASSUME NEW j \in 1..Len(d.buf), d.buf[j].n # 0, d.audioTs + j - 1 >= H
          PROVE  d.buf[j].n > h
      <4>1. CASE d.buf[j].n > a.n
        BY <2>3, <2>4, <4>1
      <4>2. CASE j <= Len(a.buf) /\ d.audioTs = a.audioTs /\ d.buf[j] = a.buf[j]
        <5>1. j \in 1..Len(a.buf)
          BY <2>4, <4>2
        <5> QED  BY <2>3, <3>2, <4>2, <5>1
      <4> QED  BY <2>2, <3>2, <4>1, <4>2
    <3>3. ASSUME d.audioTs # 0, d.audioTs >= H, d.buf # <<>>
          PROVE  d.buf[1].n # 0 => d.buf[1].new \/ d.buf[1].n = h + 1 \/ q \in cut
      <4>1. CASE d.audioTs = a.audioTs /\ a.buf # <<>> /\ d.buf[1] = a.buf[1]
        BY <2>3, <3>3, <4>1 DEF Joins, h
      <4>2. CASE d.audioTs = a.audioTs /\ a.buf = <<>> /\ d.buf[1].n = a.n + 1 /\ a.lost # a.n
        BY <2>3, <3>3, <4>2
      <4> QED  BY <2>2, <3>3, <4>1, <4>2
    <3>4. lastHeard'[q] = h /\ cut' = cut /\ NextHeard' = H /\ src'[q] = d
      BY <1>1, <1>3 DEF h, H, d
    <3> QED  BY <2>2, <2>3, <3>1, <3>2, <3>3, <3>4 DEF Unplayed, Joins
  <2>6. Rendered(q)'
    <3>1. SUFFICES ASSUME stage # "sleep", ~a.pending
                   PROVE  /\ d.audioTs # 0 /\ Picked(q)'
                          /\ stage # "discard" => Unmixed(q)'
                          /\ Delivered => Renewed(q)' \/ LastMixed(q)'
      BY <1>1, <1>2, <1>3, <1>7 DEF Rendered
    <3>2. /\ a.audioTs # 0 /\ Picked(q)
          /\ stage # "discard" => Unmixed(q)
          /\ Delivered => Renewed(q) \/ LastMixed(q)
      BY <1>5, <3>1 DEF Rendered
    <3>3. Len(f) = Frames /\ \A i \in 1..Frames : f[i].n \in Nat /\ f[i].n <= a.n
      BY <2>1, <3>2, FramesAre DEF Picked
    <3>4. d.audioTs # 0
      BY <1>2, <1>7, <3>2
    <3>5. Picked(q)'
      <4>1. \A i \in 1..Frames : f[i].n <= d.n
        BY <2>2, <2>4, <3>3
      <4> QED  BY <1>1, <3>2, <4>1 DEF Picked
    <3>6. ASSUME stage # "discard" PROVE Unmixed(q)'
      <4>1. /\ \A j \in 1..Len(a.buf) : a.buf[j].n # 0 => \A i \in 1..Frames : i < j => f[i].n < a.buf[j].n
            /\ a.audioTs >= H => (\A i \in 1..Frames : f[i].n # 0 => f[i].n > h) /\ Joins(q, f[1])
        BY <3>2, <3>6 DEF Unmixed
      <4>2. ASSUME NEW j \in 1..Len(d.buf), d.buf[j].n # 0, NEW i \in 1..Frames, i < j
            PROVE  f[i].n < d.buf[j].n
        <5> HIDE DEF a, d, f
        <5>1. CASE d.buf[j].n > a.n
          BY <2>4, <3>3, <5>1
        <5>2. CASE j <= Len(a.buf) /\ d.audioTs = a.audioTs /\ d.buf[j] = a.buf[j]
          <6>1. j \in 1..Len(a.buf)
            BY <2>4, <5>2
          <6> QED  BY <4>1, <4>2, <5>2, <6>1
        <5> QED  BY <2>2, <4>2, <5>1, <5>2
      <4>3. d.audioTs >= H => a.audioTs >= H
        BY <1>3, <2>2, <2>4, <3>2
      <4> QED  BY <1>1, <1>3, <4>1, <4>2, <4>3 DEF Unmixed, Joins
    <3>7. ASSUME Delivered PROVE Renewed(q)' \/ LastMixed(q)'
      <4>1. CASE Renewed(q)
        <5>1. \A j \in 1..Len(a.buf) : a.buf[j].n # 0 => \A i \in 1..Frames : f[i].n < a.buf[j].n
          BY <4>1 DEF Renewed
        <5>2. ASSUME NEW j \in 1..Len(d.buf), d.buf[j].n # 0, NEW i \in 1..Frames
              PROVE  f[i].n < d.buf[j].n
          <6> HIDE DEF a, d, f
          <6>1. CASE d.buf[j].n > a.n
            BY <2>4, <3>3, <6>1
          <6>2. CASE j <= Len(a.buf) /\ d.audioTs = a.audioTs /\ d.buf[j] = a.buf[j]
            <7>1. j \in 1..Len(a.buf)
              BY <2>4, <6>2
            <7> QED  BY <5>1, <5>2, <6>2, <7>1
          <6> QED  BY <2>2, <5>2, <6>1, <6>2
        <5> QED  BY <1>1, <5>2 DEF Renewed
      <4>2. CASE d.audioTs = a.audioTs /\ LastMixed(q)
        BY <1>1, <4>2 DEF LastMixed, Taken
      <4>3. CASE d.audioTs # a.audioTs
        <5>1. ASSUME NEW j \in 1..Len(d.buf), d.buf[j].n # 0, NEW i \in 1..Frames
              PROVE  f[i].n < d.buf[j].n
          <6> HIDE DEF a, d, f
          <6>1. d.buf[j].n > a.n
            BY <2>2, <4>3, <5>1
          <6> QED  BY <2>4, <3>3, <6>1
        <5> QED  BY <1>1, <5>1 DEF Renewed
      <4> QED  BY <3>2, <3>7, <4>1, <4>2, <4>3
    <3> QED  BY <3>4, <3>5, <3>6, <3>7
  <2> QED  BY <2>2, <2>5, <2>6
<1> QED  BY <1>6, <1>7

(* The front of a buffer is as its buffer.                                 *)
LEMMA RenderHeard ==
  ASSUME MixTypes, Timed, Windows, Delivery, HeardInv, Render
  PROVE  HeardInv'
<1>1. /\ stage = "sleep" /\ stage' = "measure" /\ lastHeard' = lastHeard /\ cut' = cut
      /\ src' = [s \in Source |-> [src[s] EXCEPT !.reset = FALSE, !.pending = src[s].audioTs = 0 \/ Len(src[s].buf) < Frames]]
      /\ peeked' = [s \in Source |-> IF src'[s].pending THEN peeked[s] ELSE SubSeq(src[s].buf, 1, Frames)]
  BY DEF Render, history
<1>2. NextHeard' = NextHeard
  BY RenderWindows
<1>3. NextHeard \in Int /\ Frames \in Nat /\ Frames > 0 /\ Root \subseteq Source
  BY NextHeardIs
<1>4. SUFFICES ASSUME NEW s \in Root PROVE Arranged(src'[s]) /\ Unplayed(s)' /\ Rendered(s)'
  BY DEF HeardInv
<1>5. s \in Source /\ src[s] \in SourceState /\ Arranged(src[s]) /\ Unplayed(s)
  BY <1>3 DEF HeardInv, MixTypes
<1> DEFINE a == src[s]
           d == src'[s]
           q == peeked'[s]
<1>6. /\ d.buf = a.buf /\ d.audioTs = a.audioTs /\ d.n = a.n /\ d.lost = a.lost
      /\ d.pending = (a.audioTs = 0 \/ Len(a.buf) < Frames)
      /\ q = IF d.pending THEN peeked[s] ELSE SubSeq(a.buf, 1, Frames)
  BY <1>1, <1>5 DEF SourceState
<1>7. Arranged(d) /\ Unplayed(s)'
  BY <1>1, <1>2, <1>5, <1>6, StillUnplayed
<1>8. Rendered(s)'
  <2>1. SUFFICES ASSUME ~d.pending PROVE d.audioTs # 0 /\ Picked(s)' /\ Unmixed(s)'
    BY <1>1 DEF Rendered, Delivered
  <2>2. a.buf \in Seq(SampleFrame) /\ a.audioTs \in Nat
    BY <1>5 DEF SourceState
  <2>3. PICK L \in Nat : L = Len(a.buf) /\ Frames <= L /\ a.audioTs # 0
    <3>1. Len(a.buf) \in Nat
      BY <2>2
    <3>2. ~(a.audioTs = 0 \/ Len(a.buf) < Frames)
      <4> HIDE DEF a, d, q
      <4> QED  BY <1>6, <2>1
    <3> QED  BY <1>3, <3>1, <3>2
  <2>4. Len(q) = Frames /\ \A i \in 1..Frames : q[i] = a.buf[i] /\ i \in 1..L
    <3>1. \A i \in 1..Frames : a.buf[i] \in SampleFrame /\ i \in 1..L
      BY <1>3, <2>2, <2>3
    <3>2. q = SubSeq(a.buf, 1, Frames)
      BY <1>6, <2>1
    <3> HIDE DEF a, d, q
    <3> QED  BY <1>3, <3>1, <3>2, SubSeqProperties
  <2>5. /\ \A j \in 1..L : a.buf[j].n # 0 => \A i \in 1..(j - 1) : a.buf[i].n < a.buf[j].n
        /\ \A j \in 2..L : a.buf[j].n # 0 /\ ~a.buf[j].new => a.buf[j - 1].n # 0 /\ a.buf[j].n = a.buf[j - 1].n + 1
        /\ \A j \in 1..L : a.buf[j].n <= a.n
    BY <1>5, <2>3 DEF Arranged, Rising, Follows
  <2>6. /\ \A j \in 1..L : a.buf[j].n # 0 /\ a.audioTs + j - 1 >= NextHeard => a.buf[j].n > lastHeard[s]
        /\ a.audioTs >= NextHeard => Joins(s, a.buf[1])
    <3>1. a.buf # <<>>
      BY <1>3, <2>3
    <3> QED  BY <1>5, <2>3, <3>1 DEF Unplayed
  <2> HIDE DEF a, q
  <2>7. Picked(s)'
    <3>1. Rising(q)
      <4>1. SUFFICES ASSUME NEW j \in 1..Frames, q[j].n # 0, NEW i \in 1..(j - 1) PROVE q[i].n < q[j].n
        BY <2>4 DEF Rising
      <4>2. i \in 1..Frames
        BY <1>3
      <4> QED  BY <2>4, <2>5, <4>1, <4>2
    <3>2. Follows(q)
      <4>1. SUFFICES ASSUME NEW j \in 2..Frames, q[j].n # 0, ~q[j].new
                     PROVE  q[j - 1].n # 0 /\ q[j].n = q[j - 1].n + 1
        BY <2>4 DEF Follows
      <4>2. j \in 1..Frames /\ j - 1 \in 1..Frames /\ j \in 2..L
        BY <1>3, <2>3
      <4> QED  BY <2>4, <2>5, <4>1, <4>2
    <3>3. \A i \in 1..Frames : q[i].n <= d.n
      BY <1>6, <2>4, <2>5
    <3> QED  BY <2>4, <3>1, <3>2, <3>3 DEF Picked, q
  <2>8. Unmixed(s)'
    <3>1. \A j \in 1..L : a.buf[j].n # 0 => \A i \in 1..Frames : i < j => q[i].n < a.buf[j].n
      <4>1. SUFFICES ASSUME NEW j \in 1..L, a.buf[j].n # 0, NEW i \in 1..Frames, i < j PROVE q[i].n < a.buf[j].n
        OBVIOUS
      <4>2. i \in 1..(j - 1)
        BY <4>1
      <4> QED  BY <2>4, <2>5, <4>1, <4>2
    <3>2. ASSUME a.audioTs >= NextHeard
          PROVE  (\A i \in 1..Frames : q[i].n # 0 => q[i].n > lastHeard[s]) /\ Joins(s, q[1])
      <4>1. 1 \in 1..Frames
        BY <1>3
      <4>2. \A i \in 1..Frames : a.audioTs + i - 1 >= NextHeard
        BY <1>3, <2>2, <3>2 DEF a
      <4> QED  BY <2>4, <2>6, <3>2, <4>1, <4>2
    <3> QED  BY <1>1, <1>2, <1>6, <2>3, <3>1, <3>2 DEF Unmixed, Joins, a, q
  <2> QED  BY <1>6, <2>3, <2>7, <2>8 DEF a
<1> QED  BY <1>7, <1>8

LEMMA MeasureHeard ==
  ASSUME MixTypes, Timed, Windows, Delivery, HeardInv, Measure
  PROVE  HeardInv'
<1>1. /\ stage = "measure" /\ stage' = "mix" /\ peeked' = peeked /\ lastHeard' = lastHeard /\ cut' = cut
      /\ src' = [s \in Source |-> [src[s] EXCEPT !.pending = @ \/ Insufficient(src[s], MinTs(ts))]]
  BY DEF Measure, history
<1>2. NextHeard' = NextHeard /\ Root \subseteq Source
  BY BufferWindows, NextHeardIs
<1>3. SUFFICES ASSUME NEW s \in Root PROVE Arranged(src'[s]) /\ Unplayed(s)' /\ Rendered(s)'
  BY DEF HeardInv
<1>4. s \in Source /\ src[s] \in SourceState /\ Arranged(src[s]) /\ Unplayed(s) /\ Rendered(s)
  BY <1>2 DEF HeardInv, MixTypes
<1>5. /\ src'[s].buf = src[s].buf /\ src'[s].audioTs = src[s].audioTs /\ src'[s].n = src[s].n
      /\ src'[s].lost = src[s].lost /\ (src[s].pending => src'[s].pending)
  BY <1>1, <1>4 DEF SourceState
<1>6. Arranged(src'[s]) /\ Unplayed(s)'
  BY <1>1, <1>2, <1>4, <1>5, StillUnplayed
<1>7. Rendered(s)'
  BY <1>1, <1>2, <1>4, <1>5 DEF Rendered, Delivered, Picked, Unmixed, Joins
<1> QED  BY <1>6, <1>7

-----------------------------------------------------------------------------
(* What a block takes from a source: the frames it copied, behind silence. *)
AddedFrames(s, added, start, m) ==
  /\ start + m = Frames /\ m > 0 /\ m = Taken(src[s])
  /\ \A i \in 1..start : added[i].n = 0
  /\ \A i \in start + 1..Frames : /\ i - start \in 1..m
                                   /\ added[i].n = peeked[s][i - start].n /\ added[i].new = peeked[s][i - start].new

LEMMA AddedShape ==
  ASSUME MixTypes, NEW s \in Source, stage = "mix", Rendered(s)
  PROVE  LET a == src[s] IN
         \/ (\A i \in 1..Frames : Added(s)[i].n = 0) /\ (a.pending \/ a.audioTs < ts \/ a.audioTs >= ts + Frames)
         \/ /\ ~a.pending /\ ts <= a.audioTs /\ a.audioTs < ts + Frames
            /\ \E start \in Nat, m \in Nat : AddedFrames(s, Added(s), start, m)
<1> DEFINE a == src[s]
           start == a.audioTs - ts
<1>1. Frames \in Nat /\ Frames > 0 /\ ts \in Int /\ a.audioTs \in Nat
  BY NextHeardIs DEF MixTypes, SourceState
<1>2. ~a.pending => a.audioTs # 0 /\ Len(peeked[s]) = Frames /\ peeked[s] \in Seq(SampleFrame)
  BY DEF Rendered, Picked, MixTypes
<1>3. CASE a.pending \/ a.audioTs = 0 \/ start < 0 \/ start >= Frames
  <2>1. Added(s) = Silent(Frames)
    BY <1>3 DEF Added
  <2>2. \A i \in 1..Frames : Silent(Frames)[i].n = 0
    BY <1>1, SilentIs DEF Silence
  <2>3. a.pending \/ a.audioTs < ts \/ a.audioTs >= ts + Frames
    BY <1>1, <1>2, <1>3
  <2> QED  BY <2>1, <2>2, <2>3
<1>4. CASE ~(a.pending \/ a.audioTs = 0 \/ start < 0 \/ start >= Frames)
  <2>1. ts <= a.audioTs /\ a.audioTs < ts + Frames
    BY <1>1, <1>4
  <2>2. PICK k \in Nat, m \in Nat : k = start /\ m = Frames - start /\ k + m = Frames /\ m > 0 /\ m <= Frames
    <3>1. start \in Nat /\ Frames - start \in Nat
      BY <1>1, <1>4
    <3> QED  BY <1>1, <1>4, <3>1
  <2>3. m = Taken(a)
    BY <2>2 DEF Taken
  <2> DEFINE x == Silent(k)
             y == [i \in 1..m |-> [peeked[s][i] EXCEPT !.moved = @ \/ a.reset]]
  <2>4. Added(s) = x \o y
    BY <1>4, <2>2 DEF Added
  <2>5. /\ y \in Seq(SampleFrame) /\ Len(y) = m
        /\ \A i \in 1..m : y[i].n = peeked[s][i].n /\ y[i].new = peeked[s][i].new
    <3>1. peeked[s] \in Seq(SampleFrame) /\ Len(peeked[s]) = Frames /\ a.reset \in BOOLEAN
      BY <1>2, <1>4 DEF MixTypes, SourceState
    <3> DEFINE reset == a.reset
    <3> HIDE DEF reset
    <3>2. LET v == [i \in 1..m |-> [peeked[s][i] EXCEPT !.moved = @ \/ reset]] IN
          /\ v \in Seq(SampleFrame) /\ Len(v) = m
          /\ \A i \in 1..m : v[i].n = peeked[s][i].n /\ v[i].new = peeked[s][i].new
      <4>1. reset \in BOOLEAN /\ m <= Len(peeked[s])
        BY <2>2, <3>1 DEF reset
      <4> QED  BY <3>1, <4>1, MovedIs, SMTT(30)
    <3> QED  BY <3>2 DEF reset
  <2>6. x \in Seq(SampleFrame) /\ Len(x) = k /\ \A i \in 1..k : x[i].n = 0
    <3>1. Silence.n = 0
      BY DEF Silence
    <3> QED  BY <3>1, SilentIs
  <2> HIDE DEF x, y, a
  <2>7. /\ \A i \in 1..k : (x \o y)[i] = x[i]
        /\ \A i \in k + 1..k + m : (x \o y)[i] = y[i - k]
    BY <2>5, <2>6, JoinedIs
  <2>8. \A i \in k + 1..Frames : i - k \in 1..m
    BY <2>2
  <2>9. AddedFrames(s, Added(s), k, m)
    BY <2>2, <2>3, <2>4, <2>5, <2>6, <2>7, <2>8 DEF AddedFrames, a
  <2> QED  BY <1>4, <2>1, <2>9 DEF a
<1> QED  BY <1>3, <1>4

(* What is mixed of a source is as it was copied, and comes after what was *)
(* heard; the next to be heard comes after it.                             *)
InOrder(s) ==
  \A i \in 1..Frames :
    LET f == mix'[s][i]
        before == LastBefore(mix'[s], i, lastHeard[s])
    IN f.n # 0 => f.n > before /\ (f.n = before + 1 \/ f.new \/ s \in cut)

LEMMA MixedInOrder ==
  ASSUME NEW s \in Source, Frames \in Nat, NEW added \in Seq(SampleFrame), NEW start \in Nat, NEW m \in Nat,
         AddedFrames(s, added, start, m), Picked(s), peeked[s] \in Seq(SampleFrame), lastHeard[s] \in Nat,
         \A i \in 1..Frames : peeked[s][i].n # 0 => peeked[s][i].n > lastHeard[s],
         Joins(s, peeked[s][1]), NEW i \in 1..Frames, added[i].n # 0
  PROVE  LET before == LastBefore(added, i, lastHeard[s])
         IN added[i].n > before /\ (added[i].n = before + 1 \/ added[i].new \/ s \in cut)
<1> DEFINE q == peeked[s]
           h == lastHeard[s]
           before == LastBefore(added, i, h)
<1>1. /\ start + m = Frames /\ \A j \in 1..start : added[j].n = 0
      /\ \A j \in start + 1..Frames :
           j - start \in 1..m /\ added[j].n = q[j - start].n /\ added[j].new = q[j - start].new
  BY DEF AddedFrames
<1>2. /\ \A j \in 1..Frames : q[j].n # 0 => \A k \in 1..(j - 1) : q[k].n < q[j].n
      /\ \A j \in 2..Frames : q[j].n # 0 /\ ~q[j].new => q[j - 1].n # 0 /\ q[j].n = q[j - 1].n + 1
  BY DEF Picked, Rising, Follows
<1>3. \/ (\A k \in 1..(i - 1) : added[k].n = 0) /\ before = h
      \/ \E k \in 1..(i - 1) : /\ added[k].n # 0 /\ before = added[k].n /\ \A j \in k + 1..(i - 1) : added[j].n = 0
  <2>1. i \in Nat /\ i > 0
    OBVIOUS
  <2> HIDE DEF h, before, q
  <2>2. \/ (\A k \in 1..(i - 1) : added[k].n = 0) /\ LastBefore(added, i, h) = h
        \/ \E k \in 1..(i - 1) : /\ added[k].n # 0 /\ LastBefore(added, i, h) = added[k].n
                                 /\ \A j \in k + 1..(i - 1) : added[j].n = 0
    BY <2>1, LastBeforeIs
  <2> QED  BY <2>2 DEF before
<1>4. i \in start + 1..Frames
  BY <1>1
<1>5. PICK j \in 1..Frames : j = i - start /\ added[i].n = q[j].n /\ added[i].new = q[j].new
  <2>1. i - start \in 1..Frames
    BY <1>1, <1>4
  <2> QED  BY <1>1, <1>4, <2>1
<1> HIDE DEF before, q, h
<1>6. CASE j = 1
  <2>1. \A k \in 1..(i - 1) : k \in 1..start
    BY <1>1, <1>5, <1>6
  <2>2. before = h
    BY <1>1, <1>3, <2>1
  <2> QED  BY <1>5, <1>6, <2>2 DEF Joins, before, q, h
<1>7. CASE j > 1
  <2>1. i - 1 \in start + 1..Frames /\ i - 1 - start = j - 1 /\ i - 1 \in 1..(i - 1) /\ j \in 2..Frames
    BY <1>4, <1>5, <1>7
  <2>2. added[i - 1].n = q[j - 1].n
    BY <1>1, <2>1
  <2>3. added[i].n > before
    <3>1. CASE before = h
      BY <1>5, <3>1 DEF q, h
    <3>2. ASSUME NEW k \in 1..(i - 1), added[k].n # 0, before = added[k].n PROVE added[i].n > before
      <4>1. k \in start + 1..Frames /\ k - start \in 1..(j - 1)
        BY <1>1, <1>5, <3>2
      <4>2. added[k].n = q[k - start].n /\ q[k - start].n < q[j].n
        BY <1>1, <1>2, <1>5, <4>1
      <4>3. q[j].n \in Nat /\ q[k - start].n \in Nat
        <5>1. Len(q) = Frames /\ q \in Seq(SampleFrame) /\ k - start \in 1..Frames
          BY <1>1, <4>1 DEF Picked, q
        <5> QED  BY <5>1, FramesAre
      <4> QED  BY <1>5, <3>2, <4>2, <4>3
    <3> QED  BY <1>3, <3>1, <3>2
  <2>4. CASE q[j].new
    BY <1>5, <2>3, <2>4 DEF before, h
  <2>5. CASE ~q[j].new
    <3>1. q[j - 1].n # 0 /\ q[j].n = q[j - 1].n + 1
      BY <1>2, <1>5, <2>1, <2>5
    <3>2. before = added[i - 1].n
      <4>1. CASE \A k \in 1..(i - 1) : added[k].n = 0
        BY <2>1, <2>2, <3>1, <4>1
      <4>2. ASSUME NEW k \in 1..(i - 1), added[k].n # 0, before = added[k].n, \A l \in k + 1..(i - 1) : added[l].n = 0
            PROVE  before = added[i - 1].n
        <5>1. CASE k = i - 1
          BY <4>2, <5>1
        <5>2. CASE k # i - 1
          <6>1. i - 1 \in k + 1..(i - 1)
            BY <2>1, <5>2
          <6> QED  BY <2>2, <3>1, <4>2, <6>1
        <5> QED  BY <5>1, <5>2
      <4> QED  BY <1>3, <4>1, <4>2
    <3> QED  BY <1>5, <2>2, <2>3, <3>1, <3>2 DEF before, h
  <2> QED  BY <2>4, <2>5
<1> QED  BY <1>5, <1>6, <1>7

LEMMA MixHeard ==
  ASSUME MixTypes, Timed, Windows, Delivery, HeardInv, Mix
  PROVE  HeardInv' /\ (~Passed => \A s \in Root : InOrder(s))
<1>1. /\ stage = "mix" /\ stage' = "discard" /\ UNCHANGED <<src, wait, ts, peeked>>
  BY DEF Mix, mixer
<1>2. /\ NextHeard' = IF Passed THEN NextHeard ELSE ts + Frames
      /\ ~Passed => NextHeard = ts /\ Delivered'
  BY MixWindows
<1>3. NextHeard \in Int /\ Frames \in Nat /\ Frames > 0 /\ ts \in Int /\ Root \subseteq Source
  BY NextHeardIs
<1>4. CASE Passed
  <2>1. lastHeard' = lastHeard /\ cut' = cut /\ NextHeard' = NextHeard /\ ~Delivered'
    BY <1>1, <1>2, <1>4 DEF Mix, history, Delivered, Passed
  <2>2. SUFFICES ASSUME NEW s \in Root PROVE Arranged(src'[s]) /\ Unplayed(s)' /\ Rendered(s)'
    BY <1>4 DEF HeardInv
  <2>3. s \in Source /\ Arranged(src[s]) /\ Unplayed(s) /\ Rendered(s)
    BY <1>3 DEF HeardInv
  <2>4. Arranged(src'[s]) /\ Unplayed(s)'
    BY <1>1, <2>1, <2>3, StillUnplayed
  <2>5. Rendered(s)'
    BY <1>1, <2>1, <2>3 DEF Rendered, Picked
  <2> QED  BY <2>4, <2>5
<1>5. CASE ~Passed
  <2>1. /\ mix' = [s \in Root |-> Added(s)]
        /\ lastHeard' = [s \in Source |->
             IF s \in Root THEN LastBefore(mix'[s], Frames + 1, lastHeard[s]) ELSE lastHeard[s]]
        /\ cut' = cut \ {s \in Root : \E i \in 1..Frames : mix'[s][i].n # 0}
    BY <1>5 DEF Mix
  <2>2. NextHeard = ts /\ NextHeard' = ts + Frames
    BY <1>2, <1>5
  <2>3. SUFFICES ASSUME NEW s \in Root
                 PROVE  Arranged(src'[s]) /\ Unplayed(s)' /\ Rendered(s)' /\ InOrder(s)
    BY DEF HeardInv
  <2>4. s \in Source /\ Arranged(src[s]) /\ Unplayed(s) /\ Rendered(s)
    BY <1>3 DEF HeardInv
  <2> DEFINE a == src[s]
             q == peeked[s]
             h == lastHeard[s]
             added == Added(s)
  <2>5. /\ mix'[s] = added /\ lastHeard'[s] = LastBefore(added, Frames + 1, h)
        /\ s \in cut' <=> s \in cut /\ \A i \in 1..Frames : added[i].n = 0
    BY <2>1, <2>4
  <2>6. added \in Seq(SampleFrame) /\ q \in Seq(SampleFrame) /\ a \in SourceState
    BY <1>1, <2>4, AddedIs DEF MixTypes
  <2>7. /\ h \in Nat /\ h <= a.n
        /\ \A j \in 1..Len(a.buf) : a.buf[j].n # 0 /\ a.audioTs + j - 1 >= ts => a.buf[j].n > h
        /\ a.audioTs # 0 /\ a.audioTs >= ts =>
             IF a.buf = <<>> THEN a.lost = a.n \/ h = a.n \/ s \in cut ELSE Joins(s, a.buf[1])
    BY <2>2, <2>4 DEF Unplayed
  <2>8. \/ (\A k \in 1..Frames : added[k].n = 0) /\ lastHeard'[s] = h
        \/ \E k \in 1..Frames : /\ added[k].n # 0 /\ lastHeard'[s] = added[k].n /\ \A j \in k + 1..Frames : added[j].n = 0
    <3>1. Frames + 1 \in Nat /\ Frames + 1 > 0 /\ (Frames + 1) - 1 = Frames
      BY <1>3
    <3> HIDE DEF added, h
    <3> DEFINE l == LastBefore(added, Frames + 1, h)
    <3>2. \/ (\A k \in 1..((Frames + 1) - 1) : added[k].n = 0) /\ l = h
          \/ \E k \in 1..((Frames + 1) - 1) : /\ added[k].n # 0 /\ l = added[k].n
                                              /\ \A j \in k + 1..((Frames + 1) - 1) : added[j].n = 0
      BY <2>6, <3>1, LastBeforeIs
    <3> HIDE DEF l
    <3>3. lastHeard'[s] = l
      BY <2>5 DEF l
    <3> QED  BY <3>1, <3>2, <3>3
  <2>9. a.audioTs \in Nat /\ a.n \in Nat /\ Len(a.buf) \in Nat
    BY <2>6 DEF SourceState
  <2>10. Arranged(src'[s])
    BY <1>1, <2>4
  <2>11. ~a.pending => Picked(s)' /\ a.audioTs # 0
    BY <1>1, <2>4 DEF Rendered, Picked
  <2>12. CASE (\A i \in 1..Frames : added[i].n = 0) /\ (a.pending \/ a.audioTs < ts \/ a.audioTs >= ts + Frames)
    <3>1. lastHeard'[s] = h /\ (s \in cut' <=> s \in cut)
      BY <2>5, <2>8, <2>12
    <3>2. InOrder(s)
      BY <2>5, <2>12 DEF InOrder
    <3>3. Unplayed(s)'
      <4>1. \A j \in 1..Len(a.buf) : a.buf[j].n # 0 /\ a.audioTs + j - 1 >= ts + Frames => a.buf[j].n > h
        BY <1>3, <2>7, <2>9
      <4>2. a.audioTs >= ts + Frames => a.audioTs >= ts
        BY <1>3, <2>9
      <4> QED  BY <1>1, <2>2, <2>7, <3>1, <4>1, <4>2 DEF Unplayed, Joins
    <3>4. Rendered(s)'
      <4>1. ~a.pending => LastMixed(s)'
        BY <1>1, <1>3, <2>9, <2>12 DEF LastMixed
      <4> QED  BY <1>1, <2>11, <4>1 DEF Rendered
    <3> QED  BY <2>10, <3>2, <3>3, <3>4
  <2>13. ASSUME ~a.pending, ts <= a.audioTs, a.audioTs < ts + Frames, NEW start \in Nat, NEW m \in Nat,
                AddedFrames(s, added, start, m)
         PROVE  Unplayed(s)' /\ Rendered(s)' /\ InOrder(s)
    <3>1. /\ Picked(s) /\ Unmixed(s) /\ a.audioTs # 0
      BY <1>1, <2>4, <2>13 DEF Rendered
    <3>2. /\ \A j \in 1..Len(a.buf) : a.buf[j].n # 0 => \A i \in 1..Frames : i < j => q[i].n < a.buf[j].n
          /\ \A i \in 1..Frames : q[i].n # 0 => q[i].n > h
          /\ Joins(s, q[1])
          /\ Len(q) = Frames /\ \A i \in 1..Frames : q[i].n <= a.n
      BY <2>2, <2>13, <3>1 DEF Unmixed, Picked
    <3>3. /\ start + m = Frames /\ m > 0 /\ m = Taken(a)
          /\ \A i \in 1..start : added[i].n = 0
          /\ \A i \in start + 1..Frames : i - start \in 1..m /\ added[i].n = q[i - start].n
      BY <2>13 DEF AddedFrames
    <3>4. m = Frames - (a.audioTs - ts) /\ ts + Frames = a.audioTs + m
      <4>1. m = Frames - (a.audioTs - ts)
        BY <3>3 DEF Taken
      <4> QED  BY <1>3, <2>9, <4>1
    <3>5. \A i \in 1..Frames : q[i].n \in Nat
      BY <2>6, <3>2, FramesAre
    <3>6. InOrder(s)
      <4>1. \A i \in 1..Frames : added[i].n # 0 => LET before == LastBefore(added, i, h)
              IN added[i].n > before /\ (added[i].n = before + 1 \/ added[i].new \/ s \in cut)
        <5>1. TAKE i \in 1..Frames
        <5>2. HAVE added[i].n # 0
        <5> HIDE DEF added
        <5> QED  BY <1>3, <2>4, <2>6, <2>7, <2>13, <3>1, <3>2, <5>2, MixedInOrder
      <4> QED  BY <2>5, <4>1 DEF InOrder
    <3> HIDE DEF added, q, h, a
    <3>7. \/ lastHeard'[s] = h
          \/ \E k \in 1..m : lastHeard'[s] = q[k].n
      <4>1. ASSUME NEW k \in 1..Frames, added[k].n # 0, lastHeard'[s] = added[k].n
            PROVE  \E i \in 1..m : lastHeard'[s] = q[i].n
        <5>1. k \in start + 1..Frames
          BY <1>3, <3>3, <4>1
        <5> QED  BY <3>3, <4>1, <5>1
      <4> QED  BY <2>8, <4>1
    <3>8. lastHeard'[s] \in Nat /\ lastHeard'[s] <= a.n
      <4>1. \A k \in 1..m : k \in 1..Frames
        BY <1>3, <3>3
      <4> QED  BY <2>7, <3>2, <3>5, <3>7, <4>1
    <3>9. ASSUME NEW j \in 1..Len(a.buf), a.buf[j].n # 0, a.audioTs + j - 1 >= ts + Frames
          PROVE  a.buf[j].n > lastHeard'[s]
      <4>1. j > m /\ a.audioTs + j - 1 >= ts
        BY <1>3, <2>9, <3>4, <3>9
      <4>2. a.buf[j].n > h
        BY <2>7, <3>9, <4>1
      <4>3. \A k \in 1..m : k \in 1..Frames /\ k < j
        BY <1>3, <3>3, <4>1
      <4>4. \A k \in 1..m : q[k].n < a.buf[j].n
        BY <3>2, <3>9, <4>3
      <4>5. a.buf[j].n \in Nat
        BY <2>6, FramesAre DEF SourceState
      <4>6. \A k \in 1..m : q[k].n \in Nat
        BY <3>5, <4>3
      <4> QED  BY <2>7, <3>7, <4>2, <4>4, <4>5, <4>6
    <3>10. ~(a.audioTs >= ts + Frames)
      BY <1>3, <2>9, <2>13
    <3>11. Unplayed(s)'
      BY <1>1, <2>2, <3>8, <3>9, <3>10 DEF Unplayed, a
    <3>12. Rendered(s)'
      <4>1. q[m].n # 0 => lastHeard'[s] = q[m].n
        <5>1. Frames \in start + 1..Frames /\ Frames - start = m
          BY <1>3, <3>3
        <5>2. added[Frames].n = q[m].n
          BY <3>3, <5>1
        <5>3. ASSUME NEW k \in 1..Frames, added[k].n # 0, lastHeard'[s] = added[k].n,
                     \A j \in k + 1..Frames : added[j].n = 0, q[m].n # 0
              PROVE  k = Frames
          <6>1. k # Frames => Frames \in k + 1..Frames
            BY <1>3
          <6> QED  BY <5>2, <5>3, <6>1
        <5>4. Frames \in 1..Frames
          BY <1>3
        <5> QED  BY <2>8, <5>2, <5>3, <5>4
      <4>2. LastMixed(s)'
        <5>1. src' = src /\ ts' = ts /\ peeked' = peeked
          BY <1>1
        <5>2. Frames - (src'[s].audioTs - ts') = m
          BY <3>4, <5>1, <3>3, <2>9, <1>3 DEF a
        <5> QED  BY <4>1, <5>1, <5>2 DEF LastMixed, Taken, q
      <4> QED  BY <1>1, <2>11, <4>2 DEF Rendered, a
    <3> QED  BY <3>6, <3>11, <3>12
  <2>14. \/ (\A i \in 1..Frames : added[i].n = 0) /\ (a.pending \/ a.audioTs < ts \/ a.audioTs >= ts + Frames)
         \/ /\ ~a.pending /\ ts <= a.audioTs /\ a.audioTs < ts + Frames
            /\ \E start \in Nat, m \in Nat : AddedFrames(s, added, start, m)
    BY <1>1, <2>4, AddedShape
  <2> QED  BY <2>10, <2>12, <2>13, <2>14
<1> QED  BY <1>4, <1>5

-----------------------------------------------------------------------------
(* What a discard leaves of a buffer: all of it, none of it, or what is    *)
(* behind the frames that the block took.                                  *)
Leaves(a, d, k) ==
  \/ d.buf = a.buf /\ d.audioTs = a.audioTs
  \/ d.buf = <<>> /\ d.audioTs = 0
  \/ d.buf = <<>> /\ a.buf # <<>> /\ a.audioTs < ts
  \/ /\ k = Taken(a) /\ ts <= a.audioTs /\ a.audioTs < ts + Frames /\ d.audioTs = a.audioTs + k
     /\ Len(d.buf) + k = Len(a.buf) /\ \A i \in 1..Len(d.buf) : d.buf[i] = a.buf[i + k]

LEMMA ClearedLeaves ==
  ASSUME NEW a \in SourceState
  PROVE  /\ Cleared(a).n = a.n /\ Cleared(a).lost = a.lost
         /\ \/ Cleared(a).buf = <<>> /\ Cleared(a).audioTs = 0
            \/ Cleared(a).buf = a.buf /\ Cleared(a).audioTs = a.audioTs
         /\ ~Stopped(a) => Cleared(a).buf = a.buf /\ Cleared(a).audioTs = a.audioTs
<1>1. CASE a.buf = <<>>
  BY <1>1 DEF Cleared
<1>2. CASE a.buf # <<>> /\ Stopped(a)
  <2>1. Cleared(a) = [a EXCEPT !.buf = <<>>, !.audioTs = 0, !.lastSize = 0]
    BY <1>2 DEF Cleared
  <2> QED  BY <1>2, <2>1 DEF SourceState
<1>3. CASE a.buf # <<>> /\ ~Stopped(a)
  <2>1. Cleared(a) = [a EXCEPT !.lastSize = Len(a.buf)]
    BY <1>3 DEF Cleared
  <2> QED  BY <1>3, <2>1 DEF SourceState
<1> QED  BY <1>1, <1>2, <1>3

LEMMA DiscardLeaves ==
  ASSUME MixTypes, NEW a \in SourceState
  PROVE  LET d == Discarded(a) IN
         d.n = a.n /\ d.lost = a.lost /\ \E k \in 1..Frames : Leaves(a, d, k)
<1>1. Frames \in Nat /\ Frames > 0 /\ ts \in Int /\ a.audioTs \in Nat /\ a.buf \in Seq(SampleFrame)
  BY NextHeardIs DEF SourceState
<1>2. Frames \in 1..Frames
  BY <1>1
<1>3. CASE a.audioTs >= ts + Frames
  <2>1. Discarded(a) = a
    BY <1>3 DEF Discarded
  <2> QED  BY <1>2, <2>1 DEF Leaves
<1>4. CASE ~(a.audioTs >= ts + Frames) /\ a.audioTs < ts
  <2> DEFINE b == IF a.pending /\ Len(a.buf) < Frames THEN Cleared(a) ELSE a
             stop == a.pending /\ Len(a.buf) < Frames /\ Stopped(a)
  <2>1. Discarded(a) = IF stop THEN Cleared(a) ELSE IF ticks = MaxTicks THEN Ignored(b) ELSE b
    BY <1>4 DEF Discarded
  <2>2. CASE stop
    <3>1. Discarded(a) = Cleared(a)
      BY <2>1, <2>2
    <3> QED  BY <1>2, <3>1, ClearedLeaves DEF Leaves
  <2>3. CASE ~stop
    <3>1. b.n = a.n /\ b.lost = a.lost /\ b.buf = a.buf /\ b.audioTs = a.audioTs
      <4>1. CASE a.pending /\ Len(a.buf) < Frames
        <5>1. ~Stopped(a) /\ b = Cleared(a)
          BY <2>3, <4>1
        <5> HIDE DEF b
        <5> QED  BY <5>1, ClearedLeaves
      <4>2. CASE ~(a.pending /\ Len(a.buf) < Frames)
        BY <4>2
      <4> QED  BY <4>1, <4>2
    <3>2. b \in SourceState
      <4>1. b = a \/ b = Cleared(a)
        OBVIOUS
      <4>2. Cleared(a) \in SourceState
        <5>1. <<>> \in Seq(SampleFrame) /\ Len(a.buf) \in Nat
          BY <1>1
        <5> QED  BY <5>1 DEF Cleared, SourceState
      <4> HIDE DEF b
      <4> QED  BY <4>1, <4>2
    <3> HIDE DEF b, stop
    <3>3. CASE ticks # MaxTicks
      <4>1. Discarded(a) = b
        BY <2>1, <2>3, <3>3
      <4> QED  BY <1>2, <3>1, <4>1 DEF Leaves
    <3>4. CASE ticks = MaxTicks
      <4>1. Discarded(a) = Ignored(b)
        BY <2>1, <2>3, <3>4
      <4>2. CASE b.buf = <<>>
        <5>1. Ignored(b) = b
          BY <4>2 DEF Ignored
        <5> QED  BY <1>2, <3>1, <4>1, <5>1 DEF Leaves
      <4>3. CASE b.buf # <<>>
        <5>1. Ignored(b) = [b EXCEPT !.buf = <<>>, !.lastSize = 0, !.audioTs = @ + Len(b.buf)]
          BY <4>3 DEF Ignored
        <5>2. Ignored(b).buf = <<>> /\ Ignored(b).n = b.n /\ Ignored(b).lost = b.lost
          BY <3>2, <5>1 DEF SourceState
        <5> QED  BY <1>2, <1>4, <3>1, <4>1, <4>3, <5>2 DEF Leaves
      <4> QED  BY <4>2, <4>3
    <3> QED  BY <3>3, <3>4
  <2> QED  BY <2>2, <2>3
<1>5. CASE ~(a.audioTs >= ts + Frames) /\ ~(a.audioTs < ts) /\ Len(a.buf) < Taken(a)
  <2>1. Discarded(a) = Cleared(a)
    BY <1>5 DEF Discarded
  <2> QED  BY <1>2, <2>1, ClearedLeaves DEF Leaves
<1>6. CASE ~(a.audioTs >= ts + Frames) /\ ~(a.audioTs < ts) /\ ~(Len(a.buf) < Taken(a))
  <2>1. PICK k \in 1..Frames : k = Taken(a) /\ ts + Frames = a.audioTs + k
    <3>1. Frames - (a.audioTs - ts) \in 1..Frames
      BY <1>1, <1>6
    <3> QED  BY <1>1, <3>1 DEF Taken
  <2>2. PICK L \in Nat, M \in Nat : L = Len(a.buf) /\ k <= L /\ M + k = L /\ L - k = M
    <3>1. PICK L \in Nat : L = Len(a.buf)
      BY <1>1
    <3>2. k <= L
      BY <1>1, <1>6, <2>1, <3>1
    <3>3. L - k \in Nat /\ (L - k) + k = L
      BY <1>1, <3>2
    <3> QED  BY <3>1, <3>2, <3>3
  <2> DEFINE x == SubSeq(a.buf, k + 1, L)
             e == ts + Frames
  <2>3. Len(x) = M /\ \A i \in 1..M : x[i] = a.buf[i + k]
    BY <1>1, <2>2, SubSeqProperties
  <2>4. Discarded(a) = [a EXCEPT !.buf = x, !.lastSize = 0, !.audioTs = e]
    BY <1>6, <2>1, <2>2 DEF Discarded
  <2> HIDE DEF x
  <2>5. Discarded(a).buf = x /\ Discarded(a).audioTs = e /\ Discarded(a).n = a.n /\ Discarded(a).lost = a.lost
    BY <2>4 DEF SourceState
  <2>6. ts <= a.audioTs /\ a.audioTs < ts + Frames
    BY <1>1, <1>6
  <2> QED  BY <2>1, <2>2, <2>3, <2>5, <2>6 DEF Leaves
<1> QED  BY <1>3, <1>4, <1>5, <1>6

(* What is behind the frames that were taken is arranged as it was.        *)
LEMMA ShortenedArranged ==
  ASSUME NEW a \in SourceState, NEW d \in SourceState, Arranged(a), d.n = a.n, d.lost = a.lost, NEW k \in Nat,
         Len(d.buf) + k = Len(a.buf), \A i \in 1..Len(d.buf) : d.buf[i] = a.buf[i + k]
  PROVE  Arranged(d)
<1>1. PICK L \in Nat, M \in Nat : L = Len(a.buf) /\ M = Len(d.buf) /\ M + k = L
  <2>1. Len(a.buf) \in Nat /\ Len(d.buf) \in Nat
    BY SMTT(30) DEF SourceState
  <2> QED  BY <2>1
<1>2. /\ \A j \in 1..L : a.buf[j].n # 0 => \A i \in 1..(j - 1) : a.buf[i].n < a.buf[j].n
      /\ \A j \in 2..L : a.buf[j].n # 0 /\ ~a.buf[j].new => a.buf[j - 1].n # 0 /\ a.buf[j].n = a.buf[j - 1].n + 1
      /\ \A j \in 1..L : a.buf[j].n <= a.n
      /\ a.buf # <<>> => a.buf[L].n # 0 /\ (a.buf[L].n = a.n \/ a.lost = a.n)
  BY <1>1 DEF Arranged, Rising, Follows
<1>3. \A i \in 1..M : i + k \in 1..L /\ d.buf[i] = a.buf[i + k]
  BY <1>1
<1>4. Rising(d.buf)
  <2>1. SUFFICES ASSUME NEW j \in 1..M, d.buf[j].n # 0, NEW i \in 1..(j - 1) PROVE d.buf[i].n < d.buf[j].n
    BY <1>1 DEF Rising
  <2>2. i \in 1..M /\ i + k \in 1..((j + k) - 1) /\ j + k \in 1..L
    BY <1>1
  <2>3. d.buf[j] = a.buf[j + k] /\ d.buf[i] = a.buf[i + k]
    BY <1>3, <2>2
  <2>4. a.buf[i + k].n < a.buf[j + k].n
    BY <1>2, <2>1, <2>2, <2>3
  <2> QED  BY <2>3, <2>4
<1>5. Follows(d.buf)
  <2>1. SUFFICES ASSUME NEW j \in 2..M, d.buf[j].n # 0, ~d.buf[j].new
                 PROVE  d.buf[j - 1].n # 0 /\ d.buf[j].n = d.buf[j - 1].n + 1
    BY <1>1 DEF Follows
  <2>2. j \in 1..M /\ j - 1 \in 1..M /\ j + k \in 2..L /\ (j - 1) + k = (j + k) - 1
    BY <1>1
  <2>3. d.buf[j] = a.buf[j + k] /\ d.buf[j - 1] = a.buf[(j + k) - 1]
    BY <1>3, <2>2
  <2> QED  BY <1>2, <2>1, <2>2, <2>3
<1>6. \A i \in 1..M : d.buf[i].n <= d.n
  BY <1>2, <1>3
<1>7. d.buf # <<>> => d.buf[M].n # 0 /\ (d.buf[M].n = d.n \/ d.lost = d.n)
  <2>1. SUFFICES ASSUME d.buf # <<>> PROVE d.buf[M].n # 0 /\ (d.buf[M].n = d.n \/ d.lost = d.n)
    OBVIOUS
  <2>2. M > 0
    BY <1>1, <2>1, EmptySeq DEF SourceState
  <2>3. M \in 1..M /\ a.buf # <<>>
    BY <1>1, <2>2
  <2> QED  BY <1>1, <1>2, <1>3, <2>3
<1> QED  BY <1>1, <1>4, <1>5, <1>6, <1>7 DEF Arranged

(* Frames that were taken unheard cut the stream; otherwise the last of    *)
(* them was the last that was heard.                                       *)
LEMMA DiscardHeard ==
  ASSUME MixTypes, Timed, Windows, Delivery, HeardInv, Discard
  PROVE  HeardInv'
<1>1. /\ stage = "discard" /\ stage' = "sleep" /\ lastHeard' = lastHeard /\ peeked' = peeked
      /\ src' = [s \in Source |-> Discarded(src[s])]
      /\ cut' = cut \cup {s \in Source : Len(src'[s].buf) < Len(src[s].buf) /\ Unheard(s)}
  BY DEF Discard, history
<1>2. NextHeard' = NextHeard /\ src' \in [Source -> SourceState]
  <2>1. ts > -Frames
    BY <1>1 DEF Windows
  <2> QED  BY <2>1, DiscardWindows, DiscardKeeps
<1>3. NextHeard \in Int /\ Frames \in Nat /\ Frames > 0 /\ ts \in Int /\ Root \subseteq Source
  BY NextHeardIs
<1>4. SUFFICES ASSUME NEW s \in Root PROVE Arranged(src'[s]) /\ Unplayed(s)'
  BY <1>1 DEF HeardInv, Rendered
<1>5. /\ s \in Source /\ src[s] \in SourceState /\ src'[s] \in SourceState /\ peeked[s] \in Seq(SampleFrame)
      /\ Arranged(src[s]) /\ Unplayed(s) /\ Rendered(s)
  BY <1>2, <1>3 DEF HeardInv, MixTypes
<1> DEFINE a == src[s]
           d == src'[s]
           q == peeked[s]
           h == lastHeard[s]
           H == NextHeard
<1>6. d.n = a.n /\ d.lost = a.lost /\ \E k \in 1..Frames : Leaves(a, d, k)
  BY <1>1, <1>5, DiscardLeaves
<1>7. s \in cut' <=> s \in cut \/ (Len(d.buf) < Len(a.buf) /\ Unheard(s))
  BY <1>1, <1>5
<1>8. /\ h \in Nat /\ h <= a.n
      /\ \A j \in 1..Len(a.buf) : a.buf[j].n # 0 /\ a.audioTs + j - 1 >= H => a.buf[j].n > h
      /\ a.audioTs # 0 /\ a.audioTs >= H =>
           IF a.buf = <<>> THEN a.lost = a.n \/ h = a.n \/ s \in cut ELSE Joins(s, a.buf[1])
  BY <1>5 DEF Unplayed
<1>9. /\ a.audioTs \in Nat /\ a.n \in Nat /\ a.buf \in Seq(SampleFrame) /\ Len(a.buf) \in Nat
      /\ d.audioTs \in Nat /\ d.buf \in Seq(SampleFrame) /\ Len(d.buf) \in Nat
  <2>1. a \in SourceState /\ d \in SourceState
    BY <1>5
  <2> HIDE DEF a, d
  <2>2. a.audioTs \in Nat /\ a.n \in Nat /\ a.buf \in Seq(SampleFrame) /\ d.audioTs \in Nat /\ d.buf \in Seq(SampleFrame)
    BY <2>1 DEF SourceState
  <2> QED  BY <2>2
<1>10. SUFFICES
         /\ Arranged(d)
         /\ \A j \in 1..Len(d.buf) : d.buf[j].n # 0 /\ d.audioTs + j - 1 >= H => d.buf[j].n > h
         /\ d.audioTs # 0 /\ d.audioTs >= H =>
              IF d.buf = <<>> THEN d.lost = d.n \/ h = d.n \/ s \in cut'
              ELSE d.buf[1].n # 0 => d.buf[1].new \/ d.buf[1].n = h + 1 \/ s \in cut'
  BY <1>1, <1>2, <1>6, <1>8 DEF Unplayed, Joins
<1> HIDE DEF H, h, q, d, a
<1>11. CASE d.buf = a.buf /\ d.audioTs = a.audioTs
  <2>1. Arranged(d)
    BY <1>5, <1>6, <1>11 DEF Arranged, a
  <2>2. a.audioTs # 0 /\ a.audioTs >= H /\ a.buf # <<>> =>
          (a.buf[1].n # 0 => a.buf[1].new \/ a.buf[1].n = h + 1 \/ s \in cut)
    BY <1>8 DEF Joins, h
  <2> QED  BY <1>6, <1>7, <1>8, <1>11, <2>1, <2>2
<1>12. ASSUME d.buf = <<>>
       PROVE  Arranged(d) /\ Len(d.buf) = 0
  BY <1>12 DEF Arranged, Rising, Follows
<1>13. CASE d.buf = <<>> /\ d.audioTs = 0
  BY <1>12, <1>13
<1>14. CASE d.buf = <<>> /\ a.buf # <<>> /\ a.audioTs < ts
  <2>1. Len(a.buf) > 0
    BY <1>9, <1>14, EmptySeq
  <2>2. s \in cut'
    BY <1>7, <1>12, <1>14, <2>1 DEF Unheard, a
  <2> QED  BY <1>12, <1>14, <2>2
<1>15. ASSUME NEW k \in 1..Frames, k = Taken(a), ts <= a.audioTs, a.audioTs < ts + Frames, d.audioTs = a.audioTs + k,
              Len(d.buf) + k = Len(a.buf), \A i \in 1..Len(d.buf) : d.buf[i] = a.buf[i + k]
       PROVE  /\ Arranged(d)
              /\ \A j \in 1..Len(d.buf) : d.buf[j].n # 0 /\ d.audioTs + j - 1 >= H => d.buf[j].n > h
              /\ IF d.buf = <<>> THEN d.lost = d.n \/ h = d.n \/ s \in cut'
                 ELSE d.buf[1].n # 0 => d.buf[1].new \/ d.buf[1].n = h + 1 \/ s \in cut'
  <2>1. PICK L \in Nat, M \in Nat : L = Len(a.buf) /\ M = Len(d.buf) /\ M + k = L /\ k <= L /\ k \in Nat /\ k > 0
    BY <1>9, <1>15
  <2>2. Arranged(d)
    <3>1. a \in SourceState /\ d \in SourceState /\ Arranged(a)
      BY <1>5 DEF a, d
    <3> QED  BY <1>6, <1>15, <2>1, <3>1, ShortenedArranged
  <2>3. ASSUME NEW j \in 1..M, d.buf[j].n # 0, d.audioTs + j - 1 >= H
        PROVE  d.buf[j].n > h
    <3>1. j + k \in 1..Len(a.buf) /\ d.buf[j] = a.buf[j + k] /\ a.audioTs + (j + k) - 1 = d.audioTs + j - 1
      BY <1>9, <1>15, <2>1, SMTT(30)
    <3> QED  BY <1>8, <2>3, <3>1
  <2>4. CASE Unheard(s)
    <3>1. s \in cut'
      BY <1>7, <2>1, <2>4
    <3> QED  BY <2>1, <2>2, <2>3, <3>1
  <2>5. CASE ~Unheard(s)
    <3>1. wait <= 0 /\ ~a.pending /\ IsPrefix(q, a.buf)
      BY <2>5, <1>3 DEF Unheard, a, q, MixTypes, MixTypeOK
    <3>2. Delivered
      <4>1. wait \in Nat
        BY MixSizesAre DEF MixTypes, MixTypeOK
      <4> QED  BY <1>1, <3>1, <4>1 DEF Delivered
    <3>3. Len(q) = Frames /\ (Renewed(s) \/ LastMixed(s))
      BY <1>1, <1>5, <3>1, <3>2 DEF Rendered, Picked, a, q
    <3>4. q[k] = a.buf[k]
      <4>1. Frames <= L /\ SubSeq(q, 1, Frames) = SubSeq(a.buf, 1, Frames) /\ k <= Frames
        BY <1>3, <2>1, <3>1, <3>3 DEF IsPrefix
      <4>2. SubSeq(q, 1, Frames)[k] = q[k] /\ SubSeq(a.buf, 1, Frames)[k] = a.buf[k]
        <5>1. q \in Seq(SampleFrame) /\ Frames \in 0..Len(q) /\ Frames \in 0..Len(a.buf)
          BY <1>3, <1>5, <2>1, <3>3, <4>1 DEF q
        <5> QED  BY <1>3, <1>9, <5>1
      <4> QED  BY <4>1, <4>2
    <3>5. a.buf[k].n \in Nat /\ k \in 1..L
      <4>1. k \in 1..L
        BY <2>1
      <4>2. k \in 1..Len(a.buf)
        BY <2>1, <4>1
      <4> QED  BY <1>9, <4>1, <4>2, FramesAre
    <3>6. a.buf[k].n # 0 => h = a.buf[k].n
      <4>1. CASE Renewed(s)
        <5>1. a.buf[k].n # 0 => q[k].n < a.buf[k].n
          BY <2>1, <3>5, <4>1 DEF Renewed, a, q
        <5> QED  BY <3>4, <3>5, <5>1
      <4>2. CASE LastMixed(s)
        BY <1>15, <3>4, <4>2 DEF LastMixed, a, q, h
      <4> QED  BY <3>3, <4>1, <4>2
    <3>7. /\ \A j \in 2..L : a.buf[j].n # 0 /\ ~a.buf[j].new => a.buf[j - 1].n # 0 /\ a.buf[j].n = a.buf[j - 1].n + 1
          /\ a.buf # <<>> => a.buf[L].n # 0 /\ (a.buf[L].n = a.n \/ a.lost = a.n)
      BY <1>5, <2>1 DEF Arranged, Follows, a
    <3>8. CASE d.buf = <<>>
      <4>1. k = L /\ a.buf # <<>>
        BY <2>1, <3>8
      <4>2. d.lost = d.n \/ h = d.n
        BY <1>6, <3>6, <3>7, <4>1
      <4> QED  BY <2>1, <2>2, <2>3, <3>8, <4>2
    <3>9. CASE d.buf # <<>>
      <4>1. M > 0
        BY <1>9, <2>1, <3>9, EmptySeq
      <4>2. d.buf[1] = a.buf[k + 1] /\ k + 1 \in 2..L /\ (k + 1) - 1 = k
        <5>1. 1 \in 1..Len(d.buf) /\ 1 + k = k + 1 /\ k + 1 \in 2..L /\ (k + 1) - 1 = k
          BY <2>1, <4>1
        <5> QED  BY <1>15, <5>1
      <4>3. d.buf[1].n # 0 => d.buf[1].new \/ d.buf[1].n = h + 1
        BY <3>6, <3>7, <4>2
      <4> QED  BY <2>1, <2>2, <2>3, <3>9, <4>3
    <3> QED  BY <3>8, <3>9
  <2> QED  BY <2>4, <2>5
<1> QED  BY <1>6, <1>11, <1>12, <1>13, <1>14, <1>15 DEF Leaves

LEMMA HeardInit ==
  ASSUME MixInit
  PROVE  HeardInv
<1>1. /\ stage = "sleep" /\ lastHeard = [s \in Source |-> 0]
      /\ src = [s \in Source |-> [audioTs |-> 0, buf |-> <<>>, pending |-> FALSE, lastSize |-> 0, nextTs |-> 0,
                                  nextSysTs |-> 0, offset |-> 0, n |-> 0, end |-> 0, lost |-> 0,
                                  taken |-> 0, reset |-> FALSE]]
  BY DEF MixInit
<1>2. SUFFICES ASSUME NEW s \in Root PROVE Arranged(src[s]) /\ Unplayed(s) /\ Rendered(s)
  BY DEF HeardInv
<1>3. /\ lastHeard[s] = 0 /\ src[s].audioTs = 0 /\ src[s].buf = <<>> /\ Len(<<>>) = 0 /\ src[s].n = 0
  BY <1>1, MixConstants
<1>4. Arranged(src[s])
  BY <1>3 DEF Arranged, Rising, Follows
<1>5. Unplayed(s)
  BY <1>3 DEF Unplayed
<1> QED  BY <1>1, <1>4, <1>5 DEF Rendered

LEMMA HeardStep ==
  ASSUME MixInv, HeardInv, [MixNext]_mixVars
  PROVE  HeardInv' /\ (out' # out => \A s \in Root : InOrder(s))
<1>1. MixTypes /\ Timed /\ Windows /\ Delivery
  BY DEF MixInv
<1>2. ASSUME NEW s \in Source, NEW length \in Length, NEW late \in Lateness[s],
             NEW offset \in SyncOffset[s], Output(s, length, late, offset)
      PROVE  HeardInv' /\ out' = out
  <2>1. out' = out
    BY <1>2 DEF Output, history
  <2> QED  BY <1>1, <1>2, <2>1, OutputHeard
<1>3. ASSUME Render
      PROVE  HeardInv' /\ out' = out
  <2>1. out' = out
    BY <1>3 DEF Render, history
  <2> QED  BY <1>1, <1>3, <2>1, RenderHeard
<1>4. ASSUME Measure
      PROVE  HeardInv' /\ out' = out
  <2>1. out' = out
    BY <1>4 DEF Measure, history
  <2> QED  BY <1>1, <1>4, <2>1, MeasureHeard
<1>5. ASSUME Mix
      PROVE  HeardInv' /\ (out' # out => \A s \in Root : InOrder(s))
  <2>1. Passed => out' = out
    BY <1>5 DEF Mix, history
  <2> QED  BY <1>1, <1>5, <2>1, MixHeard
<1>6. ASSUME Discard
      PROVE  HeardInv' /\ out' = out
  <2>1. out' = out
    BY <1>6 DEF Discard, history
  <2> QED  BY <1>1, <1>6, <2>1, DiscardHeard
<1>7. ASSUME Advance \/ UNCHANGED mixVars
      PROVE  HeardInv' /\ out' = out
  <2>1. UNCHANGED <<src, stage, next, windows, wait, ts, peeked, lastHeard, cut, out>>
    BY <1>7 DEF Advance, mixVars, mixer, history
  <2>2. NextHeard' = NextHeard /\ Delivered' = Delivered
    BY <2>1 DEF NextHeard, FirstDue, Delivered
  <2>3. SUFFICES ASSUME NEW s \in Root PROVE Arranged(src'[s]) /\ Unplayed(s)' /\ Rendered(s)'
    BY <2>1 DEF HeardInv
  <2>4. s \in Source /\ Arranged(src[s]) /\ Unplayed(s) /\ Rendered(s)
    BY MixConstants DEF HeardInv
  <2>5. Arranged(src'[s]) /\ Unplayed(s)'
    BY <2>1, <2>2, <2>4, StillUnplayed
  <2>6. Rendered(s)'
    BY <2>1, <2>2, <2>4 DEF Rendered, Picked, Unmixed, Renewed, LastMixed, Joins, Taken
  <2> QED  BY <2>5, <2>6
<1> QED  BY <1>2, <1>3, <1>4, <1>5, <1>6, <1>7 DEF MixNext

(* A listener hears the frames of a source in order, and no frame is       *)
(* missing between two that are heard, but where its block was placed anew *)
(* or the audio thread threw frames away unheard (cut): whatever the       *)
(* source puts out between the peek of obs_source_audio_render, the mix    *)
(* and discard_audio, and however often blocks are passed over.            *)
THEOREM HeardFramesInOrder == MixSpec => HeardInOrder
<1>1. MixInit => HeardInv
  BY HeardInit
<1>2. MixInv /\ HeardInv /\ [MixNext]_mixVars => HeardInv'
  BY HeardStep
<1>3. MixInv /\ HeardInv /\ [MixNext]_mixVars =>
        [out' # out => \A s \in Root, i \in 1..Frames :
           LET f == mix'[s][i]
               before == LastBefore(mix'[s], i, lastHeard[s])
           IN f.n # 0 => f.n > before /\ (f.n = before + 1 \/ f.new \/ s \in cut)]_mixVars
  BY HeardStep DEF InOrder
<1> QED  BY <1>1, <1>2, <1>3, MixInvariant, PTL DEF MixSpec, HeardInOrder
=============================================================================
