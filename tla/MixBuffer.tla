----------------------------- MODULE MixBuffer -----------------------------
(***************************************************************************)
(* The linear sample buffer of the audio mixer                             *)
(* (VDPAudioUtils/VDPAudioMixBufferInclude.c and the two readers at the    *)
(* top of "consuming mixed output" in VDPAudioMixer.m).                    *)
(*                                                                         *)
(* A buffer is the C struct as a record.  A float is abstracted to its     *)
(* place in the stream written to the buffer: the k-th sample ever         *)
(* appended is the number k, and 0 is a cell calloc cleared and nothing    *)
(* has overwritten.  sampleData[i] is therefore "which sample lies here",  *)
(* which is all the ordering and loss properties need.                     *)
(***************************************************************************)
EXTENDS Macros

CONSTANTS
    Capacity,       \* cells of sampleData (SAMPLERATE * 10 in the code)
    SampleRate,     \* samples a delay of one time unit stands for
    MinDelay        \* MINDELAY in the same time unit

ASSUME CapacityAssumption == Capacity \in Nat \ {0}
ASSUME DelayAssumption == SampleRate \in Nat \ {0} /\ MinDelay \in Nat

Cells == 0 .. Capacity - 1

VDPAudioMixBuffer ==
    [ sampleData : [Cells -> Nat],
      readPos    : 0 .. Capacity,
      writePos   : 0 .. Capacity,
      totalSamplesWritten : Nat ]

initMixBuffer ==
    [ sampleData |-> [i \in Cells |-> 0],
      readPos |-> 0, writePos |-> 0, totalSamplesWritten |-> 0 ]

-----------------------------------------------------------------------------
(* appendToMixBuffer *)

Accepts(dataLen) == dataLen >= 1 /\ dataLen <= Capacity

IsFull(mb, dataLen) == mb.writePos + dataLen > Capacity

\* (mutant) One sample too many is shed, which splits a stereo frame.
MoveOffsetOneMore(mb, dataLen) ==
    MAX(MIN(mb.readPos, mb.writePos), dataLen + 1)

MoveOffset(mb, dataLen) == MAX(MIN(mb.readPos, mb.writePos), dataLen)

\* (mutant) The slide stops one sample short.
MoveAmountOneLess(mb, dataLen) ==
    LET rest == mb.writePos - MoveOffset(mb, dataLen)
    IN  IF rest < 1 THEN 0 ELSE rest - 1

MoveAmount(mb, dataLen) ==
    LET rest == mb.writePos - MoveOffset(mb, dataLen)
    IN  IF rest < 1 THEN Capacity - MoveOffset(mb, dataLen) ELSE rest

\* (mutant) The read cursor is not moved with the data.
MakeRoomReadStays(mb, dataLen) ==
    LET offset == MoveOffset(mb, dataLen)
        amount == MoveAmount(mb, dataLen)
    IN  [ sampleData |-> [i \in Cells |->
                IF i < amount THEN mb.sampleData[i + offset]
                              ELSE mb.sampleData[i]],
          readPos  |-> mb.readPos,
          writePos |-> MAX(0, mb.writePos - offset),
          totalSamplesWritten |-> mb.totalSamplesWritten ]

\* The memmove that slides the tail of the buffer to its start, and the two
\* cursors that follow it.
MakeRoom(mb, dataLen) ==
    LET offset == MoveOffset(mb, dataLen)
        amount == MoveAmount(mb, dataLen)
    IN  [ sampleData |-> [i \in Cells |->
                IF i < amount THEN mb.sampleData[i + offset]
                              ELSE mb.sampleData[i]],
          readPos  |-> MAX(0, mb.readPos - offset),
          writePos |-> MAX(0, mb.writePos - offset),
          totalSamplesWritten |-> mb.totalSamplesWritten ]

\* The memcpy of the new samples, numbered on from the last one written.
CopyIn(mb, dataLen) ==
    [ sampleData |-> [i \in Cells |->
            IF i >= mb.writePos /\ i < mb.writePos + dataLen
            THEN mb.totalSamplesWritten + 1 + (i - mb.writePos)
            ELSE mb.sampleData[i]],
      readPos  |-> mb.readPos,
      writePos |-> mb.writePos + dataLen,
      totalSamplesWritten |-> mb.totalSamplesWritten + dataLen ]

appendToMixBuffer(mb, dataLen) ==
    IF ~Accepts(dataLen) THEN mb
    ELSE IF IsFull(mb, dataLen) THEN CopyIn(MakeRoom(mb, dataLen), dataLen)
    ELSE CopyIn(mb, dataLen)

-----------------------------------------------------------------------------
(* The readers of VDPAudioMixer.m *)

availableDelayedSamples(mb) == mb.writePos - mb.readPos

delaySamples(delay) == MAX(MinDelay, delay) * SampleRate

HasEnoughDataForDelay(mb, delay, readSize) ==
    availableDelayedSamples(mb) >= delaySamples(delay) + readSize

\* What readFromMixBufferWithDelay returns, and the buffer it leaves behind
\* after handing over that many samples.
ReadCount(mb, delay, dstNumSamples) ==
    IF HasEnoughDataForDelay(mb, delay, dstNumSamples)
    THEN dstNumSamples ELSE 0

AfterRead(mb, count) == [mb EXCEPT !.readPos = mb.readPos + count]

=============================================================================
