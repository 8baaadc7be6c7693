------------------------------ MODULE ShmRing ------------------------------
(***************************************************************************)
(* The shared-memory ring between the audio driver (producer process) and  *)
(* the encoding helper (its consumer thread): VPAudioOutputIPC.c and the   *)
(* polling loop of vp_obs_audio_source.m.                                  *)
(*                                                                         *)
(* Nothing locks the segment.  Either side clears it when it attaches, one *)
(* field after another in any order, also while a call of the other side   *)
(* runs.  A length is computed from two loads, between which that may      *)
(* happen; a compound assignment may use a value loaded before, so that    *)
(* updates can be lost.  Otherwise a step is one C statement.  A statement *)
(* of a read that stores twice (an advance, the passing over of floats) is *)
(* one step: a write could tell only by the reader position and the count, *)
(* its bounds rest on neither, and nothing is claimed of a read that       *)
(* overlaps a write.                                                       *)
(*                                                                         *)
(* With Exclusive, a call of one side never overlaps a call of the other,  *)
(* which leaves the arithmetic of the two functions to be looked at on its *)
(* own.                                                                    *)
(*                                                                         *)
(* The k-th float the producer ever writes is the number k; 0 is memory    *)
(* cleared by memset or never written.                                     *)
(***************************************************************************)
EXTENDS Macros

CONSTANTS
    BufferSize,     \* floats in data[]
    MaxCount,       \* bufSize of the consumer thread: floats it asks for
    BlockSizes,     \* floats in one write of the driver, which the ring can hold
    Word,           \* 2^64: what a negative long becomes when compared with a size_t
    Exclusive,      \* whether calls of the two sides are kept apart
    MaxWritten,     \* bound: floats the producer writes
    MaxLives        \* bound: times each process is started

ASSUME RingConstants ==
    /\ BufferSize \in Nat \ {0} /\ MaxCount \in Nat \ {0}
    /\ BlockSizes \subseteq 1 .. BufferSize
    /\ Word \in Nat /\ Word > 4 * (BufferSize + MaxWritten)
    /\ Exclusive \in BOOLEAN /\ MaxWritten \in Nat /\ MaxLives \in Nat

VARIABLES
    shm,        \* the mapped VPAudioSharedMemData
    created,    \* the segment exists
    w,          \* the producer's registers: pc and locals of one write
    r,          \* the consumer's registers: pc, locals of one read, buf
    lastRead,   \* lastReadSharedMemId
    lives,      \* history: how often each process was started
    written,    \* history: floats written so far
    unread,     \* history: floats stored in data[] and neither read nor discarded
    heard       \* history: the last float copied out by a read

ringVars == <<shm, created, w, r, lastRead, lives, written, unread, heard>>

Slots == 0 .. BufferSize - 1

Fields == {"magic", "msgId", "bufferSize", "writerPosition", "readerPosition",
           "unconsumed", "data"}
Positions == {"writerPosition", "readerPosition", "unconsumed"}

\* The segment after zeros were stored to some of its fields.
Zeroed(fields) ==
    [magic |-> shm.magic /\ "magic" \notin fields,
     msgId |-> IF "msgId" \in fields THEN 0 ELSE shm.msgId,
     bufferSize |-> IF "bufferSize" \in fields THEN 0 ELSE shm.bufferSize,
     writerPosition |-> IF "writerPosition" \in fields THEN 0 ELSE shm.writerPosition,
     readerPosition |-> IF "readerPosition" \in fields THEN 0 ELSE shm.readerPosition,
     unconsumed |-> IF "unconsumed" \in fields THEN 0 ELSE shm.unconsumed,
     data |-> IF "data" \in fields THEN [i \in Slots |-> 0] ELSE shm.data]

\* Which of the fields still to be stored are stored next.  Nobody sees the
\* stores one by one when calls are kept apart.
Stores(todo) == IF Exclusive THEN {todo} ELSE {{f} : f \in todo}

\* A long as the size_t it is converted to in a comparison with bufferSize.
Unsigned(x) == IF x < 0 THEN x + Word ELSE x

\* VPAUDIORINGBUF_ADVANCE: the position after n more floats.
Advanced(p, n) == IF Unsigned(p + n) >= shm.bufferSize THEN 0 ELSE p + n

RingInit ==
    /\ shm = [magic |-> FALSE, msgId |-> 0, bufferSize |-> 0, writerPosition |-> 0,
              readerPosition |-> 0, unconsumed |-> 0, data |-> [i \in Slots |-> 0]]
    /\ created = FALSE
    /\ w = [pc |-> "off", count |-> 0, n1 |-> 0, written |-> 0, load |-> 0,
            size |-> 0, position |-> 0, todo |-> {}]
    /\ r = [pc |-> "off", count |-> 0, n1 |-> 0, consumed |-> 0, load |-> 0,
            size |-> 0, position |-> 0, todo |-> {},
            copied |-> 0, buf |-> [i \in 0 .. MaxCount - 1 |-> 0]]
    /\ lastRead = 0
    /\ lives = [producer |-> 0, consumer |-> 0]
    /\ written = 0
    /\ unread = 0
    /\ heard = 0

WriterMayStep == Exclusive => r.pc \in {"off", "idle"}
ReaderMayStep == Exclusive => w.pc \in {"off", "idle"}

-----------------------------------------------------------------------------
(* Attaching, by either side: the segment is cleared, then its header set. *)

ProducerAttach ==
    /\ w.pc = "off" /\ lives.producer < MaxLives /\ WriterMayStep
    /\ created' = TRUE
    /\ unread' = 0
    /\ w' = [w EXCEPT !.pc = "clear", !.todo = Fields]
    /\ lives' = [lives EXCEPT !.producer = @ + 1]
    /\ UNCHANGED <<shm, r, lastRead, written, heard>>

ConsumerAttach ==
    /\ r.pc = "off" /\ lives.consumer < MaxLives /\ ReaderMayStep
    /\ created
    /\ unread' = 0
    /\ r' = [r EXCEPT !.pc = "clear", !.todo = Fields]
    /\ lastRead' = 0
    /\ lives' = [lives EXCEPT !.consumer = @ + 1]
    /\ UNCHANGED <<shm, created, w, written, heard>>

\* memset of the segment
ProducerClear ==
    /\ w.pc = "clear" /\ WriterMayStep
    /\ \E fields \in Stores(w.todo) :
          /\ shm' = Zeroed(fields)
          /\ w' = IF fields = w.todo THEN [w EXCEPT !.pc = "header", !.todo = {"magic", "bufferSize"}]
                  ELSE [w EXCEPT !.todo = @ \ fields]
    /\ UNCHANGED <<created, r, lastRead, lives, written, unread, heard>>

ConsumerClear ==
    /\ r.pc = "clear" /\ ReaderMayStep
    /\ \E fields \in Stores(r.todo) :
          /\ shm' = Zeroed(fields)
          /\ r' = IF fields = r.todo THEN [r EXCEPT !.pc = "header", !.todo = {"magic", "bufferSize"}]
                  ELSE [r EXCEPT !.todo = @ \ fields]
    /\ UNCHANGED <<created, w, lastRead, lives, written, unread, heard>>

SetHeader(fields) ==
    shm' = [shm EXCEPT !.magic = @ \/ "magic" \in fields,
                       !.bufferSize = IF "bufferSize" \in fields THEN BufferSize ELSE @]

ProducerHeader ==
    /\ w.pc = "header" /\ WriterMayStep
    /\ \E fields \in Stores(w.todo) :
          /\ SetHeader(fields)
          /\ w' = [w EXCEPT !.pc = IF fields = w.todo THEN "idle" ELSE "header", !.todo = @ \ fields]
    /\ UNCHANGED <<created, r, lastRead, lives, written, unread, heard>>

ConsumerHeader ==
    /\ r.pc = "header" /\ ReaderMayStep
    /\ \E fields \in Stores(r.todo) :
          /\ SetHeader(fields)
          /\ r' = [r EXCEPT !.pc = IF fields = r.todo THEN "idle" ELSE "header", !.todo = @ \ fields]
    /\ UNCHANGED <<created, w, lastRead, lives, written, unread, heard>>

\* The driver's process ends: between two writes, or, when calls may overlap,
\* anywhere; at the latest when it is to copy a negative length, a huge size_t.
ProducerExit ==
    /\ w.pc # "off"
    /\ Exclusive => w.pc = "idle" /\ r.pc \in {"off", "idle"}
    /\ w' = [w EXCEPT !.pc = "off", !.todo = {}]
    /\ UNCHANGED <<shm, created, r, lastRead, lives, written, unread, heard>>

\* The consumer thread leaves its loop and unmaps the segment; or its process
\* ends like the driver's, copying a negative length.
ConsumerExit ==
    /\ r.pc = "idle" \/ (r.pc = "copy" /\ r.n1 < 0)
    /\ ReaderMayStep
    /\ r' = [r EXCEPT !.pc = "off"]
    /\ UNCHANGED <<shm, created, w, lastRead, lives, written, unread, heard>>

-----------------------------------------------------------------------------
(* vpAudio_shmem_RingBufferWrite *)

WriterStep(from) == w.pc = from /\ WriterMayStep

onlyWriter == <<created, r, lastRead, lives, heard>>

WriteBegin(count) ==
    /\ WriterStep("idle")
    /\ written + count <= MaxWritten /\ shm.msgId < MaxWritten
    /\ LET call == [w EXCEPT !.count = count, !.written = 0]
       IN  w' = IF Unsigned(shm.unconsumed) >= Unsigned(shm.bufferSize - 1)
                THEN [call EXCEPT !.pc = "reset", !.todo = Positions]
                ELSE [call EXCEPT !.pc = "space", !.size = shm.bufferSize, !.position = shm.writerPosition]
    /\ UNCHANGED <<onlyWriter, shm, written, unread>>

ResetRing ==
    /\ WriterStep("reset")
    /\ \E fields \in Stores(w.todo) :
          /\ shm' = Zeroed(fields)
          /\ w' = IF fields = w.todo
                  THEN [w EXCEPT !.pc = "space", !.todo = {}, !.size = shm'.bufferSize,
                                 !.position = shm'.writerPosition]
                  ELSE [w EXCEPT !.todo = @ \ fields]
    /\ unread' = 0
    /\ UNCHANGED <<onlyWriter, written>>

\* (mutant) The first copy is not cut at the end of data[].
FirstChunkUncut(count, size, pos) == count
FirstChunk(count, size, pos) == MIN(count, size - pos)

\* bufferSize and writerPosition are two loads; either may have been made
\* before the other side cleared the segment, the other after it.
WriteSpace ==
    /\ WriterStep("space")
    /\ \E size \in {w.size, shm.bufferSize}, pos \in {w.position, shm.writerPosition} :
         LET n1 == FirstChunk(w.count, size, pos)
         IN  w' = [w EXCEPT !.pc = "copy", !.n1 = n1, !.count = @ - n1]
    /\ UNCHANGED <<onlyWriter, shm, written, unread>>

\* data[] after n floats, numbered on from the last one written, are stored at
\* the writer position.
Stored(n) ==
    [i \in Slots |-> IF i >= shm.writerPosition /\ i < shm.writerPosition + n
                     THEN written + 1 + (i - shm.writerPosition)
                     ELSE shm.data[i]]

\* The first memcpy
WriteCopy ==
    /\ WriterStep("copy")
    /\ w.n1 >= 0
    /\ shm' = [shm EXCEPT !.data = Stored(w.n1)]
    /\ written' = written + w.n1
    /\ w' = [w EXCEPT !.pc = "move", !.written = w.n1, !.load = shm.writerPosition]
    /\ UNCHANGED <<onlyWriter, unread>>

\* VPAUDIORINGBUF_ADVANCE of the writer position
WriteMove ==
    /\ WriterStep("move")
    /\ \E from \in {w.load, shm.writerPosition} :
          shm' = [shm EXCEPT !.writerPosition = Advanced(from, w.n1)]
    /\ w' = [w EXCEPT !.pc = IF w.count > 0 THEN "wrap" ELSE "load"]
    /\ UNCHANGED <<onlyWriter, written, unread>>

\* The second memcpy.  The advance that follows it names the reader position.
WriteWrap ==
    /\ WriterStep("wrap")
    /\ LET n2 == MIN(w.count, shm.bufferSize)
       IN  /\ shm' = [shm EXCEPT !.data = Stored(n2)]
           /\ written' = written + n2
           /\ w' = [w EXCEPT !.pc = "advance", !.n1 = n2, !.written = @ + n2,
                             !.load = shm.readerPosition]
    /\ UNCHANGED <<onlyWriter, unread>>

WriteAdvance ==
    /\ WriterStep("advance")
    /\ \E from \in {w.load, shm.readerPosition} :
          shm' = [shm EXCEPT !.readerPosition = Advanced(from, w.n1)]
    /\ w' = [w EXCEPT !.pc = "load"]
    /\ UNCHANGED <<onlyWriter, written, unread>>

WriteLoad ==
    /\ WriterStep("load")
    /\ w' = [w EXCEPT !.pc = "store", !.load = shm.unconsumed]
    /\ UNCHANGED <<onlyWriter, shm, written, unread>>

WriteStore ==
    /\ WriterStep("store")
    /\ shm' = [shm EXCEPT !.unconsumed = w.load + w.written]
    /\ unread' = unread + w.written
    /\ w' = [w EXCEPT !.pc = "publish"]
    /\ UNCHANGED <<onlyWriter, written>>

\* The driver announces the block; external to this repository.
Publish ==
    /\ WriterStep("publish")
    /\ shm' = [shm EXCEPT !.msgId = @ + 1]
    /\ w' = [w EXCEPT !.pc = "idle"]
    /\ UNCHANGED <<onlyWriter, written, unread>>

-----------------------------------------------------------------------------
(* vpAudio_shmem_RingBufferReadAvailable, and the loop that calls it *)

ReaderStep(from) == r.pc = from /\ ReaderMayStep

onlyReader == <<created, w, lives, written>>

\* (mutant) The consumer waits for the message after the next.
NewerByTwo == shm.msgId > lastRead + 1
Newer == shm.msgId > lastRead

\* One turn of the polling loop that finds a newer message.
Poll ==
    /\ ReaderStep("idle")
    /\ shm.magic
    /\ Newer
    /\ lastRead' = shm.msgId
    /\ r' = [r EXCEPT !.pc = "begin"]
    /\ UNCHANGED <<onlyReader, shm, unread, heard>>

ReadBegin ==
    /\ ReaderStep("begin")
    /\ r' = IF shm.unconsumed < 1
            THEN [r EXCEPT !.pc = "return", !.consumed = 0]
            ELSE [r EXCEPT !.pc = "skip", !.consumed = 0, !.copied = 0,
                           !.count = MIN(MaxCount, shm.unconsumed)]
    /\ UNCHANGED <<onlyReader, shm, lastRead, unread, heard>>

\* More is waiting than was asked for: the oldest floats are passed over.
ReadSkip ==
    /\ ReaderStep("skip")
    /\ LET excess == shm.unconsumed - r.count
       IN  IF excess > 0
           THEN /\ shm' = [shm EXCEPT
                     !.readerPosition = Advanced(shm.readerPosition, excess),
                     !.unconsumed = r.count]
                /\ unread' = unread - excess
           ELSE UNCHANGED <<shm, unread>>
    /\ r' = [r EXCEPT !.pc = "space", !.size = shm'.bufferSize, !.position = shm'.readerPosition]
    /\ UNCHANGED <<onlyReader, lastRead, heard>>

ReadSpace ==
    /\ ReaderStep("space")
    /\ \E size \in {r.size, shm.bufferSize}, pos \in {r.position, shm.readerPosition} :
         LET n1 == FirstChunk(r.count, size, pos)
         IN  r' = [r EXCEPT !.pc = "copy", !.n1 = n1, !.count = @ - n1]
    /\ UNCHANGED <<onlyReader, shm, lastRead, unread, heard>>

\* buf after n floats from the reader position were copied to it.  A copy past
\* the end of data[] reads memory that is not a sample.
Fetched(n) ==
    [i \in 0 .. MaxCount - 1 |->
        IF i >= r.copied /\ i < r.copied + n
        THEN LET at == shm.readerPosition + (i - r.copied)
             IN  IF at \in Slots THEN shm.data[at] ELSE 0
        ELSE r.buf[i]]

ReadCopy ==
    /\ ReaderStep("copy")
    /\ r.n1 >= 0
    /\ r' = [r EXCEPT !.pc = "advance", !.buf = Fetched(r.n1),
                      !.copied = @ + r.n1, !.load = shm.readerPosition]
    /\ UNCHANGED <<onlyReader, shm, lastRead, unread, heard>>

\* (mutant) The reader position does not follow what was read.
ReadAdvanceStays ==
    /\ ReaderStep("advance")
    /\ r' = [r EXCEPT !.pc = IF r.count > 0 THEN "wrap" ELSE "load",
                      !.consumed = @ + r.n1]
    /\ UNCHANGED <<onlyReader, shm, lastRead, unread, heard>>

\* VPAUDIORINGBUF_ADVANCE of the reader position by n1: its store and its wrap.
ReadAdvance ==
    /\ ReaderStep("advance")
    /\ \E from \in {r.load, shm.readerPosition} :
          shm' = [shm EXCEPT !.readerPosition = Advanced(from, r.n1)]
    /\ r' = [r EXCEPT !.pc = IF r.count > 0 THEN "wrap" ELSE "load",
                      !.consumed = @ + r.n1]
    /\ UNCHANGED <<onlyReader, lastRead, unread, heard>>

\* The second memcpy; what it copies is added to consumed before and after.
ReadWrap ==
    /\ ReaderStep("wrap")
    /\ LET n2 == MIN(r.count, shm.bufferSize)
       IN  /\ shm' = [shm EXCEPT !.readerPosition =
                                   Advanced(shm.readerPosition, n2)]
           /\ r' = [r EXCEPT !.pc = "load", !.buf = Fetched(n2),
                             !.copied = @ + n2, !.consumed = @ + n2 + n2]
    /\ UNCHANGED <<onlyReader, lastRead, unread, heard>>

ReadLoad ==
    /\ ReaderStep("load")
    /\ r' = [r EXCEPT !.pc = "store", !.load = shm.unconsumed]
    /\ UNCHANGED <<onlyReader, shm, lastRead, unread, heard>>

ReadStore ==
    /\ ReaderStep("store")
    /\ shm' = [shm EXCEPT !.unconsumed = r.load - r.consumed]
    /\ unread' = unread - r.copied
    /\ r' = [r EXCEPT !.pc = "return"]
    /\ UNCHANGED <<onlyReader, lastRead, heard>>

ReadReturn ==
    /\ ReaderStep("return")
    /\ heard' = IF r.consumed > 0 THEN r.buf[r.copied - 1] ELSE heard
    /\ r' = [r EXCEPT !.pc = "idle", !.count = 0, !.n1 = 0, !.load = 0, !.copied = 0]
    /\ UNCHANGED <<onlyReader, shm, lastRead, unread>>

-----------------------------------------------------------------------------

Write ==
    \/ \E count \in BlockSizes : WriteBegin(count)
    \/ ResetRing \/ WriteSpace \/ WriteCopy \/ WriteMove \/ WriteWrap
    \/ WriteAdvance \/ WriteLoad \/ WriteStore \/ Publish

Read ==
    \/ Poll \/ ReadBegin \/ ReadSkip \/ ReadSpace \/ ReadCopy \/ ReadAdvance
    \/ ReadWrap \/ ReadLoad \/ ReadStore \/ ReadReturn

Lifecycle ==
    \/ ProducerAttach \/ ProducerClear \/ ProducerHeader \/ ProducerExit
    \/ ConsumerAttach \/ ConsumerClear \/ ConsumerHeader \/ ConsumerExit

RingNext == Write \/ Read \/ Lifecycle

RingSpec == RingInit /\ [][RingNext]_ringVars

\* Both sides keep running: neither function waits for anything.
FairRingSpec == RingSpec /\ WF_ringVars(Read \/ ConsumerClear \/ ConsumerHeader)
                 /\ WF_ringVars(Write \/ ProducerClear \/ ProducerHeader)

-----------------------------------------------------------------------------
(* Properties *)

RingTypeOK ==
    /\ shm.bufferSize \in {0, BufferSize}
    /\ shm.writerPosition \in Slots /\ (Exclusive => shm.readerPosition \in Slots)
    /\ shm.unconsumed \in Int /\ shm.msgId \in Nat /\ shm.magic \in BOOLEAN
    /\ shm.data \in [Slots -> 0 .. MaxWritten]
    /\ w.pc \in {"off", "clear", "header", "idle", "reset", "space", "copy", "move",
                  "wrap", "advance", "load", "store", "publish"}
    /\ r.pc \in {"off", "clear", "header", "idle", "begin", "skip", "space", "copy",
                  "advance", "wrap", "load", "store", "return"}
    /\ written \in 0 .. MaxWritten

\* The length of the first copy of a write came out negative: bufferSize was
\* loaded as cleared, writerPosition as it was before, or as a write in progress
\* put it back.  The copy of a huge size_t ends the process.
Torn == w.pc = "copy" /\ w.n1 < 0

\* But for that case neither memcpy of the producer leaves data[], whatever the
\* consumer does to the segment meanwhile: attaching clears it, field by field,
\* under a write in progress, so that the size, the position, the address and
\* what is left to be copied may each be of another time.
WriteInBounds ==
    /\ w.pc = "copy" /\ ~Torn => shm.writerPosition + w.n1 <= BufferSize
    /\ w.pc = "wrap" =>
         shm.writerPosition + MIN(w.count, shm.bufferSize) <= BufferSize

\* Nor does a memcpy of the consumer, which also stays inside its local buffer;
\* and the positions both rely on are cells of data[].
ReadInBounds ==
    /\ RingTypeOK
    /\ r.pc = "copy" => /\ r.n1 >= 0
                        /\ shm.readerPosition + r.n1 <= BufferSize
                        /\ r.n1 <= MaxCount
    /\ r.pc = "wrap" =>
         /\ shm.readerPosition + MIN(r.count, shm.bufferSize) <= BufferSize
         /\ r.copied + MIN(r.count, shm.bufferSize) <= MaxCount

AtRest == w.pc \in {"off", "idle"} /\ r.pc \in {"off", "idle"}

\* VPAudioOutputIPC.c:53 "unconsumed; // means "written but not yet read"".
UnconsumedIsUnread == AtRest => shm.unconsumed = unread

\* The floats a read copies are newer than all it copied before, and in order;
\* the floats counted beyond the copied ones are left aside.  It holds while
\* calls are apart and blocks fill the ring evenly: a write that crosses the end
\* of data[] moves the reader position for its own (VPAudioOutputIPC.c:205).
Copied == [i \in 0 .. r.copied - 1 |-> r.buf[i]]

CopiedInOrder ==
    [][ReadReturn /\ r.consumed > 0 =>
         \A i \in DOMAIN Copied :
            Copied[i] > IF i = 0 THEN heard ELSE Copied[i - 1]]_ringVars

\* A block that was written is read, or discarded by an overflow: the consumer
\* does not sleep through it.  A driver that was restarted is not covered: its
\* message numbers start again below the last one the consumer saw.
EveryBlockHeard ==
    unread > 0 ~> unread = 0 \/ r.pc = "off" \/ w.pc = "off" \/ lives.producer > 1

=============================================================================
