------------------------------ MODULE AudioMix ------------------------------
(***************************************************************************)
(* How libobs makes one stream of its audio sources: the threads that      *)
(* output audio for a source (obs-source.c), and the audio thread that     *)
(* mixes a block per tick and falls back in time, by buffering, when a     *)
(* source is late (audio-io.c, obs-audio.c).                               *)
(*                                                                         *)
(* Time is counted in sample frames, and timestamps are whole frames: the  *)
(* conversions between frames and nanoseconds, and the nanosecond of       *)
(* tolerance they need, are left out.  A frame is its number in the stream *)
(* of its source, the time its source and the source's sync offset give    *)
(* it, whether it begins a block that does not continue the one before it, *)
(* and whether it is put at another time: by the clock after a jump, where *)
(* a block is missing that the buffer had no room for, or at the start of  *)
(* a buffer that was set back after it was peeked.  A step is what a       *)
(* thread does while it holds audio_buf_mutex; the audio thread's steps    *)
(* for the single sources do not depend on one another, and are taken      *)
(* together.                                                               *)
(***************************************************************************)
EXTENDS Integers, Sequences, SequencesExt, Macros

CONSTANTS
  Source,         \* the audio sources
  Root,           \* those that are assigned to an output channel
  Frames,         \* AUDIO_OUTPUT_FRAMES
  Smoothing,      \* TS_SMOOTHING_THRESHOLD
  MaxVar,         \* MAX_TS_VAR
  MaxTicks,       \* MAX_BUFFERING_TICKS
  MaxBuf,         \* MAX_BUF_SIZE
  Length,         \* frames of the blocks a source puts out
  Lateness,       \* per source: how long after its last frame a block may come
  SyncOffset,     \* per source: the sync offsets that are set
  MaxLag,         \* bound: how far the audio thread falls behind the clock
  Start,          \* time at which the audio thread starts
  MaxTime         \* bound: the end of time

ASSUME MixConstants ==
  /\ Root \subseteq Source /\ Length \subseteq Nat \ {0} /\ Lateness \in [Source -> SUBSET Nat]
  /\ {Frames, Smoothing, MaxVar, MaxTicks, MaxBuf} \subseteq Nat \ {0}
  /\ {MaxLag, Start, MaxTime} \subseteq Nat /\ Start <= MaxTime /\ Smoothing <= MaxVar
  /\ \A l \in Length, s \in Source : \A d \in Lateness[s] : l + d < MaxVar
  /\ SyncOffset \in [Source -> SUBSET Int]
  /\ \A s \in Source : \A o \in SyncOffset[s] : Start + o >= 2 * MaxVar

Diff(a, b) == MAX(a, b) - MIN(a, b)

VARIABLES
  now,        \* os_gettime_ns()
  src,        \* per source: audio_ts, audio_input_buf, audio_pending,
              \*   last_audio_input_buf_size, next_audio_ts_min,
              \*   next_audio_sys_ts_min, last_sync_offset, how many frames
              \*   it put out, when the last of them ended, the last one for
              \*   which there was no room since a block was placed (0: none),
              \*   the offset by which its frames are put, and whether the
              \*   start of the buffer was set back since the last Render
  stage,      \* where the audio thread is in audio_callback
  next,       \* prev_time of audio_thread: the start of its next block
  windows,    \* buffered_timestamps: the starts of the blocks to be made
  ticks,      \* total_buffering_ticks
  wait,       \* buffering_wait_ticks
  bufferedTs, \* buffered_ts
  ts,         \* start of the block being made
  peeked,     \* audio_output_buf of each source
  mix,        \* what each root contributed to the block last delivered
  out,        \* the start of the block delivered before it, and its own (0: none)
  lastHeard,  \* number of the last frame heard of each source
  cut         \* sources whose stream was cut since they were last heard

mixer == <<next, windows, ticks, wait, bufferedTs>>
history == <<mix, out, lastHeard>>
mixVars == <<now, src, stage, mixer, ts, peeked, history, cut>>

Silence == [n |-> 0, t |-> 0, new |-> FALSE, moved |-> FALSE]
Silent(k) == [i \in 1..k |-> Silence]

MixInit ==
  /\ now = Start /\ next = Start
  /\ src = [s \in Source |-> [audioTs |-> 0, buf |-> <<>>, pending |-> FALSE,
                              lastSize |-> 0, nextTs |-> 0, nextSysTs |-> 0,
                              offset |-> 0, n |-> 0, end |-> 0, lost |-> 0,
                              taken |-> 0, reset |-> FALSE]]
  /\ stage = "sleep" /\ windows = <<>> /\ ticks = 0 /\ wait = 0 /\ bufferedTs = 0
  /\ ts = Start /\ peeked = [s \in Source |-> <<>>]
  /\ mix = [s \in Root |-> Silent(Frames)] /\ out = <<0, 0>>
  /\ lastHeard = [s \in Source |-> 0] /\ cut = {}

-----------------------------------------------------------------------------
(* A source puts out a block: source_output_audio_data.  All timestamps    *)
(* here are within MAX_TS_VAR of the clock, so they are used directly.     *)

(* circlebuf_place at position p, and what was behind it is dropped.       *)
Placed(buf, p, data) ==
  SubSeq(buf, 1, MIN(p, Len(buf))) \o Silent(MAX(0, p - Len(buf))) \o data

(* source_output_audio_place                                               *)
Place(a, data, t) ==
  LET r == IF a.audioTs = 0 \/ t < a.audioTs
           THEN [a EXCEPT !.buf = <<>>, !.audioTs = t, !.lastSize = 0] ELSE a
      p == t - r.audioTs
  IN IF p + Len(data) > MaxBuf THEN r
     ELSE [r EXCEPT !.buf = Placed(@, p, data), !.lastSize = 0]

(* source_output_audio_push_back                                           *)
PushBack(a, data) ==
  IF Len(a.buf) + Len(data) > MaxBuf THEN a
  ELSE [a EXCEPT !.buf = @ \o data, !.lastSize = 0]

(* A timestamp near the expected one is taken for the expected one.        *)
SmoothedAlways(a, t) == IF a.nextTs # 0 THEN a.nextTs ELSE t
Smoothed(a, t) ==
  IF a.nextTs # 0 /\ Diff(a.nextTs, t) < Smoothing THEN a.nextTs ELSE t

(* The frames of a block, as copy_audio_data hands them on.                *)
Block(a, length, t, new, moved) ==
  [i \in 1..length |-> [n |-> a.n + i, t |-> t + i - 1, new |-> new /\ i = 1, moved |-> moved]]

(* The buffer had no room for the block.                                   *)
Dropped(a) == a.buf = <<>> \/ Last(a.buf).n # a.n

(* Another offset breaks the stream, unless there was none so far.         *)
OffsetChanged(a, offset) == a.offset # 0 /\ a.offset # offset

(* sync_offset is read here alone, and set by another thread at any time:  *)
(* the block finds one or another.  resample_offset is left out: sources   *)
(* have the rate of the output.                                            *)
Output(s, length, late, offset) ==
  LET a == src[s]
      t == now - length - late
      t1 == Smoothed(a, t)
      diff == Diff(a.nextSysTs, t1)
      follows == a.nextSysTs # 0 /\ diff < Smoothing
      adjust == IF a.nextSysTs # 0 /\ diff > MaxVar THEN now - t ELSE 0
      b == [a EXCEPT !.n = @ + length, !.end = t + length, !.nextTs = t1 + length,
                     !.nextSysTs = t1 + length + adjust, !.offset = offset]
      push == follows /\ ~OffsetChanged(a, offset) /\ a.audioTs # 0
      taken == IF push THEN a.taken ELSE offset
      data == Block(a, length, t + taken, ~push \/ a.lost = a.n,
                    adjust # 0 \/ (push /\ a.lost # 0))
      c == IF push THEN PushBack(b, data)
           ELSE Place(b, data, (IF adjust = 0 THEN t1 ELSE now) + offset)
  IN /\ t >= a.end        \* the blocks of a source do not overlap
     /\ src' = [src EXCEPT ![s] =
          [c EXCEPT !.lost = IF Dropped(c) THEN c.n ELSE IF push THEN a.lost ELSE 0,
                    !.taken = taken, !.reset = @ \/ c.audioTs < a.audioTs]]
     /\ UNCHANGED <<now, stage, mixer, ts, peeked, history, cut>>

-----------------------------------------------------------------------------
(* The audio thread: audio_thread, input_and_output, audio_callback.       *)

(* A block is begun when the clock has reached its start.                  *)
Due == next <= now

(* obs_source_audio_render copies the front of each buffer.                *)
Render ==
  /\ stage = "sleep" /\ Due /\ stage' = "measure"
  /\ windows' = Append(windows, next) /\ next' = next + Frames
  /\ ts' = Head(windows')
  /\ src' = [s \in Source |-> [src[s] EXCEPT !.reset = FALSE,
                 !.pending = src[s].audioTs = 0 \/ Len(src[s].buf) < Frames]]
  /\ peeked' = [s \in Source |-> IF src'[s].pending THEN peeked[s]
                                 ELSE SubSeq(src[s].buf, 1, Frames)]
  /\ UNCHANGED <<now, ticks, wait, bufferedTs, history, cut>>

(* find_min_ts, from the least time known so far.                          *)
MinTs(least) ==
  LET times == {src[s].audioTs : s \in {a \in Source : ~src[a].pending /\ src[a].audioTs # 0}}
  IN CHOOSE m \in times \cup {least} : \A t \in times \cup {least} : m <= t

(* audio_buffer_insuffient                                                 *)
Insufficient(a, min) ==
  /\ ~a.pending /\ a.audioTs # 0
  /\ a.audioTs - min < Frames /\ Len(a.buf) < Frames - (a.audioTs - min)

EarlierUncounted(base, added) == [i \in 1..added |-> base - (added + 1 - i) * Frames]

(* add_audio_buffering: so many blocks that were already made are put in   *)
(* front again, to be passed over while the sources' frames pile up.       *)
Earlier(base, added) == [i \in 1..added |-> base - (wait + added + 1 - i) * Frames]
Buffer(min) ==
  LET needed == (ts - min + Frames - 1) \div Frames
      added == MIN(needed, MaxTicks - ticks)
      base == IF wait = 0 THEN ts ELSE bufferedTs
  IN /\ ticks' = ticks + added /\ wait' = wait + added
     /\ bufferedTs' = base
     /\ windows' = Earlier(base, added) \o windows
     /\ ts' = Head(windows')

(* calc_min_ts: a source found to have too little is marked, but the       *)
(* least time is not computed anew, as the second search starts from it.   *)
Measure ==
  /\ stage = "measure" /\ stage' = "mix"
  /\ LET min == MinTs(ts) IN
     /\ src' = [s \in Source |-> [src[s] EXCEPT !.pending = @ \/ Insufficient(src[s], min)]]
     /\ IF min < ts /\ ticks < MaxTicks
        THEN Buffer(min)
        ELSE UNCHANGED <<windows, ticks, wait, bufferedTs, ts>>
  /\ UNCHANGED <<now, next, peeked, history, cut>>

(* mix_audio: what a source adds to the block.  It was peeked before, and  *)
(* is put by where the buffer starts now.                                  *)
Added(s) ==
  LET a == src[s]
      start == a.audioTs - ts
  IN IF a.pending \/ a.audioTs = 0 \/ start < 0 \/ start >= Frames THEN Silent(Frames)
     ELSE Silent(start) \o [i \in 1..(Frames - start) |->
                               [peeked[s][i] EXCEPT !.moved = @ \/ a.reset]]

(* The number of the last frame of a source in front of position i: of     *)
(* those of this block, or else the one heard before it.                   *)
LastBefore(frames, i, before) ==
  LET earlier == {k \in 1..(i - 1) : frames[k].n # 0}
  IN IF earlier = {} THEN before ELSE frames[Max(earlier)].n

(* A block that was already made is passed over.                           *)
Passed == wait > 0
Mix ==
  /\ stage = "mix" /\ stage' = "discard"
  /\ IF Passed THEN UNCHANGED <<history, cut>>
     ELSE /\ mix' = [s \in Root |-> Added(s)] /\ out' = <<out[2], ts>>
          /\ lastHeard' = [s \in Source |->
               IF s \in Root THEN LastBefore(mix'[s], Frames + 1, lastHeard[s]) ELSE lastHeard[s]]
          /\ cut' = cut \ {s \in Root : \E i \in 1..Frames : mix'[s][i].n # 0}
  /\ UNCHANGED <<now, src, mixer, ts, peeked>>

(* discard_if_stopped                                                      *)
Stopped(a) == a.buf # <<>> /\ a.lastSize = Len(a.buf)
Cleared(a) ==
  IF a.buf = <<>> THEN a
  ELSE IF Stopped(a) THEN [a EXCEPT !.buf = <<>>, !.audioTs = 0, !.lastSize = 0]
  ELSE [a EXCEPT !.lastSize = Len(a.buf)]

(* ignore_audio                                                            *)
Ignored(a) ==
  IF a.buf = <<>> THEN a
  ELSE [a EXCEPT !.buf = <<>>, !.lastSize = 0, !.audioTs = @ + Len(a.buf)]

TakenWhole(a) == Frames

(* discard_audio: what the block took, or what nobody will take.           *)
Taken(a) == Frames - (a.audioTs - ts)
Discarded(a) ==
  IF a.audioTs >= ts + Frames THEN a
  ELSE IF a.audioTs < ts
  THEN IF a.pending /\ Len(a.buf) < Frames /\ Stopped(a) THEN Cleared(a)
       ELSE LET b == IF a.pending /\ Len(a.buf) < Frames THEN Cleared(a) ELSE a
            IN IF ticks = MaxTicks THEN Ignored(b) ELSE b
  ELSE IF Len(a.buf) < Taken(a) THEN Cleared(a)
  ELSE [a EXCEPT !.buf = SubSeq(@, Taken(a) + 1, Len(@)),
                 !.lastSize = 0, !.audioTs = ts + Frames]

(* What was not mixed: the block is not delivered, it begins after the     *)
(* source, or the source's block came or was replaced since it was begun.  *)
Unheard(s) ==
  wait > 0 \/ src[s].audioTs < ts \/ src[s].pending \/ ~IsPrefix(peeked[s], src[s].buf)

(* What remains of audio_callback, up to its return.                       *)
Discard ==
  /\ stage = "discard" /\ stage' = "sleep"
  /\ src' = [s \in Source |-> Discarded(src[s])]
  /\ cut' = cut \cup {s \in Source : Len(src'[s].buf) < Len(src[s].buf) /\ Unheard(s)}
  /\ windows' = Tail(windows)
  /\ wait' = MAX(wait - 1, 0)
  /\ UNCHANGED <<now, next, ticks, bufferedTs, ts, peeked, history>>

Advance ==
  /\ now < MaxTime /\ now - next < MaxLag /\ now' = now + 1
  /\ UNCHANGED <<src, stage, mixer, ts, peeked, history, cut>>

MixNext ==
  \/ \E s \in Source, length \in Length : \E late \in Lateness[s], offset \in SyncOffset[s] :
       Output(s, length, late, offset)
  \/ Render \/ Measure \/ Mix \/ Discard \/ Advance

MixSpec == MixInit /\ [][MixNext]_mixVars
=============================================================================
