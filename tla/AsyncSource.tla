---------------------------- MODULE AsyncSource ----------------------------
(***************************************************************************)
(* The asynchronous frames of a libobs source (obs-source.c) and the       *)
(* Vidpresso video source that feeds them (vp_obs_source.m): the main      *)
(* thread copies each surface it is told of into a cached frame and queues *)
(* it; the graphics thread picks, once per tick of the output, the frame   *)
(* whose time has come, and uploads it to the texture.                     *)
(*                                                                         *)
(* Time is discrete.  A step is what a thread does under async_mutex, or   *)
(* between two times it holds it.  No pixel is modelled: what matters of a *)
(* frame is who may touch it, and its timestamp.                           *)
(***************************************************************************)
EXTENDS Integers, Sequences, FiniteSets, SequencesExt, FiniteSetsExt

CONSTANTS
  Frame,      \* allocations the frames live in (bound)
  Size,       \* sizes the surfaces come in
  None,       \* no frame
  Tick,       \* interval of the output's frames
  Gap,        \* 1/61 s: surfaces must be further apart than this
  Smooth,     \* 2 ms, as in ready_async_frame
  MaxVar,     \* MAX_TS_VAR, a jump in time
  MaxFrames,  \* MAX_ASYNC_FRAMES
  MaxUnused,  \* MAX_UNUSED_FRAME_DURATION
  MaxLate,    \* bound: how late the graphics thread may run its tick
  MaxCopy,    \* bound: how long the copy of a surface takes
  MaxLeaks,   \* bound: texture updates that fail
  MaxTime     \* bound: the end of time

ASSUME SourceConstants ==
  /\ None \notin Frame
  /\ {Tick, Smooth, MaxVar, MaxFrames, MaxUnused, MaxTime} \subseteq Nat \ {0}
  /\ {Gap, MaxLate, MaxCopy, MaxLeaks} \subseteq Nat /\ Smooth <= MaxVar

VARIABLES
  now,        \* os_gettime_ns()
  written,    \* lastWrittenFrameT of the Vidpresso source
  size,       \* async_cache_width and async_cache_height
  cache,      \* async_cache: a sequence of [frame, used, unused]
  refs,       \* the reference count of each frame; 0: not allocated
  queue,      \* async_frames: a sequence of [frame, ts]
  writing,    \* the frame the main thread copies a surface into
  cur,        \* cur_async_frame
  reading,    \* the frame the graphics thread uploads
  last,       \* last_frame_ts: the time of the source, 0 if it has none
  sys,        \* last_sys_timestamp: the time of the last tick
  shown,      \* timestamp of the last frame picked
  leaked      \* frames whose upload failed

main == <<written, size, writing>>
graphics == <<cur, reading, last, sys, shown, leaked>>
vars == <<now, written, size, cache, refs, queue, writing, cur, reading, last,
          sys, shown, leaked>>

Init ==
  /\ now = 1 /\ sys = 1 /\ last = 0 /\ written = -Gap /\ shown = 0
  /\ cache = <<>> /\ queue = <<>> /\ size = None
  /\ refs = [f \in Frame |-> 0]
  /\ writing = None /\ cur = None /\ reading = None /\ leaked = {}

-----------------------------------------------------------------------------
(* The cache.                                                              *)

Cached(c) == {c[i].frame : i \in DOMAIN c}

(* remove_async_frame                                                      *)
Unused(c, frames) ==
  [i \in DOMAIN c |->
    IF c[i].frame \in frames THEN [c[i] EXCEPT !.used = FALSE] ELSE c[i]]

(* The first entry that is not used is taken.                              *)
Reused(c) ==
  LET i == SelectInSeq(c, LAMBDA a : ~a.used)
  IN IF i = 0 THEN c ELSE [c EXCEPT ![i].used = TRUE, ![i].unused = 0]

(* clean_cache                                                             *)
Aged(a) == IF a.used THEN a ELSE [a EXCEPT !.unused = @ + 1]
Cleaned(c) ==
  LET kept[n \in 0..Len(c)] ==
        IF n = 0 THEN <<>>
        ELSE IF c[n].used \/ c[n].unused + 1 < MaxUnused THEN Append(kept[n - 1], Aged(c[n]))
        ELSE kept[n - 1]
  IN  kept[Len(c)]

ReleasedOutright(c) ==  \* (mutant)
  [f \in Frame |-> IF f \in Cached(c) THEN 0 ELSE refs[f]]

(* obs_source_frame_decref of every frame of the cache.                    *)
Released(c) == [f \in Frame |-> IF f \in Cached(c) THEN refs[f] - 1 ELSE refs[f]]

-----------------------------------------------------------------------------
(* The main thread: msgPortReceivedDataCb, cache_video and                 *)
(* obs_source_output_video.                                                *)

(* A queue nobody works off is dropped together with the cache and the     *)
(* source's idea of time; so is the surface.                               *)
Overflow ==
  /\ Len(queue) >= MaxFrames
  /\ refs' = Released(cache)
  /\ cache' = <<>> /\ queue' = <<>> /\ cur' = None /\ last' = 0
  /\ UNCHANGED <<size, writing>>

(* A frame of the cache, or a new one, is marked used and referenced.      *)
Take(c, r) ==
  LET kept == Cleaned(Reused(c))
      alive == [f \in Frame |-> IF f \in Cached(c) \ Cached(kept) THEN 0 ELSE r[f]]
  IN IF \E i \in DOMAIN c : ~c[i].used
     THEN LET f == c[SelectInSeq(c, LAMBDA a : ~a.used)].frame
          IN /\ cache' = kept /\ writing' = f
             /\ refs' = [alive EXCEPT ![f] = @ + 1]
     ELSE LET f == CHOOSE f \in Frame : r[f] = 0
          IN /\ \E g \in Frame : r[g] = 0  \* the bound on allocations
             /\ cache' = Append(kept, [frame |-> f, used |-> TRUE, unused |-> 0])
             /\ writing' = f /\ refs' = [alive EXCEPT ![f] = 2]

(* A surface of another size frees the cache first.                        *)
Store(s) ==
  /\ Len(queue) < MaxFrames
  /\ IF s = size THEN Take(cache, refs) /\ UNCHANGED <<queue, cur>>
                 ELSE Take(<<>>, Released(cache)) /\ queue' = <<>> /\ cur' = None
  /\ size' = s /\ UNCHANGED last

Receive(s) ==
  /\ writing = None /\ now - written > Gap
  /\ written' = now
  /\ Overflow \/ Store(s)
  /\ UNCHANGED <<now, reading, sys, shown, leaked>>

QueuedFirst(a) == <<a>> \o queue  \* (mutant)

Queued(a) == Append(queue, a)

(* The copy is done: the writer's reference goes and the frame is queued.  *)
Push ==
  /\ writing # None
  /\ refs' = [refs EXCEPT ![writing] = @ - 1]
  /\ queue' = IF refs[writing] > 1 THEN Queued([frame |-> writing, ts |-> written])
              ELSE queue
  /\ writing' = None
  /\ UNCHANGED <<now, written, size, cache, graphics>>

-----------------------------------------------------------------------------
(* The graphics thread.                                                    *)

OutOfBounds(t) == t - last > MaxVar \/ last - t > MaxVar

NotAdvanced(offset) == last  \* (mutant)

Advanced(offset) == last + offset

(* The loop of ready_async_frame over the queue, whose i-th frame is       *)
(* looked at with the source's time at a.last: n is the frame to show.     *)
Pass(a, i) ==
  LET t == queue[i].ts IN
  IF a.done \/ a.last - t < Smooth THEN [a EXCEPT !.done = TRUE]
  ELSE IF i = Len(queue) THEN [a EXCEPT !.n = i]
  ELSE LET next == queue[i + 1].ts
           time == IF next - t > MaxVar THEN next - a.offset ELSE a.last
       IN [n |-> i, last |-> time, offset |-> next - time, done |-> FALSE]

(* get_closest_frame and ready_async_frame, sysOffset after the last tick: *)
(* the number of frames that leave the queue, the last of them to be shown,*)
(* and the time of the source.                                             *)
Ready(sysOffset) ==
  IF queue = <<>> THEN [n |-> 0, last |-> last]
  ELSE LET t == Head(queue).ts IN
    IF last = 0 \/ OutOfBounds(t) THEN [n |-> 1, last |-> t]
    ELSE LET start == [n |-> 0, last |-> Advanced(sysOffset), offset |-> t - last, done |-> FALSE]
             pass[i \in 0..Len(queue)] == IF i = 0 THEN start ELSE Pass(pass[i - 1], i)
         IN  pass[Len(queue)]

(* The frames that leave the queue and are not shown.                      *)
Passed(n) == {queue[i].frame : i \in 1..n - 1}

(* video_sleep: the ticks the thread was too late for are skipped.         *)
Intervals == (now - sys) \div Tick

(* obs_source_video_tick                                                   *)
VideoTick ==
  /\ reading = None /\ Intervals > 0
  /\ sys' = sys + Tick * Intervals
  /\ LET r == Ready(Tick * Intervals) IN
     /\ last' = r.last
     /\ queue' = SubSeq(queue, r.n + 1, Len(queue))
     /\ cur' = IF r.n = 0 THEN None ELSE queue[r.n].frame
     /\ cache' = Unused(cache, {cur} \cup Passed(r.n))
     /\ shown' = IF r.n = 0 THEN shown ELSE queue[r.n].ts
  /\ UNCHANGED <<now, main, refs, reading, leaked>>

(* obs_source_get_frame, when the source is rendered.                      *)
GetFrame ==
  /\ cur # None
  /\ reading' = cur /\ cur' = None /\ refs' = [refs EXCEPT ![cur] = @ + 1]
  /\ UNCHANGED <<now, main, cache, queue, last, sys, shown, leaked>>

(* obs_source_release_frame                                                *)
ReleaseFrame ==
  /\ reading # None /\ reading' = None
  /\ refs' = [refs EXCEPT ![reading] = @ - 1]
  /\ cache' = IF refs[reading] = 1 THEN cache ELSE Unused(cache, {reading})
  /\ UNCHANGED <<now, main, queue, cur, last, sys, shown, leaked>>

(* obs_source_update_async_video returns without releasing the frame when  *)
(* the texture cannot be updated.                                          *)
TextureFails ==
  /\ reading # None /\ Cardinality(leaked) < MaxLeaks
  /\ reading' = None /\ leaked' = leaked \cup {reading}
  /\ UNCHANGED <<now, main, cache, refs, queue, cur, last, sys, shown>>

Advance ==
  /\ now < MaxTime /\ now - sys < Tick + MaxLate
  /\ writing # None => now < written + MaxCopy
  /\ now' = now + 1
  /\ UNCHANGED <<main, cache, refs, queue, graphics>>

Next ==
  \/ \E s \in Size : Receive(s)
  \/ Push \/ VideoTick \/ GetFrame \/ ReleaseFrame \/ TextureFails \/ Advance

Spec == Init /\ [][Next]_vars
=============================================================================
