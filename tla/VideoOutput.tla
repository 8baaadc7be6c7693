---------------------------- MODULE VideoOutput ----------------------------
(***************************************************************************)
(* The way of a picture from the graphics thread to the video outputs:     *)
(* the graphics thread renders the scene every interval, through textures  *)
(* that each lag one tick behind the other (obs-video.c), and puts the    *)
(* downloaded picture with its time into a cache of frames, which the      *)
(* output thread empties into the connected encoders (video-io.c).         *)
(*                                                                         *)
(* Time is counted in frame intervals; a picture is the number of the tick *)
(* it was rendered at.  The program converts no colours on the GPU.        *)
(***************************************************************************)
EXTENDS Integers, Sequences

CONSTANTS
  CacheSize,      \* cache_size
  MaxCount,       \* bound: intervals a tick may take
  MaxFails,       \* bound: surfaces that cannot be mapped
  MaxTime         \* bound: the end of time

ASSUME VideoConstants ==
  /\ {CacheSize, MaxCount, MaxTime} \subseteq Nat \ {0} /\ MaxFails \in Nat

Blank == 0                              \* a texture never drawn to
NotCopied == -1
Texture == {0, 1}                       \* NUM_TEXTURES
Prev(i) == IF i = 0 THEN 1 ELSE 0       \* prev_texture
Slot == 0..(CacheSize - 1)

VARIABLES
  time,       \* video_time, the interval that is rendered
  tick,       \* how often it rendered
  pc,         \* where the graphics thread is in obs_video_thread
  cur,        \* cur_texture
  rendered,   \* render_textures
  scaled,     \* output_textures
  copied,     \* copy_surfaces, NotCopied where textures_copied is not set
  infos,      \* vframe_info_buffer
  picture,    \* the picture that was downloaded
  writing,    \* slot the graphics thread fills, -1 for none
  cache, available, first, last,         \* of video_output
  sem,        \* update_semaphore
  reading,    \* slot the output thread passes on, -1 for none
  fails       \* surfaces that could not be mapped

textures == <<cur, rendered, scaled, copied>>
graphics == <<time, tick, pc, textures, infos, picture, writing, fails>>
output == <<cache, available, first, last, sem>>
vars == <<graphics, output, reading>>

Init ==
  /\ time = 1 /\ tick = 0 /\ pc = "render" /\ cur = 0
  /\ rendered = [i \in Texture |-> Blank] /\ scaled = rendered
  /\ copied = [i \in Texture |-> NotCopied]
  /\ infos = <<>> /\ picture = Blank /\ writing = -1 /\ fails = 0
  /\ cache = [i \in Slot |-> [pic |-> Blank, tick |-> 0, ts |-> 0, count |-> 0]]
  /\ available = CacheSize /\ first = 0 /\ last = 0 /\ sem = 0 /\ reading = -1

-----------------------------------------------------------------------------
(* stage_output_texture: a texture is taken for ready when it exists,      *)
(* drawn to or not.                                                        *)
StagedSame == rendered[Prev(cur)]
Staged == scaled[Prev(cur)]

(* render_video: each stage takes what the one before it made last time.   *)
Render ==
  /\ pc = "render" /\ pc' = "download" /\ tick' = tick + 1
  /\ rendered' = [rendered EXCEPT ![cur] = tick']
  /\ scaled' = [scaled EXCEPT ![cur] = rendered[Prev(cur)]]
  /\ copied' = [copied EXCEPT ![cur] = Staged]
  /\ UNCHANGED <<time, cur, infos, picture, writing, fails, output, reading>>

(* download_frame                                                          *)
Download ==
  /\ pc = "download" /\ copied[Prev(cur)] # NotCopied
  /\ picture' = copied[Prev(cur)] /\ pc' = "lock" /\ cur' = Prev(cur)
  /\ UNCHANGED <<time, tick, rendered, scaled, copied, infos, writing, fails, output, reading>>

(* Nothing is copied yet, or the surface cannot be mapped.                 *)
NotReady ==
  /\ pc = "download" /\ pc' = "sleep" /\ cur' = Prev(cur)
  /\ IF copied[Prev(cur)] = NotCopied THEN fails' = fails
     ELSE fails < MaxFails /\ fails' = fails + 1
  /\ UNCHANGED <<time, tick, rendered, scaled, copied, infos, picture, writing, output, reading>>

SkippedUncounted(info) == cache
Skipped(info) == [cache EXCEPT ![last].count = @ + info.count]
Following(i) == (i + 1) % CacheSize
AddedNext == Following(last)
Added == IF available # CacheSize THEN Following(last) ELSE last

(* output_video_data, video_output_lock_frame: a frame for which there is  *)
(* no room lengthens the last one.                                         *)
Lock ==
  /\ pc = "lock" /\ infos' = Tail(infos)
  /\ IF available = 0
     THEN /\ cache' = Skipped(Head(infos)) /\ pc' = "sleep"
          /\ UNCHANGED <<last, writing>>
     ELSE /\ last' = Added /\ writing' = last' /\ pc' = "copy"
          /\ LET info == Head(infos) IN
             cache' = [cache EXCEPT ![last'].ts = info.ts, ![last'].count = info.count,
                                    ![last'].tick = info.tick]
  /\ UNCHANGED <<time, tick, textures, picture, fails, available, first, sem, reading>>

(* The picture is converted into the frame; video_output_unlock_frame.     *)
Unlock ==
  /\ pc = "copy" /\ pc' = "sleep" /\ writing' = -1
  /\ cache' = [cache EXCEPT ![writing].pic = picture]
  /\ available' = available - 1 /\ sem' = sem + 1
  /\ UNCHANGED <<time, tick, textures, infos, picture, fails, first, last, reading>>

(* video_sleep: the next interval, or, when late, the one that has begun.  *)
Lasted(count) == time + count

Sleep(count) ==
  /\ pc = "sleep" /\ pc' = "render" /\ Lasted(count) <= MaxTime
  /\ time' = Lasted(count) /\ infos' = Append(infos, [ts |-> time, count |-> count, tick |-> tick])
  /\ UNCHANGED <<tick, textures, picture, writing, fails, output, reading>>

-----------------------------------------------------------------------------
(* video_thread: woken once for a frame, it passes it on until its count   *)
(* is used up.                                                             *)
Wake ==
  /\ reading = -1 /\ sem > 0 /\ sem' = sem - 1 /\ reading' = first
  /\ UNCHANGED <<graphics, cache, available, first, last>>

Frame == cache[reading]

(* The end of video_output_cur_frame, after the inputs were called.        *)
Passed ==
  /\ reading # -1
  /\ IF Frame.count > 1
     THEN UNCHANGED <<available, first, last, reading>>
     ELSE /\ first' = Following(first) /\ available' = available + 1
          /\ last' = IF available' = CacheSize THEN first' ELSE last
          /\ reading' = -1
  /\ cache' = [cache EXCEPT ![reading].ts = @ + 1, ![reading].count = @ - 1]
  /\ UNCHANGED <<graphics, sem>>

Graphics ==
  Render \/ Download \/ NotReady \/ Lock \/ Unlock \/ \E count \in 1..MaxCount : Sleep(count)
=============================================================================
