# A verification project for the Vidpresso encoding helper

The helper is a macOS process the Vidpresso main application starts. It takes video frames (IOSurface ids over a
message port) and audio (an audio driver's shared-memory ring, optionally mixed with a local microphone), encodes
them with a vendored libobs, sends them to several RTMP destinations and records them to a file. This directory
models the parts of it that hold state shared by threads, processes or delayed callbacks, checks them with TLC and
proves properties of ten of them, for every value of their constants, with TLAPS.

## 1. Inventory

| part | source | state | operations | hard because |
|---|---|---|---|---|
| audio mixer | `VDPAudioUtils/VDPAudioMixer.m`, `VDPAudioMixBuffer*` | two linear delay buffers with cursors, a lock, two delays | capture callback appends; consumer adds remote audio and asks for a mix; main thread sets delays | three threads; delays bypass the lock; slide on overflow |
| shared-memory ring | `ObsHelper/VPAudioOutputIPC.c`, loop of `vp_obs_audio_source.m` | mapped segment: header, two positions, a count, data | attach, write, announce, poll, read | two processes and no synchronisation; either may restart |
| audio set-up | `VPEncodingHelperAppDelegate.m`, `VPObsStreamer.m`, `vp_obs_audio_source.m` | parser state, settings, sync offsets, the published mixer, alive flag, thread | parse arguments, make sources, configuration messages, start, shut down | messages cross the making of the mixer; the thread outlives what it uses unless it is joined |
| video source, asynchronous frames | `ObsHelper/vp_obs_source.m`, `libobs/obs-source.c` | frame cache with reference counts, queue, source clock | surface arrives, tick picks a frame, upload | two threads share frames; time is compared with windows and jumps |
| graphics and video threads | `libobs/obs-video.c`, `media-io/video-io.c` | textures in flight, times in flight, ring of frames | tick, render, stage, download, output, wake | stages lag one another; a slow encoder fills the cache |
| audio thread | `libobs/obs-audio.c`, `media-io/audio-io.c`, audio part of `obs-source.c` | per source a buffer with its start time; buffering ticks | block output, tick: measure, mix, discard | late sources push the whole stream back; blocks come between mix and discard |
| encoders | `libobs/obs-encoder.c` | callbacks, pairing, two mutexes, start times | start, stop, encode, full stop | shared by all outputs; lock order; first frames of two media |
| packet interleaving | `libobs/obs-output.c`, `obs-encoder.c` (send) | queue of packets, offsets, highest timestamps, received flags | packet arrives, capture hooked and unhooked | two encoder threads; shared encoders already run when an output joins |
| output lifecycle | `libobs/obs-output.c`, `util/threading-posix.c` | active, reconnecting, retry counters, stop event, thread handle and flag | start, begin/end capture, report of loss, reconnect thread, stop | owner, plugin and reconnect threads without a lock |
| streamer, app delegate | `ObsHelper/VPObsStreamer.m`, `VPEncodingHelperAppDelegate.m` | isStreaming, isRecording, isPlaying, pingback timer, main queue | first frame, delayed start, output signals, termination | order of run-loop callbacks, main-queue blocks and delayed blocks |
| local capture, device control | `VDPAudioUtils/VDPAudioCapture.m`, `VDPAudioDeviceControl.m` | an AudioQueue | start, buffer callback | system API |
| output delay, scenes, properties, hotkeys, utilities | rest of libobs | - | - | vendored, not on the helper's control path |

How they interact: the driver writes the **ring**; the consumer thread polls it, gives each block to the **mixer** and
passes the mix to a libobs audio source, whose blocks the **audio thread** mixes into one stream. The main thread puts
surfaces into the **asynchronous frames** of the video source, from which the **graphics thread** draws; its pictures go
through the **frame cache** to the video thread. Both media feed the **encoders**, which call each **output**'s
`interleave_packets`; the output plugin reports to the **output lifecycle**, which emits signals; the **streamer** turns
signals into main-queue blocks and those into notifications to the main application; the **delegate** starts and stops
the streamer and hands configuration messages to the sources and the mixer.

What makes each correct: the mixer never reorders, repeats or splits frames, and loses audio only where it must; the
ring's copies stay in bounds and its count means what its comment says; what was configured is in force and nothing is
used after it was freed; a frame has one use at a time and frames are shown in order; pictures, frames and audio keep
their time on the way to the encoders; no packet comes after a stop, and a stop returns; packets leave in order, whole,
in sync, from a keyframe; a stopped output stays stopped, its retries end, and its signals tell the truth; whatever was
started is stopped before the process goes, and the main application's view of every destination is that destination's
history.

## 2. Modules

| module | what it is |
|---|---|
| `Macros` | `MIN` and `MAX` of the C headers |
| `MixBuffer` | the mixer's buffer as a record and the functions on it (pure operators) |
| `AudioMixer` | the mixer under its three threads; EXTENDS `MixBuffer` |
| `MixedStream` | abstract: two queues that drop their oldest samples; `AudioMixer` implements it |
| `ShmRing` | ring, polling loop and restarts of both processes |
| `AudioProofs` | theorems and proofs about `AudioMixer`, `ShmRing` and `AudioMix` |
| `AudioSetup`, `AudioSetupProofs` | command line, sources, configuration messages, the thread that makes the mixer, shutdown; theorems about settings and lifetimes |
| `AsyncSource`, `AsyncSourceProofs` | asynchronous frames of the video source; theorems about their counts, order and age |
| `VideoOutput` | graphics thread with its texture pipeline, frame cache, video thread |
| `EncoderSync` | how the two paired encoders find one start, and count time from it |
| `Capture`, `CaptureProofs` | composes `VideoOutput` and `EncoderSync` with an audio stream; theorems about frames and time |
| `AudioMix` | audio blocks of the sources, the audio thread and its buffering |
| `Encoder`, `EncoderProofs` | the pair of encoders shared by several outputs, with its locks; theorems about callbacks and codecs |
| `Interleaver`, `InterleaverProofs` | `interleave_packets` and its helpers, with the encoders that feed it; theorems about order, completeness and start |
| `OutputLifecycle` | abstract: what an output's four signals promise |
| `ObsOutput`, `ObsOutputProofs` | the code that emits them; `MCObsOutput` holds its properties and shows it implements `OutputLifecycle`, which is proved |
| `Streamer`, `StreamerProofs` | delegate and streamer, over one instance of `OutputLifecycle` per destination; properties in `MCStreamer` |
| `MC*` | instances for TLC, and the properties of the larger modules |

Operators and actions have the names of the functions they translate. An operator marked *(mutant)*, placed
just before the one it varies, is a deliberately wrong version of that operator which no specification uses:
substituting it must break the property named for it in `PROJECT.json`, which shows that the property depends on the
code.

### AudioMixer
A sample is its number in the stream it was written to, so order, loss and repetition are visible and the wave is not.
`receivedBuffer` is one step (it runs entirely under `_inBufLock`); a consumer pass is five: the append of remote audio
(`addChannel2`), the two checks, the two reads. Between any two of them the main thread may change a delay, which is
what `consumeFloatSamples` really allows. A delay change takes one step per property because each is atomic by itself.
The lock is explicit. The delays are whole units of `SampleRate` samples.

### ShmRing
The two sides are processes that share nothing but the segment, so a step is one statement on it, and less where a
statement loads or stores more than once: the length of a copy is computed from two loads (`size`, `position`), either of
which may be from before a clearing; an attach and a reset store the fields one by one in any order (`Clear`, `Header`,
`ResetRing`); `unconsumed +=`, `unconsumed -=` and the positions' advances are a load and a store. The exceptions are
in a read: what stores twice there (passing over floats, the second chunk) is one step, because the producer's bounds do
not depend on the reader position, and nothing is claimed of a read that overlaps a write. `Exclusive` keeps the calls of
the two sides apart: with it the runs look at the arithmetic alone, without it at the races. The producer is the audio
driver, which is not in this repository; that it increments `msgId` after a write is inferred from the reader, and that
its blocks fit into the ring is assumed (`RingConstants`). `Word` stands for 2^64: `unconsumed` is signed and compared
with an unsigned size.

### AudioSetup
One pass over the arguments (`state` is the option whose value is awaited), then the main thread's sequence: sources,
streaming, configuration messages, shutdown; and the consumer thread, which makes the mixer from the globals, publishes
it, polls while `alive`, and outputs blocks. A configuration message sets the global and looks for the mixer in two
steps, because the thread may publish in between. Words that are not options stand for themselves; `Reads` gives what
`doubleValue` and `intValue` make of them, zero for text. Streaming is started once. One timing assumption: a block whose
output had begun when the shutdown began is through by the time the graphics thread has ended (`FreeAudio`).

### AsyncSource
The main thread's part is throttle, surface copy, queueing and the cleaning of the cache; the graphics thread's is the
tick (`async_tick`, `get_closest_frame`, `ready_async_frame`) and the upload, which may fail. Frames have no pixels; what
matters is who holds them and their timestamp. Sizes change, which flushes the cache. Left out: the unbuffered flag
(never set by the helper), filters, the NULL frame that clears the picture, destruction of the source.

### VideoOutput, EncoderSync, Capture
`VideoOutput` has the graphics thread's tick with the index arithmetic of its textures (two of each, no colour
conversion on the GPU, as the helper configures it), the queue of times beside it, a surface that may not be mapped, the
cache of `video-io.c` with its counts of repeated frames, and the thread that empties it. `EncoderSync` has
`receive_video` and `receive_audio` up to the encoder: the wait for each other's first frame, the audio buffered
meanwhile and its cut to the first video frame. `receive_audio` notes its first block before it looks at the video's
start (`FirstReceived`, `ReceiveAudio`), and a video frame may come between. `left` is the block the code leaves out when
it begins with buffered audio. `Capture` lets them run together and connects either at any time; the audio thread has a
clock of its own, which may be up to `MaxCount` intervals ahead of the graphics thread's tick, or any time behind it.

### AudioMix
Time is counted in sample frames. A source's block is placed into its buffer by the timing rules of
`source_output_audio_data` (smoothing, jump, placement or append, reset of a buffer that went back in time); the audio
thread's tick is three steps (measure, mix, discard), since the locks are released in between. Left out: conversion
between frames and nanoseconds, values, submixes, the resampler and its offset (`resample_offset`, taken off the time a
block is placed at: the helper's sources have the output's rate); `calc_min_ts` reads without locks what a step here reads
at once. Each block finds one of the source's sync offsets (`SyncOffset`), which the main thread sets at any time; a
change breaks the stream, so that the block is placed anew. `taken` is the offset by which the frames in the buffer were
put. `lost` remembers that a block found no room in the buffer, since what is appended after it is heard at another time
than its own; `reset`, that the start of the buffer was set back after it was peeked.

### Encoder
A step runs from one lock operation to the next; the three recursive mutexes have owners. Outputs initialize, pair, start
and stop the encoders; each media thread encodes and delivers to the callbacks one by one. Comparisons of timestamps
between the media are choices here; `EncoderSync` has them. At most one encoding per encoder fails; the loop of
`receive_audio` goes on after it. Left out: `destroy_on_stop` (`obs-encoder.c:510-514`), since nothing destroys an encoder
while the helper streams. The history variables `failed` and `undercut` name the two
cases in which the code keeps less than the properties ask (section 4).

### Interleaver
Time is in ticks; an audio packet lasts two and a video packet three, as 21 ms of AAC and 33 ms of video do. `Encode`
produces the next packet of a stream; the two encoder threads may be up to `Ahead` apart, keyframes come at any frame at
least `KeyGap` after the last. The encoders are shared by all outputs (`VPObsStreamer.m:342-344`, `384-386`), so `Joins`
lets a capture begin while they run, with either one ahead (by no more than `Ahead` and a packet, as while it lasts:
`JoinsAssumption`). `interleave_packets` is one step: it runs under `interleaved_mutex`. Hooking and unhooking are one
step per encoder, because a packet can arrive in between. `WholeFromZero` says of each packet sent that it is the first
of its stream and at zero, or a period after the one before it (`Follows`). Sorting the queue is a recursive function
over its packets, which the proofs follow packet by packet.

### OutputLifecycle and ObsOutput
Each action is the code of one thread between two accesses to a field that another thread writes. `told` is the
condition the signals emitted so far describe. `handle` is the `pthread_t` field: it can name a thread other than the
one that uses it, and that is the point. Timing assumptions, all named:
- `OthersPassed`: a reconnect thread's wait (seconds) outlasts what was already running when it was made;
- `EndsAtOnce = FALSE`: a connection does not fail before the thread that opened it has run its last three statements;
- `StopMeetsReport = FALSE`: `obs_output_stop` does not overlap the plugin's report of a failure.

The first is used everywhere; without either of the other two `StopIsFinal` does not hold (section 4). The constants are
there so that both can be given up: `StopIsFinalHolds` does, and says which two steps of the code are then to blame.
Outside code: the plugin (its binary is in `ObsData`) is modelled from the calls `obs-output.c` makes and expects; in
particular `info.stop` waits for a thread that is opening the connection and a plugin being stopped reports nothing.
The streamer starts an output once (`isPlaying` is never reset), so `Start` happens once.

### Streamer
The main thread runs one callback at a time; an action is one callback or one main-queue block. `queue` is the main
queue and `later` what `dispatch_after` holds. `told` is driven by `OutputLifecycle`, so `Streamer` assumes of an output
exactly what `ObsOutput` was checked for. `posted` is what the main application was notified of. Termination may come
by a request or by quitting, before, during or after a start, and any set of outputs may fail to start.

## 3. Runs

All bounds are CONSTANTS in the `.cfg` files; a type invariant is a conjunct of one property of each run.

| run | instance | distinct states | what it shows |
|---|---|---|---|
| `mixer` | capacity 6, blocks of 2 and 4, delays 0, 2, 3, at most 10 samples per channel | 40,699 | order, alignment and loss under every interleaving; implements `MixedStream` |
| `ring_calls` | 6 floats, blocks of 2, at most 20 floats, both processes started twice, calls kept apart | 414,930 | arithmetic of the two functions through wraps, overflows and restarts; copies in bounds and in order; every block is heard |
| `ring_overlap` | 2 floats, blocks of 1 and 2, at most 4, one life each, any overlap | 2,612,639 | the producer writes outside `data[]` only with a length torn negative, though the segment is cleared under it field by field |
| `ring_count` | as `ring_calls`, one life | violation | the count is wrong after a read that wraps |
| `setup` | up to four arguments of six options and five words, two messages | 365,267 | arguments mean what a declarative reading says; what was set is in force; nothing is used after its end; a shutdown ends |
| `async` | six allocations, two sizes, ticks of 2 up to 2 late, a cache of 3, one failed upload, to time 13 | 2,983,753 | reference counts are exact, a frame has one use, frames are shown in order and none waits longer than a bound |
| `capture` | cache of 2, ticks of one or two intervals, one unmapped surface, to time 8 | 6,857,178 | no frame is refilled in use; frames keep their time; pictures lag two ticks; audio begins with the video and keeps its time, but for one block left out |
| `audio` | two sources, blocks of one tick, lateness 0 or 1, sync offset set to 0 and 3 at any time for one and 1 for the other, three buffering ticks, buffers of six frames, to time 16 | 2,064,751 | the stream is unbroken while buffering grows; each source is heard in order, whole but for known drops, at its time |
| `encoder` | two outputs, two captures, one failed encoding on each encoder | 65,890 | no packet after a stop, a begun capture is fed, no codec is destroyed in use but after a failed encoding, a stop returns, paired encoders start |
| `interleaver` | two captures, clocks to tick 15, encoders up to six ticks apart | 660,127 | order, completeness, sync and keyframe at the start, start in bounded time |
| `output` | two thread slots, 20 retries from 2 s, two lost connections, spurious wakes, failing retries | 14,140 | a stopped output is stopped, signals are true and follow `OutputLifecycle`, retries end, a stop returns |
| `streamer` | two destinations, two requests, queue of three | 78,360 | what runs is stopped; the stop is heard before the exit; each destination's notifications follow the lifecycle; a request ends the process |

**Why the bounds are enough.** Mixer: with capacity 6 and blocks of 4 every overflow path is taken (with and without
unread data, with the whole buffer shed), and a delay of 3 makes a channel wait while the other fills. What holds for
other sizes is proved, not extrapolated. Ring: six floats and blocks of two give reads and writes that end before, at
and beyond the end of `data[]`; 20 floats are three times round; two lives put an attach between any two calls. The
overlapping run is small because every load and store interleaves; in a ring of two every second float wraps and a block
of two is cut at the end, and its property is proved for every size and any number of lives. Setup: four arguments hold
an option, its value, an option that swallows the next and the mode; two messages are one before and one after the
mixer. Async: three cached frames and six allocations are enough for a full cache, a flush by size and a leak at once;
13 time units are five ticks, more than `MaxVar`. Capture: a cache of 2 is full as soon as the output thread misses a
wake, and eight intervals are past the three-stage pipeline with a repeated and an unmapped frame in it. Audio: blocks
of the tick's own length from two sources, one of which is always late, are what makes the buffering grow to its limit
and stay there; with buffers of six frames a pause leaves blocks without room; an offset of 0 and one beyond the
smoothing give all three ways a change is taken, from none, to none, and not at all. Encoder: two captures are one that
stops while the other starts, on the same encoders. `RetryMax = 20` and `RetrySec = 2` are the values libobs uses, so
the int of the wait is checked where it bites. Streamer: two destinations are where the per-destination index and the
partial failure first matter; two requests are where the second can find everything stopped. Interleaver: 15 ticks hold
five video frames, two keyframes and the longest wait for a start; two captures are what a reset between captures needs.

**Deadlock** is not checked where the system may stop: an output that is off, an encoder at its last tick, a process
that has exited, a producer that has written its share, the end of bounded time. In `Encoder` a hang of a thread shows as
a violation of `StopReturns`.

**Fairness.** `ShmRing`: both processes keep running (neither function waits). `AudioSetup`: the consumer thread keeps
running, and so does the main thread inside its shutdown. `Encoder`: a thread that is not waiting for a mutex keeps
running, and one that finds the mutex free again and again gets it (strong fairness of an output's calls, because the
media threads take and give back the same mutexes for ever; strong fairness of the encodings that a comparison of
timestamps lets pass infinitely often, since the media clocks advance). `ObsOutput`: threads that can run do; nothing
forces a drop, a start or a stop. `Streamer`: the main queue is drained and delays end, which is what the run loop does.
No property relies on the main application, the network or the user to do anything. `Interleaver` and `AsyncSource`
state what must come about as a bound (`StartsByKeyframe`, `NoneWaitsLong`), so they need no fairness.

**Conditions inside properties.** They are real, and each names a case in which the code does not do better:
- `EveryBlockHeard` leaves out a restarted driver (its message numbers start below the last one seen);
- `LossOnlyAfterRaise` a delay raised inside a pass;
- `SettingsInForce` a message that looked for the mixer before it was published and stored its value after the mixer had
  copied the globals (`crossed`): it reaches neither;
- `NoneWaitsLong` allows a jump in time, an interval and the lateness: a tick that finds no frame leaves the source's
  clock behind (`last_frame_ts`), and the lag grows up to `MAX_TS_VAR`;
- `RefsExact` counts the frame of a failed upload as leaked;
- `PictureLag` lets a picture lag one tick less for every surface that was not mapped, for good (`obs-video.c:550-556`),
  and leaves out the blank pictures of the first two ticks: the test at `obs-video.c:288-289` is of the texture, not of
  its having been drawn to;
- `AudioKeepsTime` says by how much the audio is off, and from where: when the audio begins with what was buffered, the
  block that shows that it may begin is left out (`obs-encoder.c:950-954`), and what follows is ahead by that one block,
  for good;
- `WriteInBounds` leaves out a first length that came out negative (`Torn`): `bufferSize` loaded as cleared, the
  position as before (`VPAudioOutputIPC.c:189`). The code then copies a huge size; nothing is claimed of the process
  after it;
- `CodecAlive` leaves out the rest of the call of `receive_audio` in which an encoding failed: `full_stop` has destroyed
  the codec, and the loop at `obs-encoder.c:1007` encodes what is still buffered. It does say that the call is the last:
  a failed encoder is not fed, connected or given a codec again;
- `HeardInOrder` leaves out frames of a source whose stream was cut: stopped, over the buffering limit, or come between
  the mix and the discard (`obs-audio.c:178-205`); and the first frame of a block that was placed anew, or appended
  after one for which there was no room;
- `OnTime` counts time with the sync offset of the last block, or none when it was set after there was none and blocks
  have been appended since (`obs-source.c:1175-1179`). It leaves out (`moved`) a block placed by the clock after a pause
  longer than `MAX_TS_VAR`, which is late by the latency, blocks appended where one without room is missing
  (`obs-source.c:1052`, `1074`), and frames copied before the start of their buffer was set back;
- `CaptureIsFed`, `StopReturns` encoders that were shut down in between (`undercut`) or failed;
- `RetryResolves` a retry whose failure the code does not notice; `StopsHeardBeforeExit` a delayed start that ran after
  the request;
- `StartsInSync`, `StartsByKeyframe` captures in which video was passed before the audio up to it.

`ReadInBounds` is checked and proved with calls kept apart: when they overlap, a wrapping write moves the reader position
(`VPAudioOutputIPC.c:205`) between the moment the reader computes a length and its copy, and it does not hold.

## 4. Findings

`ring_count`: a read across the end of the ring counts its second chunk twice, and `unconsumed` goes negative while
nothing is unread (`VPAudioOutputIPC.c:172`; line 53 says what the count means).

Also observed while modelling; each is why a property has the condition it has, or a constant the value:

- the mixer's delay of *d* seconds holds back *d*/2: samples are counted where frames are meant (`VDPAudioMixer.m:180`);
- a producer whose ring is attached to by the other side between the two loads of a length can copy a negative length,
  that is, a huge one (`VPAudioOutputIPC.c:189`; `Torn`);
- updates of the ring's count are lost when both processes change it (`VPAudioOutputIPC.c:209`);
- a write that crosses the end of the ring advances the reader position for its own (`VPAudioOutputIPC.c:205`), and the
  order of what is read is lost even with calls kept apart: `CopiedInOrder` does not hold for blocks that do not divide
  the ring;
- the plugin's report of a loss resets the stop event a stop has just set; the retry thread it makes is not joined and
  starts the plugin after `obs_output_stop` returned (`obs-output.c:1615`; `StopMeetsReport`, `MadeInStop`);
- when a retry fails before the thread that made it has ended, that thread detaches its successor and clears its
  successor's flag (`obs-output.c:1586`; `EndsAtOnce`, `MadeBesideAnother`);
- an output that joins running encoders whose audio lags starts out of sync by that lag, where the comment at
  `obs-output.c:848-852` promises less (`obs-output.c:925`; `seen.behind`);
- a capture whose encoder is shut down by another output's stop, between its initialization and its start, is never fed
  (`obs-encoder.c:457`; `undercut`);
- after a failed encoding `receive_audio` goes on to encode with the codec that its own full stop has destroyed
  (`obs-encoder.c:1007`; `LoopsAfterError`);
- a full stop after a failed encoding takes two mutexes in the opposite order of a stop (`obs-encoder.c:767`; `failed`);
- with the local capture mixed in, an audio offset set at run time delays the remote audio in libobs and in the mixer,
  although the comment at `VPEncodingHelperAppDelegate.m:479` says the first is cleared;
- an option whose value is missing swallows the next option, and text where a number belongs reads as zero and is taken;
- audio that arrives before the first video frame is buffered by the encoder without limit;
- a stream that begins with buffered audio, which is the ordinary start when frames come later than the audio of their
  time, has one block of audio missing, and all audio after it is early by that block (`obs-encoder.c:953`; `left`);
- a sync offset set while a source with none so far goes on is not taken up until its stream breaks, since
  `last_sync_offset` of zero counts as not yet set (`obs-source.c:1175`; `OffsetChanged`, `taken`);
- an offset set back places a block before the start of the buffer, which replaces the buffer; `mix_audio` reads the
  start again after the peek, so that the frames peeked are put by the new start, at the wrong time (`reset`);
- a source that runs dry and resumes adds buffering that is never given back, up to `MAX_BUFFERING_TICKS`;
- a source whose buffer ran exactly empty keeps its start time, because `discard_if_stopped` returns when there is
  nothing to discard (`obs-audio.c:105`). When it resumes after a pause longer than the buffer, its first block has no
  room and is dropped (`obs-source.c:1052`), and the next ones are appended at the old start time, to be ignored as too
  late (`lost`);
- a second "start" signal leaves a pingback timer that nothing invalidates.

## 5. Theorems

| theorem | states | module |
|---|---|---|
| `TypeCorrect` | `TypeOK`: no cursor leaves `sampleData` | `AudioProofs` |
| `NewestRun` | `BuffersHoldNewestRun`: a buffer holds the newest run of its stream, in order | |
| `Aligned` | `StereoAligned`: the next sample to be mixed is a left one | |
| `LossOnlyOnRaise` | `LossOnlyAfterRaise`: a pass loses a block of one channel only if a delay was raised during it | |
| `Refinement` | `ImplementsMixedStream`: the mixer implements the abstract queues | |
| `PositionsAreCells` | `RingTypeOK`: the writer's position is a cell of `data[]`, under any interleaving, the reader's under `Exclusive` | |
| `WritesStayInside` | `WriteInBounds`, under any interleaving: no copy leaves `data[]` but one of a length torn negative | |
| `ReadsStayInside` | `Exclusive => ReadInBounds` | |
| `CopiesInOrder` | `CopiedInOrder`, under `Exclusive`, `WholeBlocks` and `MaxCount >= BufferSize`, through any number of restarts | |
| `StreamUnbroken` | `OutputUnbroken`, for any sources, blocks, lateness and buffering limit | |
| `HeardOnTime` | `OnTime`, with any sync offsets, set at any time | |
| `HeardFramesInOrder` | `HeardInOrder`, through the peek, the mix and the discard | |
| `StopReaches` | `StopReachesAll`, for any number of destinations | `StreamerProofs` |
| `StopsHeard` | `StopsHeardBeforeExit`: the notifications of a stop are ahead of the exit | |
| `ViewFollowsLifecycle` | `ViewIsLifecycle`: the main application's view of a destination is a history of `OutputLifecycle` | |
| `StopIsFinalHolds` | `StopIsFinal`, with or without `Apart`, unless a reconnect thread is made while a stop runs or after it (`MadeInStop`), or beside another one (`MadeBesideAnother`) | `ObsOutputProofs` |
| `Refinement` | `ImplementsLifecycle`: the output implements `OutputLifecycle`, under `Apart` | |
| `ListenerIsRight` | `ListenerKnows`, under `Apart` and `WaitsFit` | |
| `QuietAfterStop` | `NoPacketAfterStop`, for any outputs and captures | `EncoderProofs` |
| `CodecOutlivesUse` | `CodecAlive`: no codec is destroyed in use, but in the call of `receive_audio` in which an encoding failed | |
| `EachCaptureIsFed` | `CaptureIsFed` | |
| `InForce` | `SettingsInForce`, for any options, words and messages | `AudioSetupProofs` |
| `AliveInUse` | `UsedWhileAlive` | |
| `Meant` | `ArgsMeant`: one pass with a state reads the arguments as the declarative definition does | |
| `FramesIntact` | `FrameIntact`, for any cache and any lateness of the threads | `CaptureProofs` |
| `LagKept` | `PictureLag` | |
| `VideoTimeKept` | `VideoKeepsTime` | |
| `AudioTimeKept` | `AudioKeepsTime`: audio begins with the video and keeps its time; from a block left out at a buffered start it is ahead by that block | |
| `RefsAreExact` | `RefsExact`, for any number of frames and any pace of the surfaces | `AsyncSourceProofs` |
| `ShownEverNewer` | `ShownInOrder` | |
| `NoFrameWaitsLong` | `NoneWaitsLong`, under `Punctual` | |
| `PacketsInOrder` | `SentInOrder`, for any periods and any lead of one encoder | `InterleaverProofs` |
| `StreamsWhole` | `WholeFromZero` | |
| `StartsTogether` | `StartsInSync`, under `AudioShort` | |
| `StartsOnKeyframe` | `StartsByKeyframe`, under `AudioShort` and `KeysApart` | |

Assumptions on the constants, all evaluated by TLC in the runs: the mixer's `CapacityAssumption`, `DelayAssumption`,
`MixerSizes`, `WholeFrames`, `MixerDelays`; the ring's `RingConstants` (above all: a block fits into the ring);
`MixConstants` (a smoothing is no longer than a jump, no block comes so late that it is taken for one, no offset moves a
block before time zero); the streamer's `StreamerAssumption`; the output's `RetryAssumption`; `EncoderConstants`;
`SetupConstants` (options, words and modes are told apart; what is read of a word is a number); `VideoConstants`,
`CaptureConstants`; `SourceConstants` (a smoothing is no longer than a jump); the interleaver's `PeriodAssumption`,
`TimeAssumption`, `JoinsAssumption`. The bounds of the runs (`MaxTime`, `MaxWritten`, `MaxCaptures`, ...) are any
natural numbers. Six hypotheses stand in the theorems themselves, besides `Exclusive`, which keeps the calls on the ring
apart:

- `Apart` (`~EndsAtOnce /\ ~StopMeetsReport`), of `Refinement` and `ListenerIsRight`: the two timing assumptions of
  section 2. `StopIsFinalHolds` does not assume it. Its hypothesis is about the steps themselves, `MadeInStop` and
  `MadeBesideAnother`: under `Apart` there are none (`ApartMakesNone`), without it TLC finds that either alone is enough
  to undo a stop;
- `WaitsFit`: the wait of the last retry, in milliseconds, fits into an `int`. With libobs's 2 s and 20 retries it is
  2^20 s, half of what fits;
- `WholeBlocks`, and `MaxCount >= BufferSize`: the driver's blocks have one size, which divides the ring, and a read
  asks for as much as the ring holds. The second is so: 20000 floats against 8192 (`vp_obs_audio_source.m:176`,
  `VPAudioOutputIPC.c:83`). The first is up to the driver, which is not here; blocks of a power of two of stereo frames
  are so, and others lose the order (section 4);
- `Punctual`: two ticks of the graphics thread are never further apart than a jump in time, `MAX_TS_VAR`, which is 2 s.
  After a longer pause the source's clock, which is set back to the first frame of the queue, may have moved by less
  than the system's;
- `AudioShort`: an audio packet lasts at most two frames. AAC packets last 21 ms, frames 16.7 or 33 ms. With longer
  audio packets the packet closest to a frame need not be next to it in the queue that is searched;
- `KeysApart`: keyframes are further apart than the audio leads, by two packets. Keyframes are seconds apart, the lead
  is tens of milliseconds. Closer keyframes discard each other's audio for ever (the hazard at `obs-output.c:1008`).

*The mixer.* None of the first four is inductive by itself. `BuffersHoldNewestRun` needs the types of the cursors, and
the slide of a full buffer keeps the run only because the read cursor is inside it. `StereoAligned` needs both cursors
even, not their difference: the amount shed is `MAX(MIN(readPos, writePos), dataLen)`. `LossOnlyAfterRaise` needs to know
what the checks of the pass established and that it still holds at the reads: the captured channel can only grow while
the lock is held, and a delay that was not raised asks for no more. The inductive invariant `IInv` is therefore the
conjunction of a good buffer (types, cursor order, newest run) and an even one, for both channels; of the correspondence
of lock and program counter; and, unless `delayRaised`, of "there is enough data" for each channel already checked and
not yet read. The lemmas on `MixBuffer` (what a slide, a copy and a read do to a good buffer) are stated first, once;
`IInv` is preserved by one step per action; the four properties follow; the refinement maps each concrete step to a
step of `MixedStream` or to a stutter, the checks, a delay change and the read of the first channel being stutters.

*The ring.* The properties speak of the moment of a copy; what makes them hold was computed in registers some steps
before, and the other side may clear the segment, field by field, in between. `WriteFits` says what a writer's registers
are worth at each place: the position loaded is still that of the segment, or that one was cleared; and before the copy,
if the first chunk is not negative, it fits and, if anything remains, it ends exactly at the end of `data[]` or starts
at its beginning; so after the advance the rest fits, either because the position is zero or because the segment was
cleared and then the whole block fits. That is where `BlockSizes \subseteq 1..BufferSize` is needed. A chunk is negative
only if the size was loaded as zero and the position was not (`FirstChunkFacts`); then the copy is not made. `ReadFits`
says the same of the reader, which has no such second line of defence: a writer that wraps moves its position, and so it
is part of the invariant under `Exclusive` only; there a clearing is not seen half done (`Tidy`), and no length is torn.
`CopiesInOrder` needs what the positions mean: `InFront` says that the last `unconsumed` floats written lie in order
from the reader position up to the writer position, and that all that was heard is older. A block joins them at the far
end (`CopyJoins`: it fits, because the count is a whole number of blocks and less than the ring), and a read takes all
of them. After a read that wraps the count is negative (`Miscounted`), and nothing is claimed until the next write: it
takes the negative count for a huge one and resets the ring, so the miscount costs no order. `OrderInv` adds what each
place inside a call has done so far, and was checked with TLC on the instance of `ring_calls` first.

*The mix.* `OutputUnbroken` needs `Delivery`: the block to be delivered next begins where the last one ended, which is
`wait` blocks after the first one due; and that what is put in front of the blocks (`Earlier`, from `buffered_ts`) abuts
them (`Windows`). `Windows` also bounds how far the buffering goes back: no source is before time zero, so a discard
cannot set a start time to less. `OnTime` rests on `Clocked`, per source: what it expects, what its clock says and where
its buffer ends, less the offset taken up, agree within the smoothing, while no block is missing in it, and every frame
in the buffer is near its time and not ahead of what is expected (`AtTime`). That last part is needed where a jump has
moved the start of the buffer: a block placed before it resets the buffer, and the frames the audio thread copied from
it before are then measured from the new start; they are all moved ones (`PlacedClocked`). Each way a block comes in or
frames go out keeps `Clocked`. `HeardInOrder` is about three steps of a tick, between which the sources go on: a block
is copied from the buffer (peek), mixed, and taken out of the buffer. `HeardInv` says, of every root source, that its
buffer is `Arranged` (numbers rise, and a frame that does not begin a new stretch follows the one before it), that what
it has not played comes after what was heard of it (`Unplayed`), and what the copy is worth at each stage: between peek
and mix it comes after what was heard, and each of its frames is older than those further back in the buffer
(`Unmixed`); after the mix the last frame heard is the last one the discard will take (`LastMixed`), unless the buffer
was replaced since (`Renewed`). `NextHeard` is where the block to be heard next begins; only a mix that is delivered
moves it. `HeardInv` was checked with TLC on the instance of `audio` and on two others first.

*The streamer.* `StopReachesAll` is inductive once the queue is known to hold blocks only: an output signals only while it
is on (from `OutputLifecycle`), a start puts the flags and the outputs up together, and a stop puts down what the flags
cover, which is all there is. The other two are about what waits in the main queue. `Chains` says that the signals of a
destination among the blocks lead from what the main application was told last to the output's condition, each allowed
after the one before it; taking the first block off and appending one behind keep such a chain, and the step of the view
is its first link. For `StopsHeardBeforeExit`, `StopsAhead` says that no signal is queued behind the terminating block,
which needs that nothing runs after a request (`QuietBefore`: nothing has run, and nothing is queued, while the one start
is still to come; `StartsOnce`). The case left out, `tardy`, is that start coming after the request.

*The output.* `StopIsFinalHolds` rests on `StopInv`, which uses neither timing assumption. `OneThread` says that there
is at most one reconnect thread and that the handle names it; `Ended`, that a thread which has not yet passed its wait
while a stop runs or after it finds the event set, and that after the join none is about to start the plugin. All the
rest of what threads do, ending late included, keeps this; only the step that makes a thread can break it, in the two
ways named. The others need more. `Lane` says that there is at most one reconnect thread and that the handle names it,
which thread may be where while the plugin is where, and so that a thread past its wait is the one a stop joins. `Stops`
says that from a stop on the event stays set; that is where both halves of `Apart` are needed, a report that meets the
stop resets the event and a thread that ends late clears its successor's flag. `Captures` and `Tells` connect `active`,
`reconnecting` and `told` with where the plugin is. The refinement follows: each signal is a step of `OutputLifecycle`,
everything else a stutter. For `ListenerKnows` the retry counter and the wait go together (`Series`): in a series the
wait is that of the retry before.

*The encoders.* `NoPacketAfterStop` rests on who is in the callbacks (`Members`: only outputs between their push and
their erase) and on the mutex held while they are called (`Owners`: who holds which mutex follows from where every
thread is). `CodecAlive` needs `Codecs` and `Connections`: with `init_mutex` free, an encoder is active, connected and
has callbacks, or none of these; in the middle of a change the holder's place says which is missing. An encoder that
failed stays without codec and connection, which leaves one thread that may still use it, the one in whose call it
failed. `CaptureIsFed` is the other direction of `Members`, for outputs that were not undercut and encoders that did not
fail.

*The set-up.* `Lifetimes` orders the ends of the sources, the audio output, the thread and its event; `Making` says how far
the thread is with its mixer at each place, and that a message holds a mixer only while the thread lives. `InEffect` says
which amounts of the mixer already equal the globals: those copied, but for the one a message has stored and not yet
passed on. `ArgsMeant` compares the state machine with sets of positions: `Reading` says that the state is the option at
the position before, if it awaits a value, and that each setting is the value of the last position that gives it one;
a step adds at most one position to each set.

*The capture.* `FrameIntact` follows from the ring's arithmetic (`Ring`: the slots in use run from `first`, `last` is the
newest of them, the slot being read is the first, the slot being written the next one). `VideoKeepsTime` needs that the
times of all frames in the ring, of the infos and of the clock abut (`Times`): each begins where the one before ends,
repeats included. `PictureLag` follows a picture through the textures (`Textures`: which tick each of them holds, by the
place in the tick) and its info through the queue (`Infos`: one info of each unmapped surface stays), to the ring
(`Pictures`). For `AudioKeepsTime` the buffered audio and what was sent abut (`AudioTime`), and each buffered
frame has the time it is due at or, from where a block was left out, is ahead of it by that block (`InTime`), which stays so
because the next block to come goes on from there.

*The asynchronous frames.* `RefsExact` is provable once it is said which sets a frame may be in: the cache and those it
marks, the queue, the hands of the two threads, the leaked. `Apart` says that queue and hands do not share a frame, that
the graphics thread picks none while it uploads one; `Marked`, that the cache marks exactly those in use; `Counted`,
that a count is the sum of four memberships. Each function on the cache is first reduced to what it does to these sets.
`Ordered` says that the queue is in order of time, after what was shown, and nothing in it is newer than the clock;
`ShownInOrder` follows. For `NoneWaitsLong`, `Recent` says why a frame in the queue is not old: it came within the time
a copy takes of the last tick, or it is at most `Smooth` behind the source's clock and that clock lags the system's by a
jump in time at most. `Loop` is the invariant of the loop of `ready_async_frame`, a recursive function over the queue:
the source's clock advances by at least what the system's did, and a frame that is not passed is less than `Smooth`
behind it. `Aging` adds the one that is shown.

*The interleaver.* The queue is in order, its times are the packets' dts shifted by one number before the start and zero
after it, the packets of a stream are one period apart with none missing (`Queue`), and they reach up to the one the
encoder makes next (`Reaches`). `Continues` ties the queue to what was sent: nothing queued or to come is before the
last packet sent, and the first packet of each stream in the queue follows the last one sent of it. The lemmas say what
each helper does to such a queue: inserting, discarding a prefix, pruning, subtracting offsets, and sorting, by
induction over the prefix sorted. `SentInOrder` and `WholeFromZero` follow from what makes `send_interleaved` pass a
packet: the encoder of the other stream has made a later one. `StartsInSync` is about the moment of the start (`Sync`):
until then video in the queue starts with a keyframe and has the audio up to it (`Startable`, while no video was passed
before the audio up to it), so at the start the closest audio packet is within a packet of it; whichever of the two is
cut, the keyframe stays (`Begun`). `StartsByKeyframe` adds the history (`Keys`): waiting video starts with the last
keyframe and the audio has not got past it by a packet, or that keyframe was discarded and the audio that comes next is
early enough for the one after it; `KeysApart` is what excludes that it is too late again.

*Only model-checked*: liveness (`EveryBlockHeard`, `ShutdownEnds`, `StopReturns`, `PairStarts`, `RetryResolves`,
`RequestEnds`). It rests on fairness and ENABLED, which the prover does not handle.

## 6. Not modelled

- Sample values, volume, clamping, conversion of formats, scaling, codecs, encoders' settings, log texts.
- The capture that starts before the mixer's buffers exist (`VDPAudioMixer.m:58`): the model starts when the mixer is
  built. More destinations than services (`VPObsStreamer.m:308`): the lists are fixed before the start.
- Memory layout: the header size of the shared file (`VPAudioOutputIPC.c:34`).
- The message ports' set-up, the plugins' loading, the destinations' dictionaries.
- The output delay (not configured), several audio tracks (one is), outputs that are not encoded (none is), pausing.
- Scenes, filters, transitions, the graphics API, effects, properties, hotkeys, data and utilities of libobs; plugin
  binaries and ffmpeg: vendored code, most of the repository's lines. The helper has one scene, set up once, whose
  operations run on the main thread before anything is shared. That is why the map covers a small share of the lines.

`PROJECT.json` lists these as components and, line by line, the hazards of the code with the properties that cover them.

## 7. Plan

Models: the lifetime of sources (references and weak references of `obs-source.c`); the composition of `ShmRing` and
`AudioMixer`, and of `Encoder` and `Interleaver`, in place of the assumption `Joins`. Abstract specifications still to
state: one merged, gapless stream for `Interleaver`, for which `SentInOrder` and `WholeFromZero` are the invariants a
refinement needs; a mailbox with a count for the serial part of `ShmRing`.
