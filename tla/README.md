# TLA+ model of Smelter

Smelter composes live video and audio. Inputs (RTP, RTMP, HLS, MP4, WebRTC,
capture cards) are demuxed and decoded by threads of their own, aligned to one
clock by a *queue*, rendered and mixed, encoded, and sent to outputs. This
directory holds a formal model of the places where these threads meet: the
TLA+ modules, the TLC instances that check them, and proofs that hold for every
value of the parameters. Paths below are relative to the repository; `core/`
stands for `smelter-core/src/`.

## Inventory

### The core pipeline

| component | state it keeps | operations | hard behaviour |
|---|---|---|---|
| Queue thread: `core/queue.rs`, `core/queue/{queue_thread,video_queue,audio_queue}.rs` | start PTS, last PTS, a counter per output stream, scheduled events | start, tick, schedule_event, add_input, remove_input, shutdown | two streams and events merged in PTS order, with deadlines, slow consumers and a shutdown in the middle of a send |
| Queue input: `core/queue/{queue_input,video_input,audio_input,utils}.rs` | current and pending tracks, a shared track offset, pause state, a buffer per stream, once-only events | queue_new_track, abort_old_track, pause, resume, and what the thread asks of it | offsets set by whoever comes first, pauses that span the start or a track change, buffers that must not drop audio |
| Duration-bounded channel: `core/pipeline/utils/channel.rs` | a buffer with a limit in time rather than in items | send, send_timeout, try_send, recv, try_recv, drops | condition variables woken one at a time |
| Pipeline: `core/pipeline/{instance,input,output}.rs` | registered inputs and outputs, end conditions | register, unregister, update, start, renderer and mixer threads, drop | end-of-stream decided from two threads against registrations from a third |
| MP4 input: `core/pipeline/mp4/mp4_input.rs` | play position, loop flag, tracks handed to the queue | play, loop, seek, pause, resume | a manager thread that may block in the queue while it has commands to serve |
| RTP input: `core/pipeline/rtp/rtp_input.rs`, `rtp_input/{jitter_buffer,rollover_state}.rs` | per track a buffer by sequence number, the next number, the count of rounds | a packet, a goodbye, a timeout, the end of the connection | reordering, loss, repetition, numbers that wrap, one thread for all tracks |
| H.264 decoding: `gpu-video/src/parser/reference_manager.rs`, `gpu-video/src/backends/vulkan` | reference pictures by frame number, slots of the decoded picture buffer, decode commands in flight | an access unit, a flush, a notice of data loss, a late failure | two tables that must name the same pictures, errors in the middle of an event, losses nobody notices |
| Live synchronisation: `core/pipeline/utils/live_sync`, `rtp_input/rtcp_sync.rs` | estimators, RTCP offsets | packet arrival | clocks that drift |
| Protocol adaptors: `core/pipeline/{hls,moq,rtmp,webrtc,decklink,v4l2}` | sessions | connect, publish, reconnect | mostly library and device I/O |
| Decoders, encoders: `core/pipeline/{decoder,encoder}` | codec contexts | decode, encode, flush | EOS and flush order |
| Audio mixer: `core/audio_mixer` | resampler state | mix a chunk | numeric |
| Renderer: `smelter-render` | scene tree, transition state, GPU resources | update scene, render | transition state kept across updates |

### Around it

the rest of `gpu-video` (bit stream parsers, encoders, Vulkan wrappers), `rtmp`
(chunk stream, AMF, client and server sessions), `smelter-api` and the HTTP
server in `src/` (JSON to core types), `decklink` and `libcef` (bindings),
`smelter-render-wasm`, the TypeScript and Python SDKs, tools, and integration
tests. `PROJECT.json` lists each with the reason it is or is not modelled.

### How the components interact

Producers push frames and samples into the crossbeam channels of a queue input.
The queue thread pulls from them when it asks whether an input is ready for the
next PTS, and pushes batches to the renderer thread and to the mixer thread.
These send their results to the outputs' encoder threads, and decide from the
EOS flags in the batches when an output ends. Callers of the API register inputs
and outputs, schedule events and update scenes while all this runs; the queue
runs scheduled events on its own thread.

An RTP demuxer thread sorts packets per track and sends them, with the gaps it
has given up on, to the decoder thread of the track; the manager of an MP4 input
starts and stops readers that do the same with the file, and queues a track for
every loop and every seek. A decoder thread hands chunks to `gpu-video`, whose
reference manager turns access units into instructions (decode into a slot, drop
a slot) that are executed at once but run asynchronously on the GPU.

## Modules

| module | models | state and actions against the code |
|---|---|---|
| `QueueThread` | `queue.rs`, `queue_thread.rs`, readiness and batches of `video_queue.rs`, `audio_queue.rs` | `pc` is where the queue thread is: in the `select!` before the start, in the one after it, in the loop of `on_handle_tick`, in the send of a batch. One action per arm and per way out of each arm; a blocked send is a state, so the clock, consumers and callers run meanwhile. An input is the PTS up to which it has data. |
| `QueueInput` | `queue_input.rs`, `video_input.rs`, `audio_input.rs`, `utils.rs` | One input as the queue thread visits it, one action per taking of its lock, and the calls of its owner in between. Items of a stream are numbered, a receiver is the interval `lo+1..hi` in its buffer with the state New / Running / Done. What has arrived in the channel is chosen when the channel is read (`Fetch`). |
| `DurationChannel` | `pipeline/utils/channel.rs` | One action from taking the mutex to releasing it or to `wait`, a set of sleepers per condition variable, `notify_one` as the removal of one of them, spurious wake-ups and timeouts as wake-ups nobody asked for. |
| `BoundedChannel` | the promise of `DurationChannel` | A FIFO queue in which sends wait; a waiting send is admitted whenever there is room. It knows no condition variables. |
| `PipelineOutputs` | `instance.rs`, `output.rs`, `input.rs` | One action per critical section of the pipeline lock, and one per stretch between two of them in the renderer and the mixer thread. `Refs` tell two registrations of one `OutputId` apart. |
| `RtpDemuxer` | `rtp_input.rs` (`RtpDemuxerThread`), `jitter_buffer.rs` (`FixedWindow`), `rollover_state.rs` | `pc` is the place in `run`: waiting for a message, the two loops of `process_rtp_from_jitter_buffer` (`Merge`, `Drain`), a packet, a goodbye, the end. One action per packet that leaves a buffer. A packet is its position in the stream; on the wire it is the position modulo `SeqMod`, and `Rolled` guesses the round. |
| `OrderedStream` | the promise of `RtpDemuxer` | Per track, every position is told once, in order, with its packet or as lost. It knows no buffer and no sequence numbers. |
| `ReferenceManager` | `parser/reference_manager.rs`, `decoder_instructions.rs` | Operators only, as `put_picture` is a function of the context and a picture: frame numbers and gaps, the list of a P slice and its modifications, sliding window and adaptive marking, the instructions that result. |
| `H264Stream` | an encoder (external) | The reference definition: clause 8.2.5 in terms of pictures in decoding order instead of numbers (`short`, `long`); a gap it leaves on purpose is shorter than a round of `frame_num` (`CanSkip`). It writes into each header, for the properties, the pictures it predicted from. |
| `H264Decoder` | `decoders_h264.rs`, `vulkan_decoder.rs`, `wrappers/video.rs`, `waiter_thread.rs` | One action per event (a chunk, a flush, a notice of loss), one per instruction executed on the slots, one per decode command whose result becomes known. |
| `Mp4TrackManager` | `mp4_input.rs` | One action per round of the manager's `run` up to where it may block: the receive, `queue_new_track`, the join of the readers, the sleep after a seek. Readers end by themselves or because they are marked or their receiver is gone; their notices go through the same channel as the calls. |
| `QueueThreadProofs`, `QueueInputProofs`, `DurationChannelProofs`, `PipelineOutputsProofs`, `RtpDemuxerProofs`, `ReferenceManagerProofs`, `H264DecoderProofs`, `Mp4TrackManagerProofs` | | Theorems about the modules they extend. |
| `MC*` | | Values for the constants of the runs. |

### How they fit together

- `QueueThread` reduces an input to a PTS that grows (`Produce`), two flags and
  a registration; `QueueInput` models what is behind it for one input, and
  reduces the thread to the order of its visits. Neither is a refinement of the
  other: the first is about inputs against each other and against slow
  consumers, the second about one input against its owner.
- `PipelineOutputs` lets the queue end a stream of an input at most once and
  never lose that end (`EmitBatch`). `EosExactlyOnce` of `QueueThread` is the
  reason why it may.
- `DurationChannel` implements `BoundedChannel`; the refinement mapping is at
  the end of `DurationChannel` (`Promise`). The channel joins demuxers and
  decoders and has no part in the other modules.
- `Mp4TrackManager` reduces the `QueueInput` it feeds to which track plays, how
  many are pending, and the pause; `QueueInput` has the same calls from the
  other side.
- `RtpDemuxer` implements `OrderedStream` (`Stream`, at the end of the module).
- `H264Decoder` composes the encoder of `H264Stream`, a channel that loses
  pictures, `ReferenceManager` and the decoded picture buffer.

## What the runs check

Bounds are named in the modules and given in the `.cfg` files. A tick in the
queue modules is about 10 ms; frames are 3 ticks apart and chunks 2, so both
orders of the two streams, and the tie, occur within six ticks.

### Queue thread

| run | instance | properties |
|---|---|---|
| `qt_events` | two events, three event times, both policies and `run_late_scheduled_events` false, so that late events are refused or not, time up to 6, four batches a side, no inputs, so nothing but consumers delays a batch | `TypeOK`; `Interleaved`: neither stream runs ahead of the other; `LastPtsSeparates`: `last_pts` parts what was emitted from what is to come; `EventsInPlace`: an event that came in time is not discarded and runs at its place among the batches; `ChannelsInOrder` |
| `qt_eos` | one optional input that can be added, deliver, end and be removed at any time, under `LiveSpec` | `EosExactlyOnce`; `OptionalInputsNeverStall`: output goes on though the input delivers nothing; `ShutdownCompletes`: when the pipeline is dropped, whatever the threads do, all three end |
| `qt_live` | one required input and one event, under `LiveProducersSpec` | `EventsRun`, `ScheduleReturns` |

One input is enough for the EOS of a batch, because each input is handled by
itself and batches only collect their flags. Two events are the smallest number
with a first and a second pending one. `remove_input` is two steps, as the code
drops the input (and takes the lock of one side) before it takes the lock of the
other: a side may still see it when the other does not.

### Queue input

| run | instance | properties |
|---|---|---|
| `qi_pause` | an optional input on the real-time clock; a track with an open offset, then a video track placed relative to the start; one pause with its resume and one `abort_old_track` (paused or not), at any point between two visits, from before the start on | `TypeOK`; `ExactFrame`: a batch the input was ready for shows the newest frame that is not newer than it, however late frames left the decoder (as long as nobody paused); `TimelyAudio`: no samples are left for the mixer a chunk too late; `EosOnTime`: EOS neither overtakes data nor comes before the timeline has reached the end; `OffsetPlaced`: an offset is set once, exactly to where the caller put the track or to the moment or batch that found its first item, and changes after that only by the length of a pause; `PauseKeepsOffset`, `PauseStopsConsumption`: once the thread of the side knows of the start, its visits to a paused input change neither offset nor buffers |
| `qi_live` | a required input whose chunks need more audio than its buffer holds; second track without video | `TracksPlay`: every queued track is played to its end |

Two items a stream give a first and a last one with a boundary between them, and
two tracks a change with something on both sides of it. The buffer
holds two ticks, in `qi_live` less than a track, so that it fills. The clock of `qi_pause`
stops at 2, after three frames and one chunk, the length of the first track; one
more tick doubles the states and reaches no new kind of step. `PauseEarly`
tells whether pauses come before the first tick; it is TRUE in
`qi_pause`. Before the start the clean-up
does change what a paused input holds (see *Observations*), which is why the
last two properties start with the start.

### Channel

`dc_all` has three senders (two that compete, and one more to be woken wrongly)
that send any number of items, among them one that fills the channel alone and
one without a timestamp; a call begins with at most two items in the buffer,
which covers empty, partly full, full, and overfull by items without timestamps.
`NobodySleepsInVain`: if a sender sleeps and there is room, somebody has been
woken who will use it or pass it on; the same for the receiver, for a receiver
that goes away, and for both ends together. `ImplementsChannel`: safety and
liveness of `BoundedChannel`, whose fairness says that a send for which there is
room completes.

### Outputs

`po_all` has two inputs, one output id that is registered twice, and the
conditions `all_inputs`, `any_input`, `any_of` and `all_of`. `KnowsItsInputs`:
what an end condition believes of the inputs is true, whenever the output
started and whoever came and went since. `EndsRightly`: an output ends only if
its condition holds of the streams, not just of what has been heard of them.
`EosInTheEnd`: and if it holds, the output gets its EOS. `NothingAfterEos`: a
receiver gets one EOS and nothing after it, though senders are used after the
lock was released. `NothingForTheGone`: nothing is rendered for outputs that are
gone, not started or finished. No `InputId` is registered twice there
(`ReuseInputs = FALSE`); with ids that are registered again `EndsRightly` does
not hold (see *Observations*), so that case is covered by no property. Of
`any_input` the last two properties of ends say little:
any end that has occurred satisfies it, and it never holds from the start.

The run has the video side only. The two sides are the same code twice and touch
each other's state nowhere; they differ in that rendering and the first scene may
fail (both only on video) and that `update_output` connects an output to the
renderer again. Two sides at once were checked with one input and one
registration. Two registrations of an id are what a stale id needs; a third
meets the same code as the second.

### RTP demuxer

`rtp_all` has a video track with B-frames (four packets with PTS 0, 3, 1, 2: the
second frame sent is the last one shown) and an audio track of two packets. Sequence numbers
are taken modulo 16 and the streams start at 14, so both cross the wrap with
packets of both sides in the buffer. A packet arrives at most two behind the
newest, up to one in a row is skipped, packets repeat, goodbyes name any tracks
at any time, the connection may end without one, decoders may end early.
`ImplementsOrderedStream`; `LeavesInTime`: without a goodbye a position is given
up only when two packets that came, both behind it in the stream, have PTS a
window apart, and whenever the thread waits for the network no track has a
packet that is ready; `EosInTheEnd`. The buffer measures its window between the
smallest and the largest PTS it holds, so with B-frames neither of the two need
be the next packet or the last one.

A few packets a track are more than the window holds, which is what a gap that
is waited for, given up, and followed by its late packet needs. Modulo 16 half a
round is 7, more than the distance of any two packets that follow one another
(`StreamAssumption`), as it is with 2^16. Nothing is assumed about timestamps.

### H.264

`h264_all` sets the encoder against the decoder in three scenarios: strict
handling with decode commands that fail late; strict handling with long-term
references; lenient handling with intended gaps in `frame_num`. Frame numbers
are taken modulo 3, the buffer has two references, a group of pictures has four
pictures with at most one lost (noticed or not), the splitter holds back one
access unit and one command is in flight: the number wraps within a group, the
window slides, and what a group leaves behind meets the next one.
`DecodedAsEncoded`: while the stream arrives whole, the slots an instruction
names hold the pictures the encoder predicted from, in its order;
`WholeStreamAccepted`: and none of it is refused; `BufferMirrorsReferences`: no
slot leaks, not after the errors of an earlier group either; `SlotsApart`; and
`StrictReferencesAreRight`: in strict handling a reference picture is decoded
from the right pictures or not at all. `h264_batch` is finding 1.

The encoder is narrower than the standard: a header has at most one modification
of the reference list and marks one picture at a time, and there is
one long-term index; longer sequences, which the manager handles by going
through them one by one, are left out. The model's encoder never asks for a
modification behind the end of the list, where `insert` would panic
(reference_manager.rs:1089), so the model has no such outcome. A chunk completes
at most one access unit in the model; only a flush completes several.

### MP4

A call is a seek, a pause or a resume; the input may be removed and a reader may
fail to start at any time. A stream *fits* if the channels take it whole, so
that its reader ends though nobody consumes.

`mp4_all` has video that fits and audio that does not, two calls, two loops, and
one place for pending tracks. `LoopsFollowTheEnd`: no loop starts on the notice
of a reader that a seek has stopped; `RequestsServed`: a track that was sought
becomes the one that plays, also while the input is paused; a resume ends the
pause; and after the removal manager and readers end.

Two loops and one place are the least with which the tracks pile up during a
pause until the manager blocks in `queue_new_track`, with a call behind it in
the channel. `RequestsServed` names what the code does not keep then: a resume
is not served while the manager is stuck (`Stuck`; `mp4_short` drops this
exception: finding 2), a removal that meets a blocked manager need not end it
(`Blocked`), and a seek is only said to play if no track of a loop is pending
before its own (`NextInLine`; see *Observations*). The last needs two places, and
with `MaxPending = 2` the property was checked as well. Two calls are a pause against
its resume, a seek against a pause, or one seek against another.

### Fairness

- `QueueThread!LiveSpec`: the three threads and the clock go on (weak fairness).
  `select!` picks among its ready arms at random, so an event that waits while
  ticks keep coming is picked at some time (strong fairness of `ReceiveEvent`).
  A call of `add_input` or `remove_input` that took the first lock takes the
  second.
  `LiveProducersSpec` adds that producers deliver; it is used only for what
  cannot hold otherwise: a required input that never delivers blocks the queue
  by design.
- `QueueInput!LiveSpec`: the queue thread, the clock, the start and the caller
  that queues tracks go on; strong fairness of `ReceiveStart` for the same
  `select!`, and of `Arrival`: a producer that is asked again and again sends in
  the end.
- `DurationChannel!FairSpec`: a thread that was woken gets the mutex and goes
  on. Nothing makes a caller send, receive or drop its handle.
- `PipelineOutputs!FairSpec`: the queue goes on sending batches and each thread
  goes on with what it does. Nothing makes inputs end.
- `RtpDemuxer!LiveSpec`: the thread runs. `recv_timeout` returns by itself.
  Nothing makes packets arrive or connections end.
- `Mp4TrackManager!LiveSpec`: each of the three, manager, readers and queue, does
  something as long as it can; the queue plays what it has and goes to the next
  track, unless the input is paused; nothing
  makes a reader reach its end during a pause.
- `H264Decoder` has no fairness and no liveness property: every step of it is a
  call that returns.

## What is proved

All theorems hold for every value of the constants that the assumptions of the
modules admit. `ConstAssumption` in each module says what the code's types say.

**`QueueThreadProofs`**: `TypeOK`, `Interleaved`, `LastPtsSeparates`,
`EventsInPlace`, `LastPtsMonotonic`, `ChannelsInOrder` and `EosExactlyOnce`, for
any number of inputs and events, any frame and chunk duration, any capacities.
`EosExactlyOnce` counts the EOS of a side of an input; that they follow the data
is `EosOnTime` of `QueueInput`, and the guard that keeps them to one is per track
in the code, so the theorem is about inputs with one track.
`IInv` is their conjunction with four facts they need: `StartOrder` (until the thread has
received the start, no batch is counted and no event has run), `SendingSlot` (the batch in the send is the
next one of its side, and it is that side's turn) and `Registered` (an event is
stored under its own PTS, exactly while it is queued) and `EosPlaces` (an EOS is
in at most one place: in the send, in the channel, or read, and nowhere before
the input was told). Interleaving is inductive
because a slot is counted only for the side that is behind; an event is in its
place because `EventDue` asks for both sides and an event that is still waiting
stops both. An EOS goes out once because the counting of a batch sets the guard
and a batch that has an EOS is never dropped; a channel is in order because a
slot is counted when its send begins, and the clock gives a slot but one PTS.

**`QueueInputProofs`**: for any tracks and where they are placed, any distance
of frames, chunks and items, any sizes of the buffers and channels, any calls.
Without a hypothesis: `TypeOK`, `ExactFrame` (which is about runs without a pause:
the version with pauses does not hold, see *Observations*), `TimelyAudio` (nothing
due is left in the buffer; it does not count what was handed on), `OffsetPlaced`,
`PauseKeepsOffset`, `PauseStopsConsumption`, and `PauseFreezesInput` (from the
moment the thread knows the start, its visits to a paused input leave both
receivers and the offset as they are). Only `EosOnTime` is proved under
`~PauseEarly` (nobody pauses before the first tick): `qi_pause` checks it without
that condition, but before the first tick a pause may lie behind the clock and the
batches, and the strengthening below orders them. The argument has three layers,
of which `OffsetPlaced` needs the second only: `VisitPlaces` and `ReplacePlaces`
show that every outcome of a visit, and of a swap of tracks, leaves the offset
open or at its `Place`, and `OffsetPlacedStep` that nobody else touches it.

- What all outcomes of an operator have in common. `Fetch`, `Poll`, the
  readiness of a receiver, the clean-up and the lookup of a frame return sets of
  outcomes, one for each way in which items may have arrived. `FetchEffect`,
  `PollEffect`, `ReceiverReadyEffect`, `TakenEffect`, `CleanedEffect` and the
  others bound such a set: nothing is received twice or skipped, nothing leaves
  a buffer but from its front, what is dropped is older than what is asked for.
  `PtsOrder` (numbers and timestamps of items are one order) and `MaxOfBounded`
  carry the comparisons.
- `Base`: receivers and counters are consistent (`Numbers`, `Receivers`), one
  frame at most is repeated (`OneFrame`), the thread is within one batch of each
  side (`OneBatch`), and the times of the start, the batches and the pause are
  in order (`Timeline`). `TypeOK` is part of it.
- What the properties need of the past. `SureReady`: a batch that was found
  ready has the item that made it ready. `FrontDue`: what was dropped of a
  stream is due at the last time the thread asked for (`Horizon`), as long as
  nobody paused. `Consumed`: whatever left a buffer, up to `Position`, was due.
  `PausedInRun` and `CleanedPast`: a pause is in the run, and the mark of the
  last clean-up is in the past.

The attempt to prove `EosOnTime` found a fault of the property: the mark
`cleaned`, before which a clean-up may have dropped data, did not move with the
offset when `Resume` shifts the track. The run's instance is too small to show
it; the module and the theorem have the mark moved.

**`DurationChannelProofs`**: for any set of senders and any timestamps,
`TypeOK`, `NobodySleepsInVain`, `EndsWithTheLast`, and `Implements`: each step
of the channel is a step of `BoundedChannel` or a stutter. `IInv` adds that
`sender_count` is the number of handles (`Counted`, with the cardinality of a
finite set) and that a receiver that is gone does not sleep (`RxOrder`). The
argument for wake-ups: a pop wakes one sender; the one that is woken sends and,
if it leaves room, wakes the next; one whose time is up fails only if the
channel is full, so that it has no wake-up to pass on; and the drop of the
receiver wakes all of them. A positive capacity is needed only for
`NeverBothAsleep`.

**`PipelineOutputsProofs`**: for any inputs, output ids and registrations, any
conditions and both sides at once, `TypeOK`, `KnowsItsInputs`,
`NothingForTheGone` and `NothingAfterEos`; and `EndsRightly` if no `InputId` is
registered twice (`~ReuseInputs`; otherwise it does not hold, see
*Observations*). `IInv` adds five facts. `CondOrder`: an output sends EOS only
after it ended, and ends only after it started. `RefOrder`: a `Ref` names one
registration, and its start event does not outlive its start. `PhaseOrder`: what
the threads carry over the phases of a batch. `Disconnecting`: an output that
sent EOS is disconnected or about to be. `EosOrder`: of what a thread still has
to send, nothing follows an EOS. The last is the heart of it: `Statuses` splits
the outputs into those that send EOS and those that send data in one critical
section and marks the former, so a stale sender may outlive its output but never
meets an EOS to the same `Ref`, although the id may be registered again.
`EndsRightly` rests on `LiveOrder`: a live stream has not been ended in any
place between the queue and `inputs`, so the live streams are among those the
conditions count, and every condition is antitone in them.

**`RtpDemuxerProofs`**: for any number of tracks, any length of the streams, any
round of the sequence numbers, any window and any timestamps at all, `TypeOK`, `LeavesInTime` and `Implements` (every step of the thread is
a step of `OrderedStream` or a stutter). `IInv` is the types, `MsgOrder` (which
message the thread holds at which place), `Drained` and `ReadOut` (a track the
second loop has passed has nothing ready), and five facts per track: `StoredAt`
(a buffered position has arrived and is stored under its own number, so numbers
and positions are one order), `Kept` (what has arrived and is not behind the
reader is still stored), `ReadBehind` (nothing in the buffer is before what was
read), `Overtaken` (what was given up has two packets behind it a window apart)
and `Near` (the packet that arrived last is within the bounds of the newest).
`arrived` is a ghost variable, so that the property speaks of packets that came
and not of what the buffer holds of them. The heart is `RolledRight`: if two packets that arrive one after the other are less
than half a round apart, the guessed round is the true one, across the wrap in
either direction. That is what `StreamAssumption` asks for, along with a stream
that does not begin next to a wrap, where it fails (see *Observations*).

**`ReferenceManagerProofs`**: what the reference manager tells the buffer to do.
`Refs(c)` are the ids of the existing references of a context, `Effect` is what
one instruction does to a set of ids (and what it takes for granted: a decoded
id is not in the set, a dropped one is), and `Leads(ins, K, L)` says that a list
of instructions, executed one by one, goes from `K` to `L`.
`InstructionsFollowReferences`: for any headers of the parser's types (`IsHeader`),
any context whose ids are apart
(`Sound`) and any number of access units, the instructions of a chunk that is not
refused lead from `Refs` before to `Refs` after, and the context stays sound.
There is a lemma for each part of `put_picture`: inferred pictures, the sliding
window, each of the six memory management operations (with the one that fails
half-way), IDR pictures, pictures that are no reference. `FoldLeft` is a recursive
function over sets of positions; `FoldExists` shows that the function exists, and
each fold then goes by induction on its prefixes. `Effect` speaks of ids only;
which references a picture is decoded from is proved below.

**`H264DecoderProofs`**: `SlotsApart`, for any buffer size, with nothing assumed
about the instructions: whatever the reference manager makes of a stream, and
whatever fails half-way, no two references share a slot and no slot of a
reference is free. Its `IInv` is the property with the types of the slots; an
instruction that decodes takes a slot that is free, and one that drops frees the
slots of what it drops only. `BufferMirrorsReferences`, for the encoder with
any of its features, any number of references, any range of `frame_num`, any
losses, delays and failures: the property speaks of the moments between two events only, so the
invariant `Mirror` says that while the stream is followed the instructions still
to execute lead from the ids in the buffer to the references of the context,
which runs ahead of the buffer within an event. When the stream is not followed
the instructions lead from some set nobody need hold, which is enough because an
IDR instruction starts over. `TypeOK` (`TypeCorrect`) comes with it. Its invariant
has two parts: `StreamTypes`, that the encoder, the headers and the instructions
under way are well-formed and the context is sound, and `BufferTypes`, the types of
the slots and the bounds of the two queues.

The other three invariants relate ids and numbers to the pictures of the encoder.
`DecodedAsEncoded` and `WholeStreamAccepted` are proved for any range of
`frame_num`, any losses, delays and failures and streams with at least one
reference and without operation 5 (without these, neither holds: see
*Observations*). The argument has three layers.

- One picture. `Sim` says that a context matches an encoder: one map from ids to
  pictures takes the short-term and long-term references of the manager, in their
  order and with their numbers, to those of the encoder. Lemmas show that the two
  stay matched through each part of `put_picture`: that sorting by wrapped numbers
  gives the encoder's default list (`ListsAgree`, through `SortedReverses`: the
  list is the reverse of one that rises), that a modification moves up the picture
  the encoder meant (`ModifiedRight`), that the sliding window and each operation
  evict the same pictures (`SlideAgrees`, `UnmarkStep` to `ConvertStep`), and that
  an intended gap infers what the encoder left out (`GapFilled`). `PictureRight`
  puts them together.
- Several pictures. `Expects` follows the access units that are still in the
  splitters and `Shows` the instructions still to execute, each as a run of
  one-step relations (`Runs`), with a mode that tells whether the manager follows
  the stream, lost something, or is off until the next IDR picture.
- The system. `Track` says that the buffer, through the instructions, leads to the
  context, and the context, through the access units, to the encoder.

`StrictReferencesAreRight` is proved for the same streams if also an event
completes at most one access unit (`MaxDelay <= 1`; with two it does not hold,
finding 1) and fewer pictures are lost since the last IDR picture than
`frame_num` can tell (`MaxLost + 1 < MaxFrameNum`). `StrictTrack` replaces
`Track`: after a loss without a notice the encoder is some lost reference pictures
ahead of `PrevRefFrameNum` (`Trails`), so the next reference picture does not
follow (`TrailsOn`), is refused, and leaves the context corrupted; from then on
nothing but non-reference pictures is decoded until an IDR picture. `h264_all`
is an instance that meets these conditions.

**`Mp4TrackManagerProofs`**: `LoopsFollowTheEnd`, for any calls, any number of
tracks and any limit of pending ones. `IInv` adds `StopOrder` (only tracks
before the newest are marked, until the manager ends), `Unborn` (a track not
queued yet has no readers), `Notices` (a notice in the channel comes from a
reader that is through) and `NewestReads` (while the input is registered nobody
stops the readers of the newest track, so a notice of theirs is one of the end).
`TypeOK`, for any bound on loops and any calls, is less plain than it looks: that
no track beyond `Tracks` is ever asked for rests on counting. Each track after
the first is due to a call or to a reader that reached its end (`Counted`: the
tracks queued, the calls not handled yet and the seek that is owed together never
exceed `MaxLoops + 1` and the calls there are), and a reader finishes by itself
only on the first `MaxLoops` tracks (`Ended`).

**Only model-checked**: everything under fairness (`OptionalInputsNeverStall`,
`ShutdownCompletes`, `EventsRun`, `ScheduleReturns`, `TracksPlay`, the two
`EosInTheEnd`, `RequestsServed`, the fairness of `BoundedChannel`), which is out
of the prover's reach. Every invariant and every action property of a run that
passes is a theorem, under the conditions named above.

## Findings

Runs that end in a violation check what a comment or a document says.

1. `h264_batch` (decoder_instructions.rs:54): when one event completes two
   access units (a flush does), the error of the first one discards the second.
   If that is an IDR picture, the reference manager never sees it, and later
   pictures of its group can be decoded from references of the old one, though
   strict handling promises an "error on every subsequent frame that depends on
   them" (device.rs).
2. `mp4_short` (mp4_input.rs:328): while a looped input is paused, a stream that
   fits into the channels is read to its end again and again; each time a track
   is queued, until `MAX_PENDING_TRACKS` are pending and the manager blocks in
   `queue_new_track`. A resume then waits behind it in the channel of the
   manager, and nothing else ends the pause.

### Observations

Met while modelling, without a run of their own. The first eight were checked
with TLC as violations of the definitions named, which the modules keep:

- `LateEventsDiscarded` (queue_thread.rs:203), with the constants of `qt_events`:
  with `run_late_scheduled_events` false, a late event is accepted and runs if an
  `AlwaysRun` event that is late itself is still pending, because `min_pts`
  includes the pending events. queue.rs:132-134 says that late events are
  discarded.
- `OffsetWaitsForResume` (video_input.rs:246), with the constants of `qi_pause`:
  before the start the clean-up fixes an open offset during a pause, and `resume`
  then adds the whole pause, the part before the first packet included.
  queue_input.rs:182-184 expects that there is no offset yet.
- `OpenTrackAfterStart` (video_input.rs:101), with the constants of `qi_pause`:
  between the start and the first tick `pause()` fixes an open offset to 0
  (`unwrap_or_default`), where queue.rs:90-92 promises the PTS of the queue at
  which the packet was observed. `OffsetPlaced` excepts this moment by name
  (`AskedBeforeTick`).
- `EndsRightly` (instance.rs:474), with `ReuseInputs = TRUE` in `po_all`: an EOS
  that waits in a channel is matched by `InputId`. If the id has been registered
  again, the new input is marked as ended, and an output that was registered since
  and lists it ends though its input plays.
- `SeekAbortsOldTracks` (mp4_input.rs:377), in `mp4_all` with `MaxPending = 2`: a
  seek drops one track half a second after it queued another. If the reader of a
  looped file has reached the end while the input is paused, the track of the next
  loop is pending before the sought one; then the frame of the loop track is
  shown, against "old tracks are aborted" (mp4_input.rs:64). The sought track
  itself is never dropped: when it plays already, nothing is pending and
  `abort_old_track` does nothing.
- `ResumesWhereItStopped` (video_input.rs:101): `pause()` looks up the frame to
  repeat at `last_pts`, but the probe of the next video batch may have dropped
  it already. The paused input shows nothing, and after resume the frame at
  which it stopped is gone (mp4_input.rs:61: "Resuming restores queue
  consumption from where it stopped").
- Before the start the clean-up drops data of a paused input
  (video_input.rs:248; mp4_input.rs:60: "Pausing stops queue consumption"):
  `PauseStopsConsumption` without the condition that the thread knows of the
  start.
- `StaysConnected` (instance.rs:563, and 486 for video): a finished output is
  taken out of the mixer by its id after the lock was released. If the id was
  registered again meanwhile, the new output is removed and never gets data.
- `effective_last_pts` falls back to the clock before the first tick and may
  step back at it (queue.rs:157).
- Video stops reading at 100 ms while a chunk waits for audio
  (video_input.rs:360): a demuxer that sends both from one thread in file order
  must interleave them that closely.
- Items without a timestamp do not count towards the capacity of a channel
  (channel.rs:30).
- `Pipeline::start` does not set `is_started` (instance.rs:386), and it holds
  the pipeline lock during the rendezvous with the queue thread.
- `Renderer::unregister_output` takes its lock twice (state.rs:109).

RTP and MP4:

- The count of rounds starts at 0 and cannot go below it (rollover_state.rs:51):
  if a stream begins just behind a wrap and a packet from before the wrap comes
  late, that packet gets a number a round too high. `StreamAssumption` keeps
  streams away from there.
- A connection that ends without a goodbye loses what is still buffered; a
  packet that comes after the goodbye of its track is still sent after the EOS.
- The partial frame of a depayloader survives a `LostPacket`
  (rtp/depayloader.rs:108).
- A manager that is blocked in `queue_new_track` when its input is removed holds
  the last reference to the queue input; threads and file stay until the pending
  tracks have been played, which without the queue is never.

H.264:

- After memory management operation 5, `PrevRefFrameNum` is not reset
  (reference_manager.rs, end of `put_picture`): a legal stream that arrives
  whole is refused in strict handling. `Scenarios <- MCResetting` makes
  `h264_all` fail with `WholeStreamAccepted`; the scenarios of the run do not
  use the operation. The picture that carries it also keeps its `FrameNum` among
  the references, where the encoder counts on from 0: checked alone,
  `DecodedAsEncoded` fails too.
- With `MaxRefs = 0`, `h264_all` fails with `DecodedAsEncoded`: a stream that
  declares no reference frames gets one slot (session_resources.rs:91), which
  the IDR picture keeps, so the picture after it finds none. If a stream may
  declare that and still go on after its IDR picture, it is not decoded.
- Non-reference pictures are decoded although the state is known to be corrupted
  (reference_manager.rs:960); `StrictReferencesAreRight` is about reference
  pictures.
- A modification of short-term references may match a long-term picture with the
  same `FrameNum`, and then fails (reference_manager.rs:1133).
- The loss of an IDR picture, or of as many reference pictures as a round of
  `frame_num` has, is not visible in `frame_num`; the model's encoder does not
  lose IDR pictures, and `MaxLost` is below the other bound. Nor is the loss of
  a picture with operation 5: `StrictReferencesAreRight` fails with `MCResetting`.
- The report of a failed command may come after the next IDR picture and then
  has the healthy group refused; an IDR picture whose own command fails on the
  driver's side leaves ids that alias those of the old group
  (vulkan_decoder.rs:189); the flag a notice of loss sets is cleared by an IDR
  picture that was buffered before the loss (vulkan_h264.rs:64).

## Not modelled

- Inside the modelled components: side channels of the queue and their delay;
  the notifications `delivered` and `playing`; a change of `stale_frame_timeout`
  while an input runs; keyframe requests; fonts, images and shaders; the drop of
  the pipeline as `PipelineOutputs` would see it (`ShutdownCompletes` has it
  from the queue's side).
- Inputs with several tracks as `QueueThread` and `PipelineOutputs` see them: the
  guard of an EOS is per track (queue_input.rs:97-98), so such an input reports an
  EOS at the end of each of them; the two modules have one track per input
  (`EosIn`, `EmitBatch`). `QueueInput` has several.
- H.264: chunks that complete several access units, and the error when
  `wait_if_full` times out (decoders_h264.rs:149-164).
- RTP: sender reports and the synchronisation of clocks, the `RealTime` mode of
  the jitter buffer (WebRTC only), depayloaders, sockets. H.264: B slices and
  picture order counts, changes of the parameter sets, the order of output
  frames, parse errors. MP4: demuxing, sample positions, the exact capacity of
  the channels.
- The content of frames, samples, scenes and mixes. What the renderer produces
  is a set of outputs; sends to outputs do not block (encoders are assumed to
  drain their channels).
- The other components of the inventory: either protocol adaptors and bindings,
  whose correctness is that of a library or a device, or numeric code, or
  planned (below). `PROJECT.json` has the reason for each.

## Plan

Done, in this order: queue thread, queue input, channel, outputs; then the RTP
demuxer with its abstract stream, the H.264 reference manager against a
reference definition, and the MP4 track manager; proofs for each.

Next:

1. `live_sync` and the RTCP offsets; the frame sorter of `gpu-video` and, with
   it, picture order counts and B slices.
2. The scene state that survives updates, and the RTMP chunk stream.
