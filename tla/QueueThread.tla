---------------------------- MODULE QueueThread ----------------------------
(***************************************************************************)
(* The queue thread of smelter-core (queue.rs, queue/queue_thread.rs,      *)
(* queue/video_queue.rs, queue/audio_queue.rs): one thread that merges the *)
(* video frames and the audio chunks of every input, and the scheduled     *)
(* events, into two output channels in PTS order.                          *)
(*                                                                         *)
(* The other actors are the callers of Queue::start, schedule_event,       *)
(* add_input and remove_input, the producers of the inputs, the renderer   *)
(* and mixer threads that read the two channels, Pipeline::drop and the    *)
(* wall clock.  The code of the video and of the audio half is the same    *)
(* twice, so both are one operator indexed by a side.                      *)
(*                                                                         *)
(* Time is counted in ticks since `sync_point`.  What one input holds is   *)
(* reduced to the PTS up to which it has data; QueueInput models the rest. *)
(***************************************************************************)
EXTENDS Integers, Sequences, FiniteSets

CONSTANTS
  Inputs,        \* the inputs that may be registered
  Required,      \* the inputs registered with `required: true`
  Waits,         \* the inputs whose offset is set before their first packet
  Events,        \* the calls of schedule_event
  EventPts,      \* the PTS values, relative to the start, they are scheduled for
  Period,        \* per side: duration of a video frame, audio_chunk_duration
  Ahead,         \* per side: how far past a batch's PTS the input needs data
  Chunk,         \* per side: the duration of a piece of input data, 0 for a frame
  Cap,           \* per side: capacity of the channel to the renderer / mixer
  Heads,         \* the PTS values the newest data of an input can have
  AheadOfTime,   \* option ahead_of_time_processing
  RunLate,       \* option run_late_scheduled_events
  NeverDrop,     \* option never_drop_output_frames
  MaxTime,       \* bound: the clock stops here
  MaxStart,      \* bound: latest tick at which Pipeline::start is called
  MaxBatches     \* bound: batches of a side

Sides == {"video", "audio"}

ASSUME ConstAssumption ==
  /\ Required \subseteq Inputs
  /\ Waits \subseteq Inputs
  /\ EventPts \subseteq Nat
  /\ Heads \subseteq Nat
  /\ Period \in [Sides -> Nat \ {0}]
  /\ Ahead \in [Sides -> Nat]
  /\ Chunk \in [Sides -> Nat]
  /\ Cap \in [Sides -> Nat \ {0}]
  /\ AheadOfTime \in BOOLEAN
  /\ RunLate \in BOOLEAN
  /\ NeverDrop \in BOOLEAN
  /\ MaxTime \in Nat
  /\ MaxStart \in Nat
  /\ MaxBatches \in Nat

VARIABLES
  now,           \* Instant::now() - sync_point
  startSender,   \* Queue::start_sender: "held", "sending" (rendezvous), "taken"
  startPts,      \* QueueContext::start_pts
  shouldClose,   \* Queue::should_close, set when the Pipeline is dropped
  pc,            \* where the queue thread is
  lastPts,       \* QueueContext::last_pts
  cnt,           \* sent_batches_counter and chunks_counter
  scheduled,     \* scheduled_events: PTS to callbacks
  ev,            \* every event: where it is, and whether it came late
  inputState,    \* registration of every input
  head,          \* PTS up to which a side of an input has data
  ended,         \* the producer of a side of an input dropped its sender
  eosSent,       \* event_eos_guard of a side of an input
  batch,         \* the batch the thread is sending
  chan,          \* the channels to the renderer and the mixer thread
  consumer,      \* the renderer and the mixer thread
  seen           \* ghost: the EOS flags the renderer and the mixer have read

callVars  == <<startSender, startPts, shouldClose>>
inputVars == <<inputState, head, ended>>
vars == <<now, callVars, pc, lastPts, cnt, scheduled, ev, inputVars, eosSent,
          batch, chan, consumer, seen>>

None    == -1
NoBatch == [side |-> "video", pts |-> None, required |-> FALSE, eos |-> {}]
NoEvent == [st |-> "none", pts |-> None, policy |-> "Default", late |-> FALSE]

Policies == {"Default", "AlwaysRun"}

Smaller(a, b) == IF a < b THEN a ELSE b
Larger(a, b)  == IF a > b THEN a ELSE b
-----------------------------------------------------------------------------
(* What the thread computes at the top of every iteration. *)

\* next_buffer_pts and the start of next_buffer_pts_range.
NextPts(s) == startPts + cnt[s] * Period[s]

\* Mutant: the side that is ahead is served first.
NextSideSwapped == IF NextPts("video") > NextPts("audio") THEN "video" ELSE "audio"

\* The side on_handle_tick turns to: audio only when video is strictly ahead.
NextSide == IF NextPts("video") > NextPts("audio") THEN "audio" ELSE "video"

PendingPts == {p \in EventPts : scheduled[p] # <<>>}

\* scheduled_events.first_key_value().
IsFirstEvent(p) == p \in PendingPts /\ \A q \in PendingPts : p <= q

\* Mutants: the audio side is not looked at; only an exact match is due.
EventDueVideoOnly(p) == IsFirstEvent(p) /\ startPts + p <= NextPts("video")
EventDueExactly(p)   == IsFirstEvent(p) /\ startPts + p = NextPts("video")

\* The first scheduled event comes before both the next frames and samples.
EventDue(p) ==
  /\ IsFirstEvent(p)
  /\ startPts + p <= NextPts("video")
  /\ startPts + p <= NextPts("audio")

\* Mutants: the end of the chunk, the batch before.
UpdateLastPtsToEnd(p)      == lastPts' = Larger(p + Period["audio"], lastPts)
UpdateLastPtsToPrevious(p) == lastPts' = p - Period["audio"]

\* SharedPts::update, which never moves back.
UpdateLastPts(p) == lastPts' = Larger(p, lastPts)

\* The inputs a side sees: registered there, and the strong reference alive.
Visible(s) ==
  {i \in Inputs : \/ inputState[i] = "added"
                  \/ s = "video" /\ inputState[i] = "adding"
                  \/ s = "audio" /\ inputState[i] = "removing"}

\* is_ready_for_pts: an input without an offset and without a packet is ready.
IsReady(s, i) ==
  \/ ended[s][i]
  \/ head[s][i] = 0 /\ i \notin Waits
  \/ head[s][i] >= NextPts(s) + Ahead[s]

\* Mutant: optional inputs are waited for as well.
ShouldPushWhenAllReady(s) ==
  /\ AheadOfTime \/ NextPts(s) <= now
  /\ \A i \in Visible(s) : IsReady(s, i)

\* should_push_next_frameset and should_push_for_pts_range.
ShouldPush(s) ==
  /\ AheadOfTime \/ NextPts(s) <= now
  /\ \/ \A i \in Visible(s) : IsReady(s, i)
     \/ /\ \A i \in Visible(s) \cap Required : IsReady(s, i)
        /\ NextPts(s) < now

\* check_eos: the side ended, its data is used up, EOS was not reported yet.  The
\* guard belongs to the track in the code; an input has a single track here.
EosIn(s) ==
  {i \in Visible(s) : /\ ended[s][i]
                      /\ head[s][i] - Chunk[s] < NextPts(s) + Ahead[s]
                      /\ i \notin eosSent[s]}

\* Mutant: a batch with an EOS flag may be dropped like any other.
NextBatchEosOptional(s) ==
  [side     |-> s,
   pts      |-> NextPts(s),
   required |-> Visible(s) \cap Required # {} \/ NeverDrop,
   eos      |-> EosIn(s)]

\* get_frames_batch and pop_samples_set, with the `required` of try_push_*.
NextBatch(s) ==
  [side     |-> s,
   pts      |-> NextPts(s),
   required |-> \/ Visible(s) \cap Required # {}
                \/ EosIn(s) # {}
                \/ NeverDrop,
   eos      |-> EosIn(s)]
-----------------------------------------------------------------------------
(* The queue thread. *)

AddScheduled(e) ==
  scheduled' = [scheduled EXCEPT ![ev[e].pts] = Append(@, e)]

\* The event with a new state; its PTS and its policy never change.
InState(e, st, late) ==
  [st |-> st, pts |-> ev[e].pts, policy |-> ev[e].policy, late |-> late]

\* Before the start an event is stored whatever its PTS is.
ReceiveEventBeforeStart(e) ==
  /\ pc = "before"
  /\ ev[e].st = "sending"
  /\ AddScheduled(e)
  /\ ev' = [ev EXCEPT ![e] = InState(e, "queued", FALSE)]
  /\ UNCHANGED <<now, callVars, pc, lastPts, cnt, inputVars, eosSent, batch,
                 chan, consumer, seen>>

ReceiveStart ==
  /\ pc = "before"
  /\ startSender = "sending"
  /\ startSender' = "taken"
  /\ pc' = "select"
  /\ UNCHANGED <<now, startPts, shouldClose, lastPts, cnt, scheduled, ev,
                 inputVars, eosSent, batch, chan, consumer, seen>>

\* A tick before the start: the loop condition ends the thread.
CloseBeforeStart ==
  /\ pc = "before"
  /\ shouldClose
  /\ pc' = "done"
  /\ UNCHANGED <<now, callVars, lastPts, cnt, scheduled, ev, inputVars,
                 eosSent, batch, chan, consumer, seen>>

\* The smallest PTS the thread still has to handle, in on_enqueue_event.
MinPts ==
  LET next == Smaller(NextPts("video"), NextPts("audio"))
  IN  IF PendingPts = {} THEN next
      ELSE Smaller(next, startPts + CHOOSE p \in PendingPts : IsFirstEvent(p))

AcceptsEvent(e) ==
  \/ startPts + ev[e].pts >= MinPts
  \/ ev[e].policy = "AlwaysRun"
  \/ RunLate

\* The queue already passed the PTS of the event.
IsLate(e) ==
  /\ startPts + ev[e].pts < NextPts("video")
  /\ startPts + ev[e].pts < NextPts("audio")

\* on_enqueue_event.
ReceiveEvent(e) ==
  /\ pc = "select"
  /\ ev[e].st = "sending"
  /\ \/ /\ AcceptsEvent(e)
        /\ AddScheduled(e)
        /\ ev' = [ev EXCEPT ![e] = InState(e, "queued", IsLate(e))]
     \/ /\ ~AcceptsEvent(e)
        /\ ev' = [ev EXCEPT ![e] = InState(e, "discarded", IsLate(e))]
        /\ UNCHANGED scheduled
  /\ UNCHANGED <<now, callVars, pc, lastPts, cnt, inputVars, eosSent, batch,
                 chan, consumer, seen>>

Tick ==
  /\ pc = "select"
  /\ pc' = "tick"
  /\ UNCHANGED <<now, callVars, lastPts, cnt, scheduled, ev, inputVars,
                 eosSent, batch, chan, consumer, seen>>

\* on_handle_tick runs every callback stored under the first PTS.
HandleEvent(p) ==
  /\ pc = "tick"
  /\ ~shouldClose
  /\ EventDue(p)
  /\ UpdateLastPts(startPts + p)
  /\ scheduled' = [scheduled EXCEPT ![p] = <<>>]
  /\ ev' = [e \in Events |->
              IF \E k \in 1 .. Len(scheduled[p]) : scheduled[p][k] = e
              THEN InState(e, "ran", ev[e].late) ELSE ev[e]]
  /\ UNCHANGED <<now, callVars, pc, cnt, inputVars, eosSent, batch, chan,
                 consumer, seen>>

\* try_push_next_frame_set / try_push_next_sample_batch up to the send.
PushBatch(s) ==
  /\ pc = "tick"
  /\ ~shouldClose
  /\ \A p \in EventPts : ~EventDue(p)
  /\ s = NextSide
  /\ cnt[s] < MaxBatches
  /\ UpdateLastPts(NextPts(s))
  /\ ShouldPush(s)
  /\ batch' = NextBatch(s)
  /\ eosSent' = [eosSent EXCEPT ![s] = @ \cup EosIn(s)]
  /\ pc' = "send"
  /\ UNCHANGED <<now, callVars, cnt, scheduled, ev, inputVars, chan, consumer,
                 seen>>

\* Mutant: the loop goes on instead of breaking.
NothingToPushContinues(s) ==
  /\ pc = "tick"
  /\ ~shouldClose
  /\ \A p \in EventPts : ~EventDue(p)
  /\ s = NextSide
  /\ UpdateLastPts(NextPts(s))
  /\ ~ShouldPush(s)
  /\ UNCHANGED <<now, callVars, pc, cnt, scheduled, ev, inputVars, eosSent,
                 batch, chan, consumer, seen>>

\* Nothing to push: the loop breaks, but last_pts was already updated.
NothingToPush(s) ==
  /\ pc = "tick"
  /\ ~shouldClose
  /\ \A p \in EventPts : ~EventDue(p)
  /\ s = NextSide
  /\ UpdateLastPts(NextPts(s))
  /\ ~ShouldPush(s)
  /\ pc' = "select"
  /\ UNCHANGED <<now, callVars, cnt, scheduled, ev, inputVars, eosSent, batch,
                 chan, consumer, seen>>

\* Both loop conditions read should_close.
CloseOnTick ==
  /\ pc = "tick"
  /\ shouldClose
  /\ pc' = "done"
  /\ UNCHANGED <<now, callVars, lastPts, cnt, scheduled, ev, inputVars,
                 eosSent, batch, chan, consumer, seen>>

\* Mutant: the counter stays.
SendReturnsUncounted ==
  /\ batch' = NoBatch
  /\ pc' = "tick"
  /\ UNCHANGED <<now, callVars, cnt, lastPts, scheduled, ev, inputVars, eosSent,
                 consumer, seen>>

\* After the send, whatever its result is, the counter moves on.
SendReturns ==
  /\ cnt' = [cnt EXCEPT ![batch.side] = @ + 1]
  /\ batch' = NoBatch
  /\ pc' = "tick"
  /\ UNCHANGED <<now, callVars, lastPts, scheduled, ev, inputVars, eosSent,
                 consumer, seen>>

HasRoom(s) == Len(chan[s]) < Cap[s]

SendOk ==
  /\ pc = "send"
  /\ consumer[batch.side] = "running"
  /\ HasRoom(batch.side)
  /\ chan' = [chan EXCEPT ![batch.side] = Append(@, batch)]
  /\ SendReturns

\* send_deadline gives up on a full channel when the batch is due.
SendTimeout ==
  /\ pc = "send"
  /\ consumer[batch.side] = "running"
  /\ ~HasRoom(batch.side)
  /\ ~batch.required
  /\ now >= batch.pts
  /\ UNCHANGED chan
  /\ SendReturns

\* Mutant: the send of a required batch does not notice it.
SendDisconnectedOptional ==
  /\ pc = "send"
  /\ consumer[batch.side] = "stopped"
  /\ ~batch.required
  /\ UNCHANGED chan
  /\ SendReturns

\* The receiver is gone: the batch is dropped with a warning.
SendDisconnected ==
  /\ pc = "send"
  /\ consumer[batch.side] = "stopped"
  /\ UNCHANGED chan
  /\ SendReturns

ThreadStep ==
  \/ \E e \in Events : ReceiveEventBeforeStart(e) \/ ReceiveEvent(e)
  \/ ReceiveStart
  \/ CloseBeforeStart
  \/ Tick
  \/ \E p \in EventPts : HandleEvent(p)
  \/ \E s \in Sides : PushBatch(s) \/ NothingToPush(s)
  \/ CloseOnTick
  \/ SendOk
  \/ SendTimeout
  \/ SendDisconnected
-----------------------------------------------------------------------------
(* The renderer thread and the mixer thread, as far as the queue sees them. *)

\* frames_receiver.iter(): once the pipeline is dropped the loop breaks and
\* the receiver, with what it holds, is gone.
Consume(s) ==
  /\ consumer[s] = "running"
  /\ chan[s] # <<>>
  /\ \/ /\ ~shouldClose
        /\ chan' = [chan EXCEPT ![s] = Tail(@)]
        /\ seen' = [seen EXCEPT ![s] = @ \cup Head(chan[s]).eos]
        /\ UNCHANGED consumer
     \/ /\ shouldClose
        /\ chan' = [chan EXCEPT ![s] = <<>>]
        /\ consumer' = [consumer EXCEPT ![s] = "stopped"]
        /\ UNCHANGED seen
  /\ UNCHANGED <<now, callVars, pc, lastPts, cnt, scheduled, ev, inputVars,
                 eosSent, batch>>

\* The iterator ends when the queue thread dropped its sender.
ConsumerEnds(s) ==
  /\ consumer[s] = "running"
  /\ chan[s] = <<>>
  /\ pc = "done"
  /\ consumer' = [consumer EXCEPT ![s] = "stopped"]
  /\ UNCHANGED <<now, callVars, pc, lastPts, cnt, scheduled, ev, inputVars,
                 eosSent, batch, chan, seen>>

ConsumerStep(s) == Consume(s) \/ ConsumerEnds(s)
-----------------------------------------------------------------------------
(* The callers, the producers and the clock. *)

\* Queue::start publishes start_pts, then blocks in the rendezvous.
Start ==
  /\ startSender = "held"
  /\ ~shouldClose
  /\ now <= MaxStart
  /\ startSender' = "sending"
  /\ startPts' = Larger(now, startPts)
  /\ UNCHANGED <<now, shouldClose, pc, lastPts, cnt, scheduled, ev, inputVars,
                 eosSent, batch, chan, consumer, seen>>

\* schedule_event blocks until the thread is in its select.
ScheduleEvent(e, p, policy) ==
  /\ ev[e].st = "none"
  /\ ~shouldClose
  /\ ev' = [ev EXCEPT ![e] = [st |-> "sending", pts |-> p, policy |-> policy,
                              late |-> FALSE]]
  /\ UNCHANGED <<now, callVars, pc, lastPts, cnt, scheduled, inputVars,
                 eosSent, batch, chan, consumer, seen>>

\* Pipeline::drop.  The callers above borrow the Arc of the pipeline, so it is
\* not dropped while one of them is blocked.
Shutdown ==
  /\ ~shouldClose
  /\ startSender # "sending"
  /\ \A e \in Events : ev[e].st # "sending"
  /\ \A i \in Inputs : inputState[i] \notin {"adding", "removing"}
  /\ shouldClose' = TRUE
  /\ UNCHANGED <<now, startSender, startPts, pc, lastPts, cnt, scheduled, ev,
                 inputVars, eosSent, batch, chan, consumer, seen>>

\* Queue::add_input takes the lock of the video and of the audio queue in turn.
AddInputVideo(i) ==
  /\ inputState[i] = "new"
  /\ ~shouldClose
  /\ inputState' = [inputState EXCEPT ![i] = "adding"]
  /\ UNCHANGED <<now, callVars, pc, lastPts, cnt, scheduled, ev, head, ended,
                 eosSent, batch, chan, consumer, seen>>

AddInputAudio(i) ==
  /\ inputState[i] = "adding"
  /\ inputState' = [inputState EXCEPT ![i] = "added"]
  /\ UNCHANGED <<now, callVars, pc, lastPts, cnt, scheduled, ev, head, ended,
                 eosSent, batch, chan, consumer, seen>>

\* Queue::remove_input drops a strong reference, then takes the two locks in turn.
\* If that was the last reference both sides lose the input at once; while a call
\* of the owner of the input holds another one, audio still sees it.
RemoveInput(i) ==
  /\ inputState[i] = "added"
  /\ ~shouldClose
  /\ \E st \in {"removing", "removed"} : inputState' = [inputState EXCEPT ![i] = st]
  /\ UNCHANGED <<now, callVars, pc, lastPts, cnt, scheduled, ev, head, ended,
                 eosSent, batch, chan, consumer, seen>>

RemoveInputAudio(i) ==
  /\ inputState[i] = "removing"
  /\ inputState' = [inputState EXCEPT ![i] = "removed"]
  /\ UNCHANGED <<now, callVars, pc, lastPts, cnt, scheduled, ev, head, ended,
                 eosSent, batch, chan, consumer, seen>>

\* A producer delivers data, or drops its sender.
Produce(s, i, h) ==
  /\ ~ended[s][i]
  /\ h > head[s][i]
  /\ head' = [head EXCEPT ![s][i] = h]
  /\ UNCHANGED <<now, callVars, pc, lastPts, cnt, scheduled, ev, inputState,
                 ended, eosSent, batch, chan, consumer, seen>>

EndOfStream(s, i) ==
  /\ ~ended[s][i]
  /\ ended' = [ended EXCEPT ![s][i] = TRUE]
  /\ UNCHANGED <<now, callVars, pc, lastPts, cnt, scheduled, ev, inputState,
                 head, eosSent, batch, chan, consumer, seen>>

Elapse ==
  /\ now < MaxTime
  /\ now' = now + 1
  /\ UNCHANGED <<callVars, pc, lastPts, cnt, scheduled, ev, inputVars, eosSent,
                 batch, chan, consumer, seen>>
-----------------------------------------------------------------------------
Init ==
  /\ now = 0
  /\ startSender = "held"
  /\ startPts = None
  /\ shouldClose = FALSE
  /\ pc = "before"
  /\ lastPts = None
  /\ cnt = [s \in Sides |-> 0]
  /\ scheduled = [p \in EventPts |-> <<>>]
  /\ ev = [e \in Events |-> NoEvent]
  /\ inputState = [i \in Inputs |-> "new"]
  /\ head = [s \in Sides |-> [i \in Inputs |-> 0]]
  /\ ended = [s \in Sides |-> [i \in Inputs |-> FALSE]]
  /\ eosSent = [s \in Sides |-> {}]
  /\ batch = NoBatch
  /\ chan = [s \in Sides |-> <<>>]
  /\ consumer = [s \in Sides |-> "running"]
  /\ seen = [s \in Sides |-> {}]

Next ==
  \/ ThreadStep
  \/ \E s \in Sides : ConsumerStep(s)
  \/ Start
  \/ \E e \in Events, p \in EventPts, policy \in Policies :
        ScheduleEvent(e, p, policy)
  \/ Shutdown
  \/ \E i \in Inputs : \/ AddInputVideo(i) \/ AddInputAudio(i)
                        \/ RemoveInput(i) \/ RemoveInputAudio(i)
  \/ \E s \in Sides, i \in Inputs :
        EndOfStream(s, i) \/ \E h \in Heads : Produce(s, i, h)
  \/ Elapse

Spec == Init /\ [][Next]_vars

(* Fairness: the operating system runs the queue, renderer and mixer threads,  *)
(* the clock advances, and select! picks among its ready operations at random, *)
(* so an operation that is ready again and again is picked.                    *)
LiveSpec ==
  /\ Spec
  /\ WF_vars(Elapse)
  /\ WF_vars(ThreadStep)
  /\ SF_vars(\E e \in Events : ReceiveEvent(e))
  /\ \A s \in Sides : WF_vars(ConsumerStep(s))
  /\ \A i \in Inputs : WF_vars(AddInputAudio(i)) /\ WF_vars(RemoveInputAudio(i))

\* In addition every producer delivers all of its data, or ends.
LiveProducersSpec ==
  /\ LiveSpec
  /\ \A s \in Sides, i \in Inputs : WF_vars(\E h \in Heads : Produce(s, i, h))
-----------------------------------------------------------------------------
(* Properties. *)

BatchType == [side : Sides, pts : Nat \cup {None}, required : BOOLEAN,
              eos : SUBSET Inputs]

\* Type invariant: every variable holds a value of the type it has in the code.
TypeOK ==
  /\ now \in Nat
  /\ startSender \in {"held", "sending", "taken"}
  /\ startPts \in Nat \cup {None}
  /\ shouldClose \in BOOLEAN
  /\ pc \in {"before", "select", "tick", "send", "done"}
  /\ lastPts \in Nat \cup {None}
  /\ cnt \in [Sides -> Nat]
  /\ scheduled \in [EventPts -> Seq(Events)]
  /\ ev \in [Events -> [st : {"none", "sending", "queued", "discarded", "ran"},
                        pts : EventPts \cup {None},
                        policy : Policies,
                        late : BOOLEAN]]
  /\ inputState \in [Inputs -> {"new", "adding", "added", "removing", "removed"}]
  /\ head \in [Sides -> [Inputs -> Nat]]
  /\ ended \in [Sides -> [Inputs -> BOOLEAN]]
  /\ eosSent \in [Sides -> SUBSET Inputs]
  /\ batch \in BatchType
  /\ chan \in [Sides -> Seq(BatchType)]
  /\ consumer \in [Sides -> {"running", "stopped"}]
  /\ seen \in [Sides -> SUBSET Inputs]

Started == pc \in {"select", "tick", "send"}

\* The PTS of the last batch of a side that was sent or dropped.
LastOf(s) == NextPts(s) - Period[s]

\* Neither side runs ahead of the other by more than one batch of its own:
\* on_handle_tick always turns to the side that is behind, and the counter of
\* that side moves by one even when its batch is dropped on timeout.
Interleaved ==
  Started =>
    /\ NextPts("video") <= NextPts("audio") + Period["video"]
    /\ NextPts("audio") <  NextPts("video") + Period["audio"]

\* last_pts separates what the queue emitted from what it has still to emit,
\* although late events and empty ticks update it too.  Inputs place their new
\* tracks and measure pauses with it.
LastPtsSeparates ==
  Started =>
    \A s \in Sides :
      /\ lastPts <= NextPts(s)
      /\ cnt[s] > 0 => LastOf(s) <= lastPts
      /\ pc = "send" => batch.pts <= lastPts

\* A scheduled event that arrived in time is never discarded, and it runs at its
\* place in the output: while it waits, everything emitted belongs before it
\* (video of the same PTS may be out already when the event arrives, audio may
\* not), and nothing emitted after it ran belongs before it.
EventsInPlace ==
  \A e \in Events :
    /\ ev[e].st = "discarded" => ev[e].late
    /\ Started /\ ev[e].st = "queued" /\ ~ev[e].late =>
          /\ cnt["video"] > 0 => LastOf("video") <= startPts + ev[e].pts
          /\ cnt["audio"] > 0 => LastOf("audio") <  startPts + ev[e].pts
          /\ pc = "send"      => batch.pts       <  startPts + ev[e].pts
    /\ Started /\ ev[e].st = "ran" =>
          \A s \in Sides : startPts + ev[e].pts <= NextPts(s)

EosIndexes(s, i) == {k \in 1 .. Len(chan[s]) : i \in chan[s][k].eos}

\* EOS of a side of an input reaches the renderer or the mixer exactly once,
\* however slow they are: event_eos_guard lets it into one batch, and that batch
\* is `required`, so that a full channel delays it instead of dropping it.
EosExactlyOnce ==
  \A s \in Sides, i \in Inputs :
    consumer[s] = "running" =>
      LET sending == IF batch.side = s /\ i \in batch.eos THEN 1 ELSE 0
          read    == IF i \in seen[s] THEN 1 ELSE 0
      IN  Cardinality(EosIndexes(s, i)) + sending + read
            = IF i \in eosSent[s] THEN 1 ELSE 0

\* The renderer and the mixer read batches in PTS order, one for each slot of
\* the output timeline at most, and only slots the counter has passed.
ChannelsInOrder ==
  Started =>
    \A s \in Sides :
      \A k \in 1 .. Len(chan[s]) :
        /\ chan[s][k].pts <= LastOf(s)
        /\ \A l \in 1 .. k - 1 : chan[s][l].pts < chan[s][k].pts

\* QueueContext::last_pts never goes back.
LastPtsMonotonic == [][lastPts' >= lastPts]_vars

\* queue.rs on run_late_scheduled_events: an event scheduled too late is
\* discarded when the option is false.  It does not hold (README, Observations).
LateEventsDiscarded ==
  \A e \in Events :
    ~RunLate /\ ev[e].policy = "Default" /\ ev[e].late
      => ev[e].st = "discarded"

\* Once the queue is started an event it accepted runs, unless the pipeline is
\* dropped.
EventsRun ==
  \A e \in Events :
    Started /\ ev[e].st = "queued" ~> (ev[e].st = "ran" \/ shouldClose)

\* A caller of schedule_event does not stay blocked in the rendezvous, although
\* the thread may itself be blocked in a send to a full channel.
ScheduleReturns == \A e \in Events : ev[e].st = "sending" ~> ev[e].st # "sending"

\* Inputs that are not required never stall the queue: without any data from
\* them it emits or drops every batch that is due.
OptionalInputsNeverStall ==
  pc = "select" ~> (shouldClose \/ \A s \in Sides : NextPts(s) >= MaxTime)

\* When the pipeline is dropped the queue thread ends, even if it is blocked in
\* the send of a required batch, and so do the renderer and the mixer thread.
ShutdownCompletes ==
  shouldClose ~> (pc = "done" /\ \A s \in Sides : consumer[s] = "stopped")
=============================================================================
