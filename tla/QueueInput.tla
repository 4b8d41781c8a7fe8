----------------------------- MODULE QueueInput -----------------------------
(***************************************************************************)
(* One input of the queue (queue/queue_input.rs, video_input.rs,           *)
(* audio_input.rs): its tracks, the offset that places a track on the      *)
(* timeline of the queue, pause and resume, the two buffers and the EOS of *)
(* each stream.                                                            *)
(*                                                                         *)
(* The queue thread visits the input in the order of queue_thread.rs and   *)
(* takes its lock anew for every visit; callers that queue tracks, drop    *)
(* the old one, pause and resume come in between.  Producers are not a     *)
(* state of their own: whether the next item is in the channel, and        *)
(* whether the sender is gone, is decided when the channel is read.        *)
(*                                                                         *)
(* Times are ticks since `sync_point`.  Side channels, their delay, the    *)
(* other events and what QueueThread models (consumers, scheduled events,  *)
(* several inputs) are left out.                                           *)
(***************************************************************************)
EXTENDS Integers, FiniteSets, FiniteSetsExt

CONSTANTS
  NumTracks,     \* the tracks queued one after the other
  Items,         \* per track and side: the number of items, None without a stream
  Placed,        \* per track: [by |-> "none" | "pts" | "start", at |-> PTS]
  ItemLength,    \* per side: distance of two items
  Period,        \* per side: distance of two batches of the queue
  Stretch,       \* MIXER_STRETCH_BUFFER
  MaxSize,       \* max_size of both receivers
  MaxPending,    \* MAX_PENDING_TRACKS
  StaleTimeout,  \* stale_frame_timeout
  Required,      \* QueueInputOptions::required
  AheadOfTime,   \* ahead_of_time_processing
  PauseEarly,    \* bound: whether pause is called before the first tick
  MaxPauses,     \* bound: calls of pause
  MaxAborts,     \* bound: calls of abort_old_track
  StartBy,       \* bound: the queue is started at this time at the latest
  QueueBy,       \* bound: tracks are queued up to this batch
  MaxClock,      \* bound: the clock stops here
  MaxTime        \* bound: the batches stop here

Sides  == {"video", "audio"}
Tracks == 1 .. NumTracks

\* No timestamp; it lies before all of them.
None == -1000

ASSUME ConstAssumption ==
  /\ NumTracks \in Nat \ {0}
  /\ Items \in [Tracks -> [Sides -> Nat \cup {None}]]
  /\ \A t \in Tracks : \E s \in Sides : Items[t][s] # None
  /\ Placed \in [Tracks -> [by : {"none", "pts", "start"}, at : Nat]]
  /\ ItemLength \in [Sides -> Nat \ {0}]
  /\ Period \in [Sides -> Nat \ {0}]
  /\ {Stretch, MaxSize, StaleTimeout, MaxPauses, MaxAborts, StartBy, QueueBy, MaxClock, MaxTime}
       \subseteq Nat
  /\ MaxPending \in Nat \ {0}
  /\ {Required, AheadOfTime, PauseEarly} \subseteq BOOLEAN

VARIABLES
  now,           \* the clock
  startPts,      \* QueueContext::start_pts
  lastPts,       \* QueueContext::last_pts
  pc,            \* the visit the queue thread makes next, and for which side
  next,          \* per side: PTS of the next batch, None before the start
  cur,           \* the current track, 0 without one
  queued,        \* the tracks queued so far: those beyond cur are pending
  offset,        \* the TrackOffset of the current track
  recv,          \* per side: the receiver of the current track
  eosSent,       \* per side: event_eos_guard of the current track
  pausedAt,      \* PauseState::paused_at_pts; both sides are paused with it
  pausedFrame,   \* VideoQueueInput::paused_frame
  calls,         \* calls of pause and of abort_old_track
  sure,          \* ghost: ready for the batch, and nobody interfered since
  cleaned,       \* ghost: how far old data was dropped after `start`, moved as offset is
  out            \* ghost: what the last batch took from this input

trackVars == <<cur, offset, recv, eosSent, pausedAt, pausedFrame>>
ghostVars == <<sure, cleaned, out>>
vars == <<now, startPts, lastPts, pc, next, trackVars, queued, calls, ghostVars>>

Started == startPts # None
Larger(a, b) == IF a > b THEN a ELSE b

\* QueueContext::effective_last_pts.
EffectiveLastPts == IF lastPts = None THEN now ELSE lastPts
-----------------------------------------------------------------------------
(* The receivers.  The items of a stream are numbered; a buffer holds      *)
(* lo + 1 .. hi.                                                           *)

Stream(t, s) ==
  [side |-> s, track |-> t, lo |-> 0, hi |-> 0, closed |-> FALSE,
   st |-> IF t = 0 \/ Items[t][s] = None THEN "absent" ELSE "new"]

Present(s) == recv[s].st # "absent"

Count(r)  == Items[r.track][r.side]
Pts(s, k) == (k - 1) * ItemLength[s]

\* A frame is a point in time, a batch of samples covers its length.
EndPts(s, k) == IF s = "video" THEN Pts(s, k) ELSE Pts(s, k + 1)

Size(r) == IF r.lo = r.hi THEN 0 ELSE EndPts(r.side, r.hi) - Pts(r.side, r.lo + 1)

\* Mutant: audio stops at max_size even if the chunk needs more.
IsFullAtSize(r, p) == Size(r) >= MaxSize

\* Audio goes on beyond max_size until it covers what is needed.
IsFull(r, p) ==
  /\ Size(r) >= MaxSize
  /\ r.side = "audio" => r.lo < r.hi /\ EndPts("audio", r.hi) > p

\* Mutant: a frame goes as soon as it is old itself.
DropOlderAll(r, p) ==
  [r EXCEPT !.lo = Max({r.lo} \cup {k \in r.lo + 1 .. r.hi : Pts("video", k) < p})]

\* prepare_for_pts drops the first frame while the second is not newer than p.
DropOlder(r, p) ==
  [r EXCEPT !.lo =
     Max({r.lo} \cup {k \in r.lo + 1 .. r.hi - 1 : Pts("video", k + 1) <= p})]

\* Mutant: the stream is over as soon as the sender is gone.
SettledClosed(r) == IF r.closed THEN [r EXCEPT !.st = "done"] ELSE r

\* maybe_transition_to_done.
Settled(r) == IF r.closed /\ r.lo = r.hi THEN [r EXCEPT !.st = "done"] ELSE r

\* Every outcome of reading the channel for PTS p: any number of items may have
\* arrived, and after the last of them the end of the stream.
Fetch(r, p) ==
  LET Trim(q) == IF r.side = "video" THEN DropOlder(q, p) ELSE q
      With(h) == Trim([r EXCEPT !.hi = h, !.st = IF h > r.hi THEN "running" ELSE @])
      reached == {h \in r.hi .. Count(r) :
                    \A j \in r.hi .. h - 1 : ~IsFull(With(j), p)}
      ends    == {h \in reached : h = Count(r) /\ ~IsFull(With(h), p)}
  IN  IF r.closed THEN {Settled(Trim(r))}
      ELSE {With(h) : h \in reached}
             \cup {Settled([With(h) EXCEPT !.closed = TRUE]) : h \in ends}

\* VideoInputReceiver::state and AudioInputReceiver::state.
Poll(r) == Fetch(r, IF r.side = "video" THEN None ELSE 0)

\* get_for_pts with frame_for_pts: the front frame, popped if it is the last.
FrameFor(r, p) ==
  LET Front(q) ==
        IF q.lo = q.hi \/ Pts("video", q.lo + 1) > p THEN [r |-> q, items |-> {}]
        ELSE [r |-> IF q.closed /\ q.hi = q.lo + 1
                    THEN Settled([q EXCEPT !.lo = q.hi]) ELSE q,
              items |-> IF p - Pts("video", q.lo + 1) > StaleTimeout THEN {}
                        ELSE {q.lo + 1}]
  IN  IF r.st = "done" THEN {[r |-> r, items |-> {}]}
      ELSE {Front(q) : q \in Fetch(r, p)}

\* pop_before_pts: every batch that begins before p.
SamplesBefore(r, p) ==
  LET Popped(q) == {k \in q.lo + 1 .. q.hi : Pts("audio", k) < p}
      Rest(q)   == Settled([q EXCEPT !.lo = Max({q.lo} \cup Popped(q))])
  IN  IF r.st = "done" THEN {[r |-> r, items |-> {}]}
      ELSE {[r |-> Rest(q), items |-> Popped(q)] : q \in Fetch(r, p)}

\* Mutant: anything in the buffer is enough.
HasDataAny(r, p) == r.lo < r.hi

\* What makes an open stream ready for p.
HasData(r, p) ==
  IF r.side = "video"
  THEN \/ r.lo < r.hi /\ Pts("video", r.lo + 1) > p
       \/ r.lo + 1 < r.hi /\ Pts("video", r.lo + 2) > p
  ELSE r.lo < r.hi /\ EndPts("audio", r.hi) >= p

\* is_ready_for_pts of the receivers; only audio polls first.
ReceiverReady(r, p) ==
  LET Open(q) == {[r |-> f, ready |-> HasData(f, p) \/ (f.side = "audio" /\ f.st = "done")]
                    : f \in Fetch(q, p)}
  IN  UNION {IF q.closed THEN {[r |-> q, ready |-> TRUE]} ELSE Open(q)
               : q \in IF r.side = "video" THEN {r} ELSE Poll(r)}
-----------------------------------------------------------------------------
(* The offset of the track, and what a side does for the batch at p.       *)

\* The value get_or_init writes into the cell.
InitialOffset(r, p) ==
  IF Placed[r.track].by = "start" THEN startPts + Placed[r.track].at ELSE p

\* Mutant: each side initializes the shared offset, also after the other.
ResolveEach(r, cell, p) ==
  {[r |-> q, cell |-> IF q.st = "running" THEN InitialOffset(q, p) ELSE cell] : q \in Poll(r)}

\* resolve_offset of both sides: it polls, and a running stream fixes the offset.
Resolve(r, cell, p) ==
  {[r |-> q, cell |-> IF q.st = "running" /\ cell = None THEN InitialOffset(q, p) ELSE cell]
     : q \in Poll(r)}

\* The PTS a batch at p needs data for.
Needed(s, p) == IF s = "video" THEN p ELSE p + Period["audio"] + Stretch

\* The batch at p ends before a track placed relative to the start begins.
BeforeTrack(r, p) ==
  /\ Placed[r.track].by = "start"
  /\ (IF r.side = "video" THEN p ELSE p + Period["audio"]) < startPts + Placed[r.track].at

\* is_ready_for_pts of the inputs, when not paused.
Readiness(r, cell, p) ==
  LET Open(q) == {[r |-> f, cell |-> None,
                   ready |-> f.st = "new" /\ Placed[f.track].by = "start" => BeforeTrack(f, p)]
                    : f \in Poll(q)}
      Known(x) == {[r |-> y.r, cell |-> x.cell, ready |-> y.ready]
                     : y \in ReceiverReady(x.r, Needed(r.side, p) - x.cell)}
  IN  UNION {IF x.cell = None THEN Open(x.r) ELSE Known(x) : x \in Resolve(r, cell, p)}

\* get_frame and pop_samples, when not paused.
Contents(r, cell, p) ==
  LET Skip(x) == {[r |-> x.r, cell |-> x.cell, items |-> {}, at |-> None]}
      Take(x) == {[r |-> y.r, cell |-> x.cell, items |-> y.items,
                   at |-> Needed(r.side, p) - x.cell]
                    : y \in IF r.side = "video" THEN FrameFor(x.r, p - x.cell)
                            ELSE SamplesBefore(x.r, Needed("audio", p) - x.cell)}
  IN  UNION {IF x.cell = None \/ (r.side = "audio" /\ BeforeTrack(r, p)) THEN Skip(x)
             ELSE Take(x) : x \in Resolve(r, cell, p)}

\* drop_old_frames_before_start and drop_old_samples_before_start.
Cleaned(r, cell) ==
  LET off == IF cell = None THEN now ELSE cell
      Drop(q) == {[r |-> y.r, cell |-> off]
                    : y \in IF r.side = "video" THEN ReceiverReady(q, now - off)
                            ELSE SamplesBefore(q, now - off)}
  IN  UNION {IF q.st = "new" \/ Placed[q.track].by = "start" THEN {[r |-> q, cell |-> cell]}
             ELSE Drop(q) : q \in Poll(r)}
-----------------------------------------------------------------------------
(* What the thread and the callers do with the lock of the input.          *)

\* VideoQueueInput::pause remembers the frame to repeat.
Frozen(r, cell) ==
  LET p == IF lastPts = None THEN 0 ELSE lastPts
      Keep(x) == {[r |-> x.r, cell |-> x.cell, items |-> {}]}
      Show(x) == {[r |-> y.r, cell |-> x.cell, items |-> y.items]
                    : y \in FrameFor(x.r, p - x.cell)}
  IN  IF r.st = "absent" \/ ~Started THEN {[r |-> r, cell |-> cell, items |-> {}]}
      ELSE UNION {IF x.cell = None THEN Keep(x) ELSE Show(x) : x \in Resolve(r, cell, p)}

\* In replace_track the video of a paused input is advanced before it is paused.
ReplacedFrozen(r, cell) ==
  UNION {Frozen(x.r, x.cell)
           : x \in IF r.st = "absent" THEN {[r |-> r, cell |-> cell]}
                   ELSE IF Started THEN Readiness(r, cell, EffectiveLastPts)
                   ELSE Cleaned(r, cell)}

ReplaceTrack ==
  LET t     == cur + 1
      cell  == IF Placed[t].by = "pts" THEN Placed[t].at ELSE None
      fresh == {[r |-> Stream(t, "video"), cell |-> cell, items |-> {}]}
  IN  /\ cur < queued
      /\ cur' = t
      /\ eosSent' = [s \in Sides |-> FALSE]
      /\ pausedAt' = IF pausedAt = None THEN None ELSE EffectiveLastPts
      /\ \E x \in IF pausedAt = None THEN fresh
                  ELSE ReplacedFrozen(Stream(t, "video"), cell) :
           /\ recv' = [s \in Sides |-> IF s = "video" THEN x.r ELSE Stream(t, "audio")]
           /\ offset' = x.cell
           /\ pausedFrame' = x.items


\* maybe_start_next_track.
TrackOver == \A s \in Sides : Present(s) => eosSent[s]

\* Before the start the thread cleans up after each track visit; after it the
\* thread probes both sides, chooses one, and visits it again to push a batch.
PcAfter(s) ==
  [track   |-> IF next[s] = None THEN <<"clean", s>> ELSE <<"ready", s>>,
   clean   |-> IF s = "video" THEN <<"track", "audio">> ELSE <<"track", "video">>,
   ready   |-> IF s = "video" THEN <<"track", "audio">> ELSE <<"choose", "video">>,
   retrack |-> <<"check", s>>,
   take    |-> <<"track", "video">>]

Visit(phase, s) == pc = <<phase, s>>

\* for_each(|input| input.maybe_start_next_track())
StartNextTrack(phase, s) ==
  /\ Visit(phase, s)
  /\ IF TrackOver /\ cur < queued THEN ReplaceTrack ELSE UNCHANGED trackVars
  /\ pc' = PcAfter(s)[phase]
  /\ out' = {}
  /\ UNCHANGED <<now, startPts, lastPts, next, queued, calls, sure, cleaned>>

CleanUp(s) ==
  /\ Visit("clean", s)
  /\ IF Present(s)
     THEN \E x \in Cleaned(recv[s], offset) :
            recv' = [recv EXCEPT ![s] = x.r] /\ offset' = x.cell
     ELSE UNCHANGED <<recv, offset>>
  /\ cleaned' = IF Started THEN now ELSE cleaned
  /\ pc' = PcAfter(s)["clean"]
  /\ UNCHANGED <<now, startPts, lastPts, next, cur, queued, eosSent, pausedAt, pausedFrame,
                 calls, sure, out>>

\* QueueThreadAfterStart::new, when the thread is back in its select!.
ReceiveStart ==
  /\ Visit("track", "video") /\ Started /\ next["video"] = None
  /\ next' = [s \in Sides |-> startPts]
  /\ UNCHANGED <<now, startPts, lastPts, pc, trackVars, queued, calls, ghostVars>>

\* Mutant: a paused input reads on.
ProbePaused(s) ==
  IF Present(s) THEN Readiness(recv[s], offset, next[s])
  ELSE {[r |-> recv[s], cell |-> offset, ready |-> TRUE]}

\* What should_push finds for this input: a paused one is always ready.
Probe(s) ==
  IF Present(s) /\ pausedAt = None THEN Readiness(recv[s], offset, next[s])
  ELSE {[r |-> recv[s], cell |-> offset, ready |-> TRUE]}

ProbeReady(s) ==
  /\ Visit("ready", s)
  /\ \E x \in Probe(s) : recv' = [recv EXCEPT ![s] = x.r] /\ offset' = x.cell
  /\ pc' = PcAfter(s)["ready"]
  /\ UNCHANGED <<now, startPts, lastPts, next, cur, queued, eosSent, pausedAt, pausedFrame,
                 calls, ghostVars>>

\* on_handle_tick: audio goes first if it is behind.
ChooseSide ==
  LET s == IF next["video"] > next["audio"] THEN "audio" ELSE "video"
  IN  /\ Visit("choose", "video")
      /\ lastPts' = Larger(lastPts, next[s])
      /\ pc' = <<"retrack", s>>
      /\ UNCHANGED <<now, startPts, next, trackVars, queued, calls, ghostVars>>

\* should_push of the chosen side; without a push the tick is over.
Check(s) ==
  /\ Visit("check", s)
  /\ \E x \in Probe(s) :
       /\ recv' = [recv EXCEPT ![s] = x.r] /\ offset' = x.cell
       /\ LET due  == AheadOfTime \/ next[s] <= now
              push == next[s] < MaxTime /\ due /\ (x.ready \/ (~Required /\ next[s] < now))
          IN  /\ pc' = IF push THEN <<"take", s>> ELSE <<"track", "video">>
              /\ sure' = (push /\ x.ready /\ x.cell # None /\ pausedAt = None)
  /\ UNCHANGED <<now, startPts, lastPts, next, cur, queued, eosSent, pausedAt, pausedFrame,
                 calls, cleaned, out>>

\* Mutant: a paused input plays on.
TakenPaused(s) ==
  UNION {{[r |-> q, cell |-> x.cell, items |-> x.items, at |-> x.at,
           eos |-> q.st = "done" /\ ~eosSent[s]] : q \in Poll(x.r)}
           : x \in Contents(recv[s], offset, next[s])}

\* What a batch takes from this input, and the state check_eos finds afterwards.
Taken(s) ==
  IF pausedAt # None
  THEN {[r |-> recv[s], cell |-> offset, items |-> IF s = "video" THEN pausedFrame ELSE {},
         at |-> None, eos |-> FALSE]}
  ELSE UNION {{[r |-> q, cell |-> x.cell, items |-> x.items, at |-> x.at,
                eos |-> q.st = "done" /\ ~eosSent[s]] : q \in Poll(x.r)}
                : x \in Contents(recv[s], offset, next[s])}

TakeBatch(s) ==
  /\ Visit("take", s)
  /\ next' = [next EXCEPT ![s] = @ + Period[s]]
  /\ IF Present(s)
     THEN \E x \in Taken(s) :
            /\ recv' = [recv EXCEPT ![s] = x.r] /\ offset' = x.cell
            /\ eosSent' = [eosSent EXCEPT ![s] = @ \/ x.eos]
            /\ out' = {[side |-> s, pts |-> next[s], at |-> x.at, items |-> x.items,
                        eos |-> x.eos, sure |-> sure, count |-> Count(x.r),
                        popped |-> x.r.lo, over |-> recv[s].st = "done"]}
     ELSE UNCHANGED <<recv, offset, eosSent>> /\ out' = {}
  /\ pc' = PcAfter(s)["take"] /\ sure' = FALSE
  /\ UNCHANGED <<now, startPts, lastPts, cur, queued, pausedAt, pausedFrame, calls, cleaned>>

QueueThread ==
  \/ \E s \in Sides : \/ StartNextTrack("track", s) \/ StartNextTrack("retrack", s)
                      \/ CleanUp(s) \/ ProbeReady(s) \/ Check(s) \/ TakeBatch(s)
  \/ ReceiveStart \/ ChooseSide
-----------------------------------------------------------------------------
(* The callers. *)

\* queue_new_track; the send blocks while MaxPending tracks wait.
QueueNewTrack ==
  /\ queued < NumTracks /\ queued - cur < MaxPending /\ next["video"] <= QueueBy
  /\ queued' = queued + 1
  /\ UNCHANGED <<now, startPts, lastPts, pc, next, trackVars, calls, ghostVars>>

AbortOldTrack ==
  /\ calls.abort < MaxAborts
  /\ ReplaceTrack
  /\ calls' = [calls EXCEPT !.abort = @ + 1] /\ sure' = FALSE
  /\ UNCHANGED <<now, startPts, lastPts, pc, next, queued, cleaned, out>>

\* A second pause and a resume without one return at once.
Pause ==
  /\ calls.pause < MaxPauses /\ pausedAt = None
  /\ PauseEarly \/ lastPts # None
  /\ pausedAt' = EffectiveLastPts
  /\ \E x \in Frozen(recv["video"], offset) :
       /\ recv' = [recv EXCEPT !["video"] = x.r]
       /\ offset' = x.cell /\ pausedFrame' = x.items
  /\ calls' = [calls EXCEPT !.pause = @ + 1] /\ sure' = FALSE
  /\ UNCHANGED <<now, startPts, lastPts, pc, next, cur, queued, eosSent, cleaned, out>>

\* TrackOffset::map_add with PauseState::resume.
Shifted == IF offset = None THEN None ELSE offset + (EffectiveLastPts - pausedAt)

Resume ==
  /\ pausedAt # None
  /\ offset' = Shifted
  /\ pausedAt' = None /\ pausedFrame' = {} /\ sure' = FALSE
  /\ cleaned' = IF cleaned = None THEN None ELSE cleaned + (EffectiveLastPts - pausedAt)
  /\ UNCHANGED <<now, startPts, lastPts, pc, next, cur, recv, eosSent, queued, calls, out>>

\* Queue::start fixes start_pts before the thread receives the event.
Start ==
  /\ ~Started
  /\ startPts' = now
  /\ UNCHANGED <<now, lastPts, pc, next, trackVars, queued, calls, ghostVars>>

Elapse ==
  /\ now < IF Started THEN MaxClock ELSE StartBy
  /\ now' = now + 1
  /\ UNCHANGED <<startPts, lastPts, pc, next, trackVars, queued, calls, ghostVars>>

Init ==
  /\ now = 0 /\ startPts = None /\ lastPts = None
  /\ pc = <<"track", "video">> /\ next = [s \in Sides |-> None]
  /\ cur = 0 /\ queued = 0 /\ offset = None
  /\ recv = [s \in Sides |-> Stream(0, s)] /\ eosSent = [s \in Sides |-> FALSE]
  /\ pausedAt = None /\ pausedFrame = {}
  /\ calls = [pause |-> 0, abort |-> 0]
  /\ sure = FALSE /\ cleaned = None /\ out = {}

Next == \/ QueueThread \/ QueueNewTrack \/ AbortOldTrack \/ Pause \/ Resume
        \/ Start \/ Elapse

Spec == Init /\ [][Next]_vars

\* A visit that finds something new in the channel of side s.
Arrival(s) == QueueThread /\ cur' = cur /\ (recv'[s].hi > recv[s].hi \/ (recv'[s].closed /\ ~recv[s].closed))

\* The thread, the clock and the caller that queues tracks go on, the queue is
\* started, select! picks the start event in the end (it chooses at random), and
\* producers keep sending and then drop their sender.
LiveSpec ==
  /\ Spec /\ SF_vars(ReceiveStart)
  /\ WF_vars(QueueThread) /\ WF_vars(QueueNewTrack) /\ WF_vars(Start) /\ WF_vars(Elapse)
  /\ \A s \in Sides : SF_vars(Arrival(s))
-----------------------------------------------------------------------------
TypeOK ==
  /\ now \in Nat /\ {startPts, lastPts, pausedAt} \subseteq Nat \cup {None}
  /\ {offset, cleaned} \subseteq Int /\ next \in [Sides -> Nat \cup {None}]
  /\ pc[1] \in {"track", "clean", "ready", "choose", "retrack", "check", "take"}
  /\ pc[2] \in Sides
  /\ cur \in 0 .. queued /\ queued \in 0 .. NumTracks /\ queued - cur <= MaxPending
  /\ \A s \in Sides :
       /\ recv[s].side = s /\ recv[s].track = cur
       /\ recv[s].st \in {"absent", "new", "running", "done"}
       /\ 0 <= recv[s].lo /\ recv[s].lo <= recv[s].hi
       /\ Present(s) => recv[s].hi <= Count(recv[s])
       /\ recv[s].st = "done" <=> recv[s].closed /\ recv[s].lo = recv[s].hi
  /\ eosSent \in [Sides -> BOOLEAN] /\ sure \in BOOLEAN
  /\ Cardinality(pausedFrame) <= 1 /\ Cardinality(out) <= 1

\* A batch for which the input said it was ready shows the newest frame that is
\* not newer than the batch: the thread does not go past a frame that is still
\* in the decoder, and does not drop one that is due.  Not covered: a batch that
\* somebody's call to the input came just before, one from before the last
\* clean-up, and the end of the track, whose last frame is shown once.
ShowsNewest ==
  \A o \in out :
    o.side = "video" /\ o.sure /\ ~o.over /\ o.pts >= cleaned
      => o.items = {k \in 1 .. o.count :
                      /\ Pts("video", k) <= o.at
                      /\ k < o.count => Pts("video", k + 1) > o.at
                      /\ o.at - Pts("video", k) <= StaleTimeout}

ExactFrame == calls.pause = 0 => ShowsNewest

\* Resuming restores the consumption of the input from where it stopped
\* (mp4_input.rs, "Pause / Resume / Seek"): with the frame that is due there.
\* It does not hold (README, Observations).
ResumesWhereItStopped == cur = 1 => ShowsNewest

\* After such a chunk no samples are left that begin before its end (and the
\* 80 ms the mixer needs): the mixer never gets them a chunk too late.
TimelyAudio ==
  \A o \in out :
    o.side = "audio" /\ o.sure /\ o.at # None
      => \A k \in 1 .. o.count : Pts("audio", k) < o.at => k <= o.popped

\* The EOS of a stream comes when the timeline has reached its last item, with
\* nothing of the stream left behind.
EosOnTime ==
  \A o \in out :
    o.eos /\ o.count > 0 /\ o.at # None /\ o.pts >= cleaned
      => o.popped = o.count /\ o.at >= Pts(o.side, o.count)

\* The PTS at which a step of the thread or of a caller looks for the first item.
Moment ==
  IF pc' = pc \/ cur' # cur THEN EffectiveLastPts
  ELSE IF next["video"] = None THEN now ELSE next[pc[2]]

\* Where track t is put.
Place(t) ==
  CASE Placed[t].by = "start" -> startPts + Placed[t].at
    [] Placed[t].by = "pts"   -> Placed[t].at
    [] Placed[t].by = "none"  -> Moment

\* A paused input is asked between the start and the first tick.
AskedBeforeTick == Started /\ lastPts = None /\ pausedAt' # None /\ (cur' # cur \/ pc' = pc)

\* Where a track is put (queue.rs, "Offset initialization"), whichever of the two
\* sides, the clean-up and a pause finds its first item: exactly at its place.  A
\* placed track moves only when it is resumed, by the length of the pause, and the
\* next one inherits nothing: it has its PTS, or is placed by the pause it begins
\* in, or is open.  Not covered: what OpenTrackAfterStart is about.
OffsetPlaced ==
  [][/\ offset = None /\ offset' # None /\ cur' = cur
          => AskedBeforeTick \/ Placed[cur].by = "pts" \/ offset' = Place(cur)
     /\ offset # None /\ offset' # offset /\ cur' = cur
          => /\ pausedAt # None /\ pausedAt' = None
             /\ offset' = offset + (EffectiveLastPts - pausedAt)
     /\ cur' # cur
          => IF Placed[cur'].by = "pts" THEN offset' = Place(cur')
             ELSE \/ AskedBeforeTick \/ offset' = None
                  \/ pausedAt # None /\ offset' = Place(cur')]_vars

\* After the start, None is the PTS of the queue at which the first packet is
\* observed (queue.rs, "Offset initialization"), not one before the start.  It does
\* not hold: pause() before the first tick takes 0 for it (video_input.rs, pause).
OpenTrackAfterStart ==
  [][Started /\ offset = None /\ offset' # None /\ Placed[cur'].by = "none"
       => offset' >= startPts]_vars

\* Once the thread knows of the start, the offset of a paused input does not appear
\* or change: resume adds the length of the whole pause to an offset from before it
\* (queue_input.rs, pause).
PauseKeepsOffset ==
  [][pausedAt # None /\ pausedAt' = pausedAt /\ cur' = cur /\ next["video"] # None
       => offset' = offset]_vars

\* The same at any time: an input that had not started when it was paused has no
\* offset when it is resumed (queue_input.rs, pause).  It does not hold: before the
\* start the clean-up fixes it without asking for the pause.
OffsetWaitsForResume ==
  [][pausedAt # None /\ pausedAt' = pausedAt /\ cur' = cur => offset' = offset]_vars

\* Pausing stops the consumption of the input (mp4_input.rs, "Pause / Resume /
\* Seek"): once the thread knows of the start, nothing leaves its buffers until it
\* is resumed.
PauseStopsConsumption ==
  [][pausedAt # None /\ pausedAt' = pausedAt /\ cur' = cur /\ next["video"] # None
       => \A s \in Sides : recv'[s].lo = recv[s].lo]_vars

\* Every track that was queued is played until both its streams have ended.
TracksPlay ==
  \A t \in Tracks : (queued >= t) ~> (cur > t \/ (cur = t /\ TrackOver))
=============================================================================
