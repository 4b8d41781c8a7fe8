--------------------------- MODULE Mp4TrackManager ---------------------------
(***************************************************************************)
(* The MP4 input (pipeline/mp4/mp4_input.rs): the track manager, which     *)
(* gets the calls seek, pause and resume and the notice of a reader that   *)
(* is through in one channel of events, and the readers of the streams.    *)
(*                                                                         *)
(* The input of the queue is the module QueueInput; what matters of it     *)
(* here is which track plays, how many are pending and whether it is       *)
(* paused.  The decoders are in between: what has been read is played      *)
(* later, and a stream that fits into the channels is read to its end      *)
(* before any of it plays.                                                 *)
(***************************************************************************)
EXTENDS Naturals, Sequences

CONSTANTS
  Streams,     \* the streams of the file
  Fits,        \* those that fit into the channels between reader and queue
  MaxPending,  \* MAX_PENDING_TRACKS
  MaxCalls,    \* bound: calls of seek, pause and resume
  MaxLoops     \* bound: readers of later tracks do not reach the end

Calls == {"seek", "pause", "resume"}

ASSUME ConstAssumption ==
  /\ Streams \subseteq {"video", "audio"} /\ Streams # {} /\ Fits \subseteq Streams
  /\ MaxPending \in Nat \ {0} /\ MaxCalls \in Nat /\ MaxLoops \in Nat \ {0}

Tracks == 1 .. MaxLoops + MaxCalls + 1

VARIABLES
  shouldLoop,  \* Mp4InputOptions::should_loop
  registered,  \* the pipeline holds Mp4Input and QueueInput
  events,      \* the channel of StateEvents
  calls,       \* calls so far
  pc,          \* where the manager is
  seeking,     \* restart_threads was called with a position
  threads,     \* video_thread and audio_thread: the streams that have one
  has,         \* per track: its streams, none without a track
  reader,      \* per track and stream
  stopping,    \* tracks whose readers are marked for shutdown
  cur,         \* the current track of the queue, 0 without one
  queued,      \* the tracks queued so far: those beyond cur are pending
  eosSent,     \* streams of the current track that have ended in the queue
  paused       \* PauseState

callVars    == <<shouldLoop, registered, calls>>
managerVars == <<pc, seeking, threads, has, stopping, queued>>
playVars    == <<cur, eosSent, paused>>
vars == <<callVars, events, managerVars, reader, playVars>>

\* new_input queues the first track and starts its readers.
Init ==
  /\ shouldLoop \in BOOLEAN /\ registered = TRUE /\ events = <<>> /\ calls = 0
  /\ pc = "recv" /\ seeking = FALSE /\ threads = Streams
  /\ has = [t \in Tracks \cup {0} |-> IF t = 1 THEN Streams ELSE {}]
  /\ reader = [t \in Tracks |-> [s \in Streams |-> IF t = 1 THEN "reading" ELSE "none"]]
  /\ stopping = {}
  /\ cur = 0 /\ queued = 1 /\ eosSent = {} /\ paused = FALSE
-----------------------------------------------------------------------------
(* The callers *)

Call(c) ==
  /\ registered /\ calls < MaxCalls
  /\ calls' = calls + 1
  /\ events' = Append(events, [kind |-> c])
  /\ UNCHANGED <<shouldLoop, registered, managerVars, reader, playVars>>

\* unregister_input drops Mp4Input, and with it its QueueInput.
Unregister ==
  /\ registered /\ registered' = FALSE
  /\ events' = Append(events, [kind |-> "shutdown"])
  /\ UNCHANGED <<shouldLoop, calls, managerVars, reader, playVars>>
-----------------------------------------------------------------------------
(* The manager *)

\* The video thread drives the loop, the audio thread if there is none.
Primary == IF "video" \in threads THEN "video" ELSE "audio"

\* Mutant: any reader that is through restarts the track.
DrivesLoopAny(e) == shouldLoop

\* The threads that are held read the newest track.
DrivesLoop(e) ==
  shouldLoop /\ threads # {} /\ e.track = queued /\ e.stream = Primary

\* restart_threads, whose first step takes a reference to the QueueInput.
BeginRestart(seek) ==
  /\ pc' = IF registered THEN "queue" ELSE "recv"
  /\ seeking' = seek
  /\ UNCHANGED <<threads, has, stopping, queued, paused>>

SetPaused(p) ==
  /\ IF registered THEN paused' = p /\ UNCHANGED pc ELSE pc' = "done" /\ UNCHANGED paused
  /\ UNCHANGED <<seeking, threads, has, stopping, queued>>

\* One round of `run`.
HandleEvent ==
  /\ pc = "recv" /\ events # <<>>
  /\ events' = Tail(events)
  /\ LET e == Head(events)
     IN  CASE e.kind = "pause"  -> SetPaused(TRUE)
           [] e.kind = "resume" -> SetPaused(FALSE)
           [] e.kind = "seek"   -> BeginRestart(TRUE)
           [] e.kind = "finished" ->
                IF DrivesLoop(e) THEN BeginRestart(FALSE) ELSE UNCHANGED <<managerVars, paused>>
           [] e.kind = "shutdown" ->
                /\ pc' = "done" /\ stopping' = Tracks
                /\ UNCHANGED <<seeking, threads, has, queued, paused>>
  /\ UNCHANGED <<callVars, reader, cur, eosSent>>

\* queue_new_track, which blocks while MAX_PENDING_TRACKS are pending, and
\* mark_for_shutdown of the readers.  Without threads there is nothing to queue.
QueueNewTrack ==
  /\ pc = "queue" /\ pc' = "join"
  /\ IF threads = {}
     THEN UNCHANGED <<has, stopping, queued>>
     ELSE /\ queued - cur < MaxPending
          /\ queued' = queued + 1
          /\ has' = [has EXCEPT ![queued + 1] = threads]
          /\ stopping' = stopping \cup {queued}
  /\ UNCHANGED <<callVars, events, seeking, threads, reader, playVars>>

\* The handles are joined, then spawn_video and spawn_audio, which may fail.
JoinAndSpawn ==
  /\ pc = "join"
  /\ \A s \in threads : reader[queued - 1][s] \in {"stopped", "finished"}
  /\ \E started \in SUBSET threads :
       /\ threads' = started
       /\ reader' = [reader EXCEPT ![queued] =
                       [s \in Streams |-> IF s \in started THEN "reading" ELSE @[s]]]
  /\ pc' = IF seeking THEN "sleep" ELSE "recv"
  /\ UNCHANGED <<callVars, events, seeking, has, stopping, queued, playVars>>

\* Mutant: the track goes although no other one is pending.
NextTrackAlways == cur' = cur + 1 /\ eosSent' = {}

\* Mutant: a paused input keeps its track.
NextTrackUnpaused ==
  IF cur < queued /\ ~paused THEN cur' = cur + 1 /\ eosSent' = {} ELSE UNCHANGED <<cur, eosSent>>

\* replace_track
NextTrack ==
  IF cur < queued THEN cur' = cur + 1 /\ eosSent' = {} ELSE UNCHANGED <<cur, eosSent>>

\* Half a second later the old track is dropped, if the queue has not left it.
AbortOldTrack ==
  /\ pc = "sleep" /\ pc' = "recv"
  /\ IF registered THEN NextTrack ELSE UNCHANGED <<cur, eosSent>>
  /\ UNCHANGED <<callVars, events, seeking, threads, has, stopping, queued, reader, paused>>

Manager == HandleEvent \/ QueueNewTrack \/ JoinAndSpawn \/ AbortOldTrack
-----------------------------------------------------------------------------
(* The readers and the queue *)

Ends(t, s, how) ==
  /\ reader[t][s] = "reading"
  /\ reader' = [reader EXCEPT ![t][s] = how]
  /\ events' = Append(events, [kind |-> "finished", track |-> t, stream |-> s])
  /\ UNCHANGED <<callVars, managerVars, playVars>>

\* The manager holds the QueueInput while it is in queue_new_track.
ReceiverGone(t) == t < cur \/ ~(registered \/ pc = "queue")

ReaderStops(t, s) ==
  /\ t \in stopping \/ ReceiverGone(t)
  /\ Ends(t, s, "stopped")

\* Unless all of it fits into the channels, the end is read only while the track
\* plays, or is paused shortly before its end.
ReaderFinishes(t, s) ==
  /\ t = cur \/ (s \in Fits /\ ~ReceiverGone(t))
  /\ t <= MaxLoops
  /\ Ends(t, s, "finished")

\* The queue plays what has been read, and finds the sender dropped.
StreamEnds(s) ==
  /\ registered /\ ~paused
  /\ s \in has[cur] \ eosSent
  /\ reader[cur][s] # "reading" /\ ~(cur = queued /\ pc = "join")
  /\ eosSent' = eosSent \cup {s}
  /\ UNCHANGED <<callVars, events, managerVars, reader, cur, paused>>

\* maybe_start_next_track
StartNextTrack ==
  /\ registered
  /\ has[cur] \subseteq eosSent
  /\ NextTrack
  /\ UNCHANGED <<callVars, events, managerVars, reader, paused>>

Next ==
  \/ \E c \in Calls : Call(c)
  \/ Unregister
  \/ Manager
  \/ \E t \in Tracks, s \in Streams : ReaderStops(t, s) \/ ReaderFinishes(t, s)
  \/ \E s \in Streams : StreamEnds(s)
  \/ StartNextTrack

Spec == Init /\ [][Next]_vars

Queue == StartNextTrack \/ \E s \in Streams : StreamEnds(s)
Reads == \E t \in Tracks, s \in Streams : ReaderStops(t, s) \/ (~paused /\ ReaderFinishes(t, s))

\* The threads run, and the queue plays what it gets unless it is paused.
LiveSpec == Spec /\ WF_vars(Manager) /\ WF_vars(Queue) /\ WF_vars(Reads)
-----------------------------------------------------------------------------
(* Properties *)

Events ==
  [kind : Calls \cup {"shutdown"}] \cup [kind : {"finished"}, track : Tracks, stream : Streams]

TypeOK ==
  /\ shouldLoop \in BOOLEAN /\ registered \in BOOLEAN /\ calls \in 0 .. MaxCalls
  /\ events \in Seq(Events)
  /\ pc \in {"recv", "queue", "join", "sleep", "done"} /\ seeking \in BOOLEAN
  /\ threads \subseteq Streams /\ has \in [Tracks \cup {0} -> SUBSET Streams]
  /\ reader \in [Tracks -> [Streams -> {"none", "reading", "stopped", "finished"}]]
  /\ stopping \subseteq Tracks
  /\ cur \in 0 .. queued /\ queued \in Tracks /\ queued - cur <= MaxPending
  /\ eosSent \subseteq Streams /\ paused \in BOOLEAN

(* A track is only looped after its video (or audio, without video) has    *)
(* been read to the end, and once for each time: a reader that a seek has  *)
(* stopped does not start another loop, though its notice comes after the  *)
(* seek ("On loop").                                                       *)
LoopsFollowTheEnd ==
  (pc = "queue" /\ ~seeking) => reader[queued][Primary] = "finished"

\* queue_new_track waits for a place; the manager holds the QueueInput meanwhile.
Blocked == pc = "queue" /\ threads # {} /\ queued - cur >= MaxPending

\* ... for ever: the current track does not end while the input is paused.
Stuck == Blocked /\ paused /\ ~(has[cur] \subseteq eosSent)

\* The track of a seek is the current one, or the next one in line.
NextInLine == seeking /\ pc \in {"join", "sleep"} /\ cur >= queued - 1

(* A seek plays the track it has queued when its half second is over,      *)
(* paused or not, if no track of a loop was pending before it ("Seeking    *)
(* while paused should change the frame").                                 *)
SeekPlays == NextInLine ~> (cur = queued \/ ~registered)

Asked(c) == \E n \in DOMAIN events : events[n].kind = c

(* Every resume ends the pause, whatever the manager is busy with          *)
(* ("Resuming restores queue consumption from where it stopped").  The     *)
(* code does not keep this when the manager is stuck.                      *)
ResumeEndsPause == Asked("resume") ~> (~paused \/ ~registered)

ThreadsEnded == pc = "done" /\ \A t \in Tracks, s \in Streams : reader[t][s] # "reading"

(* Calls are served: a seek plays, a resume ends the pause unless the      *)
(* manager is stuck, and when the input is unregistered the manager and    *)
(* the readers end, unless the manager waits for a place at that moment.   *)
RequestsServed ==
  /\ SeekPlays
  /\ Asked("resume") \/ (~registered /\ ~Blocked)
       ~> (IF registered THEN ~paused \/ Stuck ELSE ThreadsEnded \/ Blocked)

(* A seek while paused changes the frame to the one that is sought: no old *)
(* track is left before the new one ("Seeking while paused should change   *)
(* the frame", "old tracks are aborted").  The code does not keep this     *)
(* when a track of a loop is pending.                                      *)
SeekAbortsOldTracks ==
  [][pc = "sleep" /\ registered /\ paused /\ cur # 0 /\ pc' = "recv" => cur' = queued]_vars
=============================================================================
