------------------------ MODULE Mp4TrackManagerProofs ------------------------
(***************************************************************************)
(* A track of an MP4 input is looped exactly when it was read to its end,  *)
(* for any file, any number of calls and any limits of the queue.          *)
(*                                                                         *)
(* A notice in the channel may be old.  It only starts a loop if it is     *)
(* about the newest track, and as long as the input is registered nothing  *)
(* stops a reader of that track before its end.                            *)
(*                                                                         *)
(* That the model has room for every track is a matter of counting: each   *)
(* track after the first is due to a call or to a reader at its end, and   *)
(* readers of tracks beyond MaxLoops do not get there.                     *)
(***************************************************************************)
EXTENDS Mp4TrackManager, FiniteSets, FiniteSetTheorems, TLAPS

ReaderStates == {"none", "reading", "stopped", "finished"}

Types ==
  /\ registered \in BOOLEAN /\ seeking \in BOOLEAN
  /\ events \in Seq(Events)
  /\ pc \in {"recv", "queue", "join", "sleep", "done"}
  /\ threads \subseteq Streams
  /\ reader \in [Tracks -> [Streams -> ReaderStates]]
  /\ stopping \subseteq Nat
  /\ queued \in Nat \ {0} /\ cur \in 0 .. queued

\* Only older tracks are stopped, until the manager ends.
StopOrder == pc = "done" \/ \A t \in stopping : t < queued

\* A track that is not queued, or queued and not spawned yet, has no reader.
Unborn ==
  \A t \in Tracks, s \in Streams :
    (t > queued \/ (t = queued /\ pc = "join" /\ threads # {})) => reader[t][s] = "none"

Waiting(e) == \E n \in DOMAIN events : events[n] = e

\* A notice comes from a reader that is through.
Notices ==
  \A e \in Events :
    (Waiting(e) /\ e.kind = "finished") => reader[e.track][e.stream] \in {"stopped", "finished"}

\* The readers of the newest track are left alone.
NewestReads ==
  (registered /\ pc # "done" /\ queued \in Tracks) =>
    \A s \in Streams : reader[queued][s] # "stopped"

IInv == Types /\ StopOrder /\ Unborn /\ Notices /\ NewestReads /\ LoopsFollowTheEnd

-----------------------------------------------------------------------------
(* Facts about the channel of events *)

LEMMA Sent ==
  ASSUME events \in Seq(Events), NEW x \in Events, events' = Append(events, x)
  PROVE  /\ events' \in Seq(Events)
         /\ \A e : Waiting(e)' => Waiting(e) \/ e = x
<1>1. events' \in Seq(Events)
  OBVIOUS
<1>2. ASSUME NEW n \in DOMAIN events'
      PROVE  events'[n] = x \/ (n \in DOMAIN events /\ events'[n] = events[n])
  BY <1>2
<1> QED BY <1>1, <1>2 DEF Waiting

LEMMA Taken ==
  ASSUME events \in Seq(Events), events # <<>>, events' = Tail(events)
  PROVE  /\ events' \in Seq(Events)
         /\ Head(events) \in Events /\ Waiting(Head(events))
         /\ \A e : Waiting(e)' => Waiting(e)
<1>1. events' \in Seq(Events) /\ Head(events) \in Events
  OBVIOUS
<1>2. 1 \in DOMAIN events /\ Head(events) = events[1]
  OBVIOUS
<1>3. ASSUME NEW n \in DOMAIN events'
      PROVE  n + 1 \in DOMAIN events /\ events'[n] = events[n + 1]
  BY <1>3
<1> QED BY <1>1, <1>2, <1>3 DEF Waiting

LEMMA CallIsEvent == \A c \in Calls \cup {"shutdown"} : [kind |-> c] \in Events /\ [kind |-> c].kind # "finished"
BY DEF Events, Calls

LEMMA FinishedIsEvent ==
  \A t \in Tracks, s \in Streams : [kind |-> "finished", track |-> t, stream |-> s] \in Events
BY DEF Events

LEMMA NoticeFields ==
  \A e \in Events : e.kind = "finished" => e.track \in Tracks /\ e.stream \in Streams
BY DEF Events, Calls

LEMMA TracksAreNumbers == Tracks \subseteq Nat \ {0}
<1>1. MaxLoops \in Nat /\ MaxCalls \in Nat
  BY ConstAssumption
<1> QED BY <1>1 DEF Tracks

-----------------------------------------------------------------------------
(* The steps *)

LEMMA InitIInv == Init => IInv
<1> SUFFICES ASSUME Init PROVE IInv
  OBVIOUS
<1> USE TracksAreNumbers
<1>1. Types
  <2>1. events \in Seq(Events) /\ stopping \subseteq Nat /\ threads \subseteq Streams
    BY DEF Init
  <2>2. reader \in [Tracks -> [Streams -> ReaderStates]]
    BY DEF Init, ReaderStates
  <2>3. registered \in BOOLEAN /\ seeking \in BOOLEAN /\ pc = "recv" /\ queued = 1 /\ cur = 0
    BY DEF Init
  <2> QED BY <2>1, <2>2, <2>3 DEF Types
<1>2. StopOrder /\ Unborn /\ Notices /\ NewestReads /\ LoopsFollowTheEnd
  BY DEF Init, StopOrder, Unborn, Notices, NewestReads, LoopsFollowTheEnd, Waiting
<1> QED BY <1>1, <1>2 DEF IInv

\* A call, and the unregistration, only send an event.
LEMMA CallersStep ==
  ASSUME IInv, (\E c \in Calls : Call(c)) \/ Unregister
  PROVE  IInv'
<1> USE DEF IInv
<1>1. PICK c \in Calls \cup {"shutdown"} : events' = Append(events, [kind |-> c])
  BY DEF Call, Unregister
<1>2. events \in Seq(Events)
  BY DEF Types
<1>3. events' \in Seq(Events) /\ \A e \in Events : (Waiting(e)' /\ e.kind = "finished") => Waiting(e)
  BY <1>1, <1>2, CallIsEvent, Sent
<1>4. UNCHANGED <<managerVars, reader, playVars>> /\ registered' \in BOOLEAN /\ (registered' => registered)
  BY DEF Call, Unregister, Types, callVars
<1>5. Types'
  BY <1>3, <1>4 DEF Types, managerVars, playVars
<1>6. StopOrder' /\ Unborn' /\ NewestReads' /\ LoopsFollowTheEnd'
  BY <1>4 DEF StopOrder, Unborn, NewestReads, LoopsFollowTheEnd, managerVars, Primary
<1>7. Notices'
  BY <1>3, <1>4 DEF Notices
<1> QED BY <1>5, <1>6, <1>7

\* A loop begins with the notice of a reader of the newest track.
LEMMA HandleEventStep ==
  ASSUME IInv, HandleEvent
  PROVE  IInv'
<1> DEFINE e == Head(events)
<1> USE DEF IInv
<1>1. events \in Seq(Events) /\ pc = "recv"
  BY DEF Types, HandleEvent
<1>2. events' \in Seq(Events) /\ e \in Events /\ Waiting(e) /\ \A x : Waiting(x)' => Waiting(x)
  BY <1>1, Taken DEF HandleEvent
<1> HIDE DEF e
<1>a. \/ e.kind = "pause" /\ SetPaused(TRUE)
      \/ e.kind = "resume" /\ SetPaused(FALSE)
      \/ e.kind = "seek" /\ BeginRestart(TRUE)
      \/ e.kind = "finished" /\ DrivesLoop(e) /\ BeginRestart(FALSE)
      \/ e.kind = "finished" /\ UNCHANGED managerVars
      \/ /\ e.kind = "shutdown" /\ pc' = "done" /\ stopping' = Tracks
         /\ UNCHANGED <<seeking, threads, has, queued>>
  BY <1>2 DEF HandleEvent, e, Events, Calls
<1>3. UNCHANGED <<registered, threads, queued, cur, reader>>
  <2>1. UNCHANGED <<registered, cur, reader>>
    BY DEF HandleEvent, callVars
  <2>2. UNCHANGED <<threads, queued>>
    BY <1>a DEF SetPaused, BeginRestart, managerVars
  <2> QED BY <2>1, <2>2
<1>4. /\ pc' \in {"recv", "queue", "done"} /\ seeking' \in BOOLEAN
      /\ stopping' = stopping \/ (stopping' = Tracks /\ pc' = "done")
  BY <1>1, <1>a DEF SetPaused, BeginRestart, managerVars, Types
<1>5. Types'
  BY <1>2, <1>3, <1>4, TracksAreNumbers DEF Types
<1>6. StopOrder' /\ Unborn' /\ NewestReads'
  BY <1>1, <1>3, <1>4 DEF StopOrder, Unborn, NewestReads
<1>7. Notices'
  BY <1>2, <1>3 DEF Notices
<1>8. LoopsFollowTheEnd'
  <2> SUFFICES ASSUME pc' = "queue", ~seeking' PROVE reader[queued][Primary] = "finished"
    BY <1>3 DEF LoopsFollowTheEnd, Primary
  <2>1. e.kind = "finished" /\ DrivesLoop(e) /\ registered
    BY <1>1, <1>a DEF SetPaused, BeginRestart, managerVars
  <2>2. e.track = queued /\ e.stream = Primary /\ queued \in Tracks /\ Primary \in Streams
    BY <1>2, <2>1, NoticeFields DEF DrivesLoop
  <2>3. reader[queued][Primary] \in {"stopped", "finished"}
    BY <1>2, <2>1, <2>2 DEF Notices
  <2> QED BY <1>1, <2>1, <2>2, <2>3 DEF NewestReads
<1> QED BY <1>5, <1>6, <1>7, <1>8

LEMMA QueueNewTrackStep ==
  ASSUME IInv, QueueNewTrack
  PROVE  IInv'
<1> USE DEF IInv
<1>1. pc = "queue" /\ pc' = "join" /\ UNCHANGED <<registered, events, seeking, threads, reader, cur>>
  BY DEF QueueNewTrack, callVars, playVars
<1>2. queued \in Nat \ {0} /\ cur \in 0 .. queued /\ stopping \subseteq Nat
  BY DEF Types
<1>3. \/ threads = {} /\ queued' = queued /\ stopping' = stopping
      \/ threads # {} /\ queued' = queued + 1 /\ stopping' \subseteq stopping \cup {queued}
  BY DEF QueueNewTrack
<1>4. stopping' \subseteq Nat /\ \A t \in stopping' : t < queued'
  <2>1. \A t \in stopping : t < queued /\ t \in Nat
    BY <1>1, <1>2, TracksAreNumbers DEF StopOrder
  <2>2. stopping' \subseteq Nat
    BY DEF QueueNewTrack, Types
  <2> QED BY <1>2, <1>3, <2>1, <2>2
<1>5. Types'
  BY <1>1, <1>2, <1>3, <1>4 DEF Types
<1>6. StopOrder' /\ LoopsFollowTheEnd'
  BY <1>1, <1>4 DEF StopOrder, LoopsFollowTheEnd
<1>7. Unborn'
  <2> SUFFICES ASSUME NEW t \in Tracks, NEW s \in Streams,
                      t > queued' \/ (t = queued' /\ threads # {})
               PROVE  reader[t][s] = "none"
    BY <1>1 DEF Unborn
  <2>1. t > queued
    BY <1>2, <1>3, TracksAreNumbers
  <2> QED BY <2>1 DEF Unborn
<1>8. Notices'
  BY <1>1 DEF Notices, Waiting
<1>9. NewestReads'
  BY <1>1, <1>2, <1>3, TracksAreNumbers DEF NewestReads, Unborn
<1> QED BY <1>5, <1>6, <1>7, <1>8, <1>9

LEMMA JoinAndSpawnStep ==
  ASSUME IInv, JoinAndSpawn
  PROVE  IInv'
<1> USE DEF IInv
<1>1. pc = "join" /\ pc' \in {"sleep", "recv"} /\ UNCHANGED <<registered, events, seeking, stopping, queued, cur>>
  BY DEF JoinAndSpawn, callVars, playVars
<1>2. PICK started \in SUBSET threads :
        /\ threads' = started
        /\ reader' = [reader EXCEPT ![queued] =
                        [s \in Streams |-> IF s \in started THEN "reading" ELSE @[s]]]
  BY DEF JoinAndSpawn
<1>3. reader \in [Tracks -> [Streams -> ReaderStates]] /\ threads \subseteq Streams /\ queued \in Nat \ {0}
  BY DEF Types
<1>4. /\ reader' \in [Tracks -> [Streams -> ReaderStates]]
      /\ \A t \in Tracks, s \in Streams :
           reader'[t][s] = IF t = queued /\ s \in started THEN "reading" ELSE reader[t][s]
  BY <1>2, <1>3 DEF ReaderStates
<1>5. Types' /\ StopOrder' /\ LoopsFollowTheEnd'
  BY <1>1, <1>2, <1>3, <1>4 DEF Types, StopOrder, LoopsFollowTheEnd
<1>6. Unborn'
  BY <1>1, <1>3, <1>4, TracksAreNumbers DEF Unborn
<1>7. NewestReads'
  BY <1>1, <1>4 DEF NewestReads
<1>8. Notices'
  <2> SUFFICES ASSUME NEW e \in Events, Waiting(e), e.kind = "finished"
               PROVE  reader'[e.track][e.stream] \in {"stopped", "finished"}
    BY <1>1 DEF Notices, Waiting
  <2>1. e.track \in Tracks /\ e.stream \in Streams
    BY NoticeFields
  <2>2. reader[e.track][e.stream] \in {"stopped", "finished"}
    BY DEF Notices
  <2>3. ~(e.track = queued /\ threads # {})
    BY <1>1, <2>1, <2>2 DEF Unborn
  <2> QED BY <1>4, <2>1, <2>2, <2>3
<1> QED BY <1>5, <1>6, <1>7, <1>8

\* A reader of the newest track does not stop while the input is registered.
LEMMA ReaderStep ==
  ASSUME IInv, NEW t \in Tracks, NEW s \in Streams, ReaderStops(t, s) \/ ReaderFinishes(t, s)
  PROVE  IInv'
<1> USE DEF IInv
<1> DEFINE x == [kind |-> "finished", track |-> t, stream |-> s]
<1>1. PICK how \in {"stopped", "finished"} :
        /\ reader[t][s] = "reading" /\ reader' = [reader EXCEPT ![t][s] = how]
        /\ events' = Append(events, x) /\ UNCHANGED <<callVars, managerVars, playVars>>
        /\ how = "stopped" => t \in stopping \/ ReceiverGone(t)
  BY DEF ReaderStops, ReaderFinishes, Ends
<1>2. UNCHANGED <<registered, seeking, pc, threads, stopping, queued, cur>>
  BY <1>1 DEF callVars, managerVars, playVars
<1>3. events \in Seq(Events) /\ reader \in [Tracks -> [Streams -> ReaderStates]]
  BY DEF Types
<1>4. events' \in Seq(Events) /\ \A e : Waiting(e)' => Waiting(e) \/ e = x
  BY <1>1, <1>3, FinishedIsEvent, Sent
<1>5. /\ reader' \in [Tracks -> [Streams -> ReaderStates]]
      /\ \A u \in Tracks, v \in Streams : reader'[u][v] = IF u = t /\ v = s THEN how ELSE reader[u][v]
  BY <1>1, <1>3 DEF ReaderStates
<1>6. Types' /\ StopOrder'
  BY <1>2, <1>4, <1>5 DEF Types, StopOrder
<1>7. Unborn'
  BY <1>1, <1>2, <1>5 DEF Unborn
<1>8. Notices'
  <2> SUFFICES ASSUME NEW e \in Events, Waiting(e)', e.kind = "finished"
               PROVE  reader'[e.track][e.stream] \in {"stopped", "finished"}
    BY DEF Notices
  <2>1. e.track \in Tracks /\ e.stream \in Streams
    BY NoticeFields
  <2>2. ASSUME Waiting(e) PROVE reader[e.track][e.stream] \in {"stopped", "finished"}
    BY <2>2 DEF Notices
  <2>3. ASSUME e = x PROVE e.track = t /\ e.stream = s
    BY <2>3
  <2> QED BY <1>4, <1>5, <2>1, <2>2, <2>3
<1>9. NewestReads'
  <2> SUFFICES ASSUME registered, pc # "done", queued = t, how = "stopped" PROVE FALSE
    BY <1>2, <1>5 DEF NewestReads
  <2>1. t \notin stopping
    BY TracksAreNumbers DEF StopOrder
  <2>2. ~ReceiverGone(t)
    BY DEF ReceiverGone, Types
  <2> QED BY <1>1, <2>1, <2>2
<1>10. LoopsFollowTheEnd'
  <2> SUFFICES ASSUME pc = "queue", ~seeking PROVE reader'[queued][Primary] = "finished"
    BY <1>2 DEF LoopsFollowTheEnd, Primary
  <2>1. reader[queued][Primary] = "finished"
    BY DEF LoopsFollowTheEnd
  <2> QED BY <1>1, <1>3, <2>1
<1> QED BY <1>6, <1>7, <1>8, <1>9, <1>10

\* The queue moves to the next track, the manager wakes up, a stream ends.
LEMMA PlayStep ==
  ASSUME IInv, AbortOldTrack \/ StartNextTrack \/ (\E s \in Streams : StreamEnds(s))
  PROVE  IInv'
<1> USE DEF IInv
<1>1. UNCHANGED <<registered, events, seeking, threads, stopping, queued, reader>>
  BY DEF AbortOldTrack, StartNextTrack, StreamEnds, callVars, managerVars
<1>2. pc' = pc \/ (pc = "sleep" /\ pc' = "recv")
  BY DEF AbortOldTrack, StartNextTrack, StreamEnds, managerVars
<1>3. queued \in Nat \ {0} /\ cur \in 0 .. queued
  BY DEF Types
<1>4. cur' = cur \/ (cur < queued /\ cur' = cur + 1)
  BY DEF AbortOldTrack, StartNextTrack, StreamEnds, NextTrack
<1>5. cur' \in 0 .. queued
  BY <1>3, <1>4
<1>6. Types'
  BY <1>1, <1>2, <1>5 DEF Types
<1>7. StopOrder' /\ Unborn' /\ NewestReads' /\ LoopsFollowTheEnd'
  BY <1>1, <1>2 DEF StopOrder, Unborn, NewestReads, LoopsFollowTheEnd, Primary
<1>8. Notices'
  BY <1>1 DEF Notices, Waiting
<1> QED BY <1>6, <1>7, <1>8

LEMMA NextIInv ==
  ASSUME IInv, [Next]_vars
  PROVE  IInv'
<1>1. ASSUME UNCHANGED vars PROVE IInv'
  BY <1>1 DEF IInv, Types, StopOrder, Unborn, Notices, NewestReads, LoopsFollowTheEnd, Waiting,
     Primary, vars, callVars, managerVars, playVars
<1> QED BY <1>1, CallersStep, HandleEventStep, QueueNewTrackStep, JoinAndSpawnStep, ReaderStep,
           PlayStep DEF Next, Manager

(* A track starts again exactly after it was read to its end, though a     *)
(* seek may have stopped its readers with their notices still on the way.  *)
THEOREM LoopsFollowTheEndCorrect == Spec => []LoopsFollowTheEnd
<1>1. IInv => LoopsFollowTheEnd
  BY DEF IInv
<1> QED BY InitIInv, NextIInv, <1>1, PTL DEF Spec
-----------------------------------------------------------------------------
(* The number of tracks *)

CallsIn(q) == {n \in DOMAIN q : q[n].kind \in Calls}

\* Calls that were sent and not handled.
Unhandled == Cardinality(CallsIn(events))

\* The seek that is being handled has its track still to come.
SeekOwed == IF pc = "queue" /\ seeking THEN 1 ELSE 0

Ended == \A t \in Tracks, s \in Streams : reader[t][s] = "finished" => t <= MaxLoops

Counted ==
  /\ IsFiniteSet(CallsIn(events)) /\ Unhandled <= calls
  /\ queued + Unhandled + SeekOwed <= MaxLoops + 1 + calls

LEMMA CountAppended ==
  ASSUME NEW q \in Seq(Events), NEW x \in Events, IsFiniteSet(CallsIn(q))
  PROVE  /\ IsFiniteSet(CallsIn(Append(q, x)))
         /\ Cardinality(CallsIn(Append(q, x)))
              = IF x.kind \in Calls THEN Cardinality(CallsIn(q)) + 1 ELSE Cardinality(CallsIn(q))
<1> DEFINE l == Len(q) + 1
<1>1. /\ DOMAIN q = 1 .. Len(q) /\ DOMAIN Append(q, x) = 1 .. l /\ Len(q) \in Nat
      /\ Append(q, x)[l] = x /\ \A n \in 1 .. Len(q) : Append(q, x)[n] = q[n]
  OBVIOUS
<1>2. CASE x.kind \in Calls
  <2>1. CallsIn(Append(q, x)) = CallsIn(q) \cup {l}
    BY <1>1, <1>2 DEF CallsIn
  <2>2. l \notin CallsIn(q)
    BY <1>1 DEF CallsIn
  <2> QED BY <1>2, <2>1, <2>2, FS_AddElement
<1>3. CASE x.kind \notin Calls
  <2>1. CallsIn(Append(q, x)) = CallsIn(q)
    BY <1>1, <1>3 DEF CallsIn
  <2> QED BY <1>3, <2>1
<1> QED BY <1>2, <1>3

LEMMA CountTaken ==
  ASSUME NEW q \in Seq(Events), q # <<>>, IsFiniteSet(CallsIn(q))
  PROVE  /\ IsFiniteSet(CallsIn(Tail(q)))
         /\ Cardinality(CallsIn(q))
              = IF Head(q).kind \in Calls THEN Cardinality(CallsIn(Tail(q))) + 1
                ELSE Cardinality(CallsIn(Tail(q)))
<1> DEFINE S == CallsIn(q) \ {1}
           T == CallsIn(Tail(q))
           f == [n \in S |-> n - 1]
<1>1. /\ DOMAIN q = 1 .. Len(q) /\ DOMAIN Tail(q) = 1 .. Len(q) - 1 /\ Len(q) \in Nat \ {0}
      /\ Head(q) = q[1] /\ \A n \in 1 .. Len(q) - 1 : Tail(q)[n] = q[n + 1]
  OBVIOUS
<1>2. \A n \in S : n \in 2 .. Len(q) /\ n - 1 \in T
  BY <1>1 DEF CallsIn
<1>3. \A n \in T : n \in 1 .. Len(q) - 1 /\ n + 1 \in S
  BY <1>1 DEF CallsIn
<1>4. f \in Bijection(S, T)
  <2>1. f \in [S -> T]
    BY <1>2
  <2>2. \A a, b \in S : f[a] = f[b] => a = b
    BY <1>1, <1>2
  <2>3. \A n \in T : \E a \in S : f[a] = n
    <3> TAKE n \in T
    <3>1. n + 1 \in S /\ f[n + 1] = n
      BY <1>1, <1>3
    <3> QED BY <3>1
  <2> HIDE DEF f, S, T
  <2> QED BY <2>1, <2>2, <2>3 DEF Bijection, Injection, Surjection, IsInjective
<1>5. IsFiniteSet(S) /\ Cardinality(S) = IF 1 \in CallsIn(q) THEN Cardinality(CallsIn(q)) - 1
                                          ELSE Cardinality(CallsIn(q))
  BY FS_RemoveElement
<1>6. ExistsBijection(S, T)
  BY <1>4 DEF ExistsBijection
<1>7. IsFiniteSet(T) /\ Cardinality(T) = Cardinality(S)
  BY <1>5, <1>6, FS_Bijection
<1>8. 1 \in CallsIn(q) <=> Head(q).kind \in Calls
  BY <1>1 DEF CallsIn
<1>9. Cardinality(CallsIn(q)) \in Nat
  BY FS_CardinalityType
<1> QED BY <1>5, <1>7, <1>8, <1>9

\* What the counting adds to the types: a track that is queued is one of Tracks.
LEMMA QueuedIsTrack ==
  \A q \in Nat \ {0}, n \in Nat, o \in Nat, c \in 0 .. MaxCalls :
    q + n + o <= MaxLoops + 1 + c => q \in Tracks
<1>1. MaxLoops \in Nat /\ MaxCalls \in Nat
  BY ConstAssumption
<1> QED BY <1>1 DEF Tracks

LEMMA CountedStep ==
  ASSUME IInv, TypeOK, Ended, Counted, [Next]_vars
  PROVE  Counted'
<1> DEFINE u == Unhandled
<1>1. /\ events \in Seq(Events) /\ queued \in Nat \ {0} /\ calls \in Nat
      /\ MaxLoops \in Nat \ {0} /\ IsFiniteSet(CallsIn(events)) /\ u \in Nat
  BY ConstAssumption, FS_CardinalityType DEF IInv, Types, TypeOK, Counted, Unhandled
<1>2. u <= calls /\ queued + u + SeekOwed <= MaxLoops + 1 + calls
  BY DEF Counted
<1>3. ASSUME NEW c \in Calls, Call(c) PROVE Counted'
  <2>1. [kind |-> c] \in Events /\ [kind |-> c].kind \in Calls
    BY CallIsEvent
  <2>2. IsFiniteSet(CallsIn(events')) /\ Cardinality(CallsIn(events')) = u + 1
    BY <1>1, <1>3, <2>1, CountAppended DEF Call, Unhandled
  <2>3. calls' = calls + 1 /\ UNCHANGED <<queued, pc, seeking>>
    BY <1>3 DEF Call, managerVars
  <2> QED BY <1>1, <1>2, <2>2, <2>3 DEF Counted, Unhandled, SeekOwed
<1>4. ASSUME NEW x \in Events, x.kind \notin Calls, events' = Append(events, x),
             UNCHANGED <<calls, queued, pc, seeking>>
      PROVE  Counted'
  <2>1. IsFiniteSet(CallsIn(events')) /\ Cardinality(CallsIn(events')) = u
    BY <1>1, <1>4, CountAppended DEF Unhandled
  <2> QED BY <1>1, <1>2, <1>4, <2>1 DEF Counted, Unhandled, SeekOwed
<1>5. CASE Unregister
  <2>1. [kind |-> "shutdown"] \in Events /\ [kind |-> "shutdown"].kind \notin Calls
    BY DEF Events, Calls
  <2> QED BY <1>4, <1>5, <2>1 DEF Unregister, managerVars
<1>6. ASSUME NEW t \in Tracks, NEW s \in Streams, ReaderStops(t, s) \/ ReaderFinishes(t, s)
      PROVE  Counted'
  <2> DEFINE x == [kind |-> "finished", track |-> t, stream |-> s]
  <2>1. x \in Events /\ x.kind \notin Calls
    BY FinishedIsEvent DEF Calls
  <2>2. events' = Append(events, x) /\ UNCHANGED <<calls, queued, pc, seeking>>
    BY <1>6 DEF ReaderStops, ReaderFinishes, Ends, callVars, managerVars
  <2> HIDE DEF x
  <2> QED BY <1>4, <2>1, <2>2
<1>7. CASE HandleEvent
  <2> DEFINE e == Head(events)
             v == Cardinality(CallsIn(events'))
  <2>1. /\ IsFiniteSet(CallsIn(events')) /\ v \in Nat
        /\ u = IF e.kind \in Calls THEN v + 1 ELSE v
    <3>1. events # <<>> /\ events' = Tail(events)
      BY <1>7 DEF HandleEvent
    <3> QED BY <1>1, <3>1, CountTaken, FS_CardinalityType DEF Unhandled
  <2>2. e \in Events /\ pc = "recv"
    BY <1>1, <1>7, Taken DEF HandleEvent
  <2> HIDE DEF e
  <2>3. calls' = calls /\ queued' = queued /\ (pc' = "queue" /\ seeking' => e.kind \in Calls)
    <3>1. \/ e.kind \in Calls /\ UNCHANGED <<calls, queued>>
          \/ e.kind = "finished" /\ UNCHANGED <<calls, queued>> /\ (pc' = pc \/ seeking' = FALSE)
          \/ e.kind = "shutdown" /\ UNCHANGED <<calls, queued>> /\ pc' = "done"
      BY <1>7, <2>2 DEF HandleEvent, e, Events, Calls, SetPaused, BeginRestart, managerVars, callVars
    <3> QED BY <2>2, <3>1
  <2>4. SeekOwed = 0 /\ SeekOwed' \in {0, 1} /\ (SeekOwed' = 1 => e.kind \in Calls)
    BY <2>2, <2>3 DEF SeekOwed
  <2> HIDE DEF u, v
  <2>5. v <= calls /\ queued + v + SeekOwed' <= MaxLoops + 1 + calls
    <3>1. PICK o \in {0, 1} : o = SeekOwed' /\ (o = 1 => e.kind \in Calls)
      BY <2>4
    <3>2. /\ u = v \/ u = v + 1
          /\ o = 0 \/ u = v + 1
      BY <2>1, <3>1
    <3>3. queued + u <= MaxLoops + 1 + calls
      BY <1>1, <1>2, <2>4
    <3>4. v <= calls /\ queued + v + o <= MaxLoops + 1 + calls
      BY <1>1, <1>2, <2>1, <3>2, <3>3
    <3> QED BY <3>1, <3>4
  <2> QED BY <2>1, <2>3, <2>5 DEF Counted, Unhandled, v
<1>8. CASE QueueNewTrack
  <2>1. /\ pc = "queue" /\ pc' = "join" /\ UNCHANGED <<events, calls, seeking>>
        /\ queued' = queued \/ (queued' = queued + 1 /\ threads # {})
    BY <1>8 DEF QueueNewTrack, callVars
  <2>2. SeekOwed' = 0 /\ SeekOwed = IF seeking THEN 1 ELSE 0
    BY <2>1 DEF SeekOwed
  <2>3. ASSUME ~seeking, threads # {} PROVE queued <= MaxLoops
    <3>1. reader[queued][Primary] = "finished"
      BY <2>1, <2>3 DEF IInv, LoopsFollowTheEnd
    <3>2. Primary \in Streams
      BY <2>3, ConstAssumption DEF Primary, IInv, Types
    <3>3. queued \in Tracks
      BY DEF TypeOK
    <3> QED BY <3>1, <3>2, <3>3 DEF Ended
  <2>4. seeking \in BOOLEAN
    BY DEF TypeOK
  <2> HIDE DEF u
  <2>5. queued' + u + SeekOwed' <= MaxLoops + 1 + calls
    BY <1>1, <1>2, <2>1, <2>2, <2>3, <2>4
  <2> QED BY <1>1, <1>2, <2>1, <2>5 DEF Counted, Unhandled, u
<1>9. ASSUME UNCHANGED <<events, calls, queued>>, SeekOwed' \in {0, SeekOwed} PROVE Counted'
  <2>1. SeekOwed \in Nat
    BY DEF SeekOwed
  <2> QED BY <1>1, <1>2, <1>9, <2>1 DEF Counted, Unhandled
<1>10. CASE JoinAndSpawn \/ AbortOldTrack \/ StartNextTrack \/ (\E s \in Streams : StreamEnds(s))
  <2>1. UNCHANGED <<events, calls, queued, seeking>> /\ (pc' = pc \/ pc' # "queue")
    BY <1>10 DEF JoinAndSpawn, AbortOldTrack, StartNextTrack, StreamEnds, callVars, managerVars
  <2> QED BY <1>9, <2>1 DEF SeekOwed
<1>11. CASE UNCHANGED vars
  BY <1>9, <1>11 DEF vars, callVars, managerVars, SeekOwed
<1> QED BY <1>3, <1>5, <1>6, <1>7, <1>8, <1>10, <1>11 DEF Next, Manager

\* Only ReaderFinishes lets a reader come to its end.
LEMMA EndedStep ==
  ASSUME IInv, Ended, [Next]_vars
  PROVE  Ended'
<1>1. reader \in [Tracks -> [Streams -> ReaderStates]]
  BY DEF IInv, Types
<1>2. CASE reader' = reader
  BY <1>2 DEF Ended
<1>3. CASE JoinAndSpawn
  <2>1. PICK started \in SUBSET threads :
          reader' = [reader EXCEPT ![queued] =
                       [s \in Streams |-> IF s \in started THEN "reading" ELSE @[s]]]
    BY <1>3 DEF JoinAndSpawn
  <2>2. \A t \in Tracks, s \in Streams : reader'[t][s] \in {"reading", reader[t][s]}
    BY <1>1, <2>1
  <2> QED BY <2>2 DEF Ended
<1>4. ASSUME NEW t \in Tracks, NEW s \in Streams, ReaderStops(t, s) \/ ReaderFinishes(t, s)
      PROVE  Ended'
  <2>1. PICK how \in {"stopped", "finished"} :
          /\ reader' = [reader EXCEPT ![t][s] = how]
          /\ how = "finished" => t <= MaxLoops
    BY <1>4 DEF ReaderStops, ReaderFinishes, Ends
  <2>2. \A a \in Tracks, b \in Streams :
          reader'[a][b] = IF a = t /\ b = s THEN how ELSE reader[a][b]
    BY <1>1, <2>1
  <2> QED BY <2>1, <2>2 DEF Ended
<1>5. CASE \/ \E c \in Calls : Call(c)
           \/ Unregister \/ HandleEvent \/ QueueNewTrack \/ AbortOldTrack \/ StartNextTrack
           \/ \E s \in Streams : StreamEnds(s)
  BY <1>2, <1>5 DEF Call, Unregister, HandleEvent, QueueNewTrack, AbortOldTrack, StartNextTrack,
     StreamEnds
<1> QED BY <1>2, <1>3, <1>4, <1>5 DEF Next, Manager, vars

LEMMA TypeStep ==
  ASSUME IInv, TypeOK, Counted', calls' \in 0 .. MaxCalls, IInv', [Next]_vars
  PROVE  TypeOK'
<1>1. /\ queued \in Tracks /\ queued' \in Tracks
      /\ threads \subseteq Streams /\ cur \in 0 .. queued /\ queued - cur <= MaxPending
      /\ queued \in Nat /\ cur \in Nat /\ MaxPending \in Nat
  <2>1. queued' \in Tracks
    <3>1. Unhandled' \in Nat /\ SeekOwed' \in Nat
      BY FS_CardinalityType DEF Counted, Unhandled, SeekOwed
    <3>2. queued' \in Nat \ {0} /\ queued' + Unhandled' + SeekOwed' <= MaxLoops + 1 + calls'
      BY DEF IInv, Types, Counted
    <3> QED BY <3>1, <3>2, QueuedIsTrack
  <2> QED BY <2>1, ConstAssumption, TracksAreNumbers DEF TypeOK
<1>2. /\ registered' \in BOOLEAN /\ seeking' \in BOOLEAN /\ events' \in Seq(Events)
      /\ pc' \in {"recv", "queue", "join", "sleep", "done"} /\ threads' \subseteq Streams
      /\ reader' \in [Tracks -> [Streams -> {"none", "reading", "stopped", "finished"}]]
      /\ cur' \in 0 .. queued'
  BY DEF IInv, Types, ReaderStates
<1>3. shouldLoop' \in BOOLEAN
  BY DEF TypeOK, Next, vars, callVars, Call, Unregister, Manager, HandleEvent, QueueNewTrack,
     JoinAndSpawn, AbortOldTrack, ReaderStops, ReaderFinishes, Ends, StreamEnds, StartNextTrack
<1>4. /\ has' \in [Tracks \cup {0} -> SUBSET Streams]
      /\ stopping' \subseteq Tracks
  <2>1. CASE UNCHANGED <<has, stopping>>
    BY <2>1 DEF TypeOK
  <2>2. CASE HandleEvent
    <3>1. has' = has /\ stopping' \in {stopping, Tracks}
      <4>1. events \in Seq(Events) /\ events # <<>>
        BY <2>2 DEF TypeOK, HandleEvent
      <4>2. Head(events) \in Events
        BY <4>1, Taken
      <4> DEFINE e == Head(events)
      <4>3. e.kind \in Calls \cup {"shutdown", "finished"}
        BY <4>2 DEF Events
      <4> HIDE DEF e
      <4> QED BY <2>2, <4>3 DEF HandleEvent, e, Calls, SetPaused, BeginRestart, managerVars
    <3> QED BY <3>1 DEF TypeOK
  <2>3. CASE QueueNewTrack
    <3>1. CASE threads = {}
      BY <2>1, <2>3, <3>1 DEF QueueNewTrack
    <3>2. CASE threads # {}
      <4>1. /\ queued' = queued + 1 /\ has' = [has EXCEPT ![queued + 1] = threads]
            /\ stopping' = stopping \cup {queued}
        BY <2>3, <3>2 DEF QueueNewTrack
      <4> QED BY <1>1, <4>1 DEF TypeOK
    <3> QED BY <3>1, <3>2
  <2> QED BY <2>1, <2>2, <2>3 DEF Next, vars, callVars, managerVars, Call, Unregister, Manager,
       JoinAndSpawn, AbortOldTrack, ReaderStops, ReaderFinishes, Ends, StreamEnds, StartNextTrack
<1>5. queued' - cur' <= MaxPending
  <2>0. queued \in Nat /\ cur \in Nat /\ MaxPending \in Nat /\ queued - cur <= MaxPending
    BY <1>1
  <2>1. CASE QueueNewTrack
    <3>1. cur' = cur
      BY <2>1 DEF QueueNewTrack, playVars
    <3>2. \/ queued' = queued
          \/ queued' = queued + 1 /\ queued - cur < MaxPending
      BY <2>1 DEF QueueNewTrack
    <3> QED BY <2>0, <3>1, <3>2
  <2>2. CASE queued' = queued /\ cur' \in {cur, cur + 1}
    <3>1. CASE cur' = cur
      BY <2>0, <2>2, <3>1
    <3>2. CASE cur' = cur + 1
      <4>1. queued - (cur + 1) <= MaxPending
        BY <2>0
      <4> QED BY <2>2, <3>2, <4>1
    <3> QED BY <2>2, <3>1, <3>2
  <2>3. CASE HandleEvent
    <3>1. events \in Seq(Events) /\ events # <<>>
      BY <2>3 DEF TypeOK, HandleEvent
    <3>2. Head(events) \in Events
      BY <3>1, Taken
    <3> DEFINE e == Head(events)
    <3>3. e.kind \in Calls \cup {"shutdown", "finished"}
      BY <3>2 DEF Events
    <3> HIDE DEF e
    <3>4. queued' = queued /\ cur' = cur
      BY <2>3, <3>3 DEF HandleEvent, e, Calls, SetPaused, BeginRestart, managerVars
    <3> QED BY <2>2, <3>4
  <2> QED BY <2>1, <2>2, <2>3 DEF Next, vars, callVars, managerVars, playVars, Call, Unregister,
       Manager, JoinAndSpawn, AbortOldTrack, NextTrack, ReaderStops, ReaderFinishes, Ends,
       StreamEnds, StartNextTrack
<1>6. eosSent' \subseteq Streams
  <2>1. ASSUME NEW s \in Streams, StreamEnds(s) PROVE eosSent' \subseteq Streams
    BY <2>1 DEF StreamEnds, TypeOK
  <2>2. CASE eosSent' = eosSent \/ eosSent' = {}
    BY <2>2 DEF TypeOK
  <2> QED BY <2>1, <2>2 DEF Next, vars, playVars, Call, Unregister, Manager, HandleEvent,
       QueueNewTrack, JoinAndSpawn, AbortOldTrack, NextTrack, ReaderStops, ReaderFinishes, Ends,
       StartNextTrack
<1>7. paused' \in BOOLEAN
  <2>1. CASE HandleEvent
    <3>1. events \in Seq(Events) /\ events # <<>>
      BY <2>1 DEF TypeOK, HandleEvent
    <3>2. Head(events) \in Events
      BY <3>1, Taken
    <3> DEFINE e == Head(events)
    <3>3. e.kind \in Calls \cup {"shutdown", "finished"}
      BY <3>2 DEF Events
    <3> HIDE DEF e
    <3>4. paused' \in {TRUE, FALSE, paused}
      BY <2>1, <3>3 DEF HandleEvent, e, Calls, SetPaused, BeginRestart
    <3> QED BY <3>4 DEF TypeOK
  <2>2. CASE paused' = paused
    BY <2>2 DEF TypeOK
  <2> QED BY <2>1, <2>2 DEF Next, vars, playVars, Call, Unregister, Manager, QueueNewTrack,
       JoinAndSpawn, AbortOldTrack, ReaderStops, ReaderFinishes, Ends, StreamEnds, StartNextTrack
<1> QED BY <1>1, <1>2, <1>3, <1>4, <1>5, <1>6, <1>7 DEF TypeOK

\* Every variable keeps its type.  The part that is not obvious: whatever calls
\* and ends of readers come together, every track that is queued is one of Tracks
\* (there is one for each call and for each loop), and never more than MaxPending
\* are waiting.
THEOREM TypeOKCorrect == Spec => []TypeOK
<1> DEFINE Inv == IInv /\ TypeOK /\ Ended /\ Counted
<1>1. Init => Inv
  <2> SUFFICES ASSUME Init PROVE Inv
    OBVIOUS
  <2>1. MaxLoops \in Nat \ {0} /\ MaxCalls \in Nat /\ MaxPending \in Nat \ {0}
    BY ConstAssumption
  <2>2. 1 \in Tracks
    BY <2>1 DEF Tracks
  <2>3. TypeOK
    <3>1. /\ has \in [Tracks \cup {0} -> SUBSET Streams] /\ events \in Seq(Events)
          /\ reader \in [Tracks -> [Streams -> {"none", "reading", "stopped", "finished"}]]
      BY DEF Init
    <3>2. /\ cur = 0 /\ queued = 1 /\ calls = 0 /\ pc = "recv" /\ threads = Streams
          /\ shouldLoop \in BOOLEAN /\ registered \in BOOLEAN /\ seeking \in BOOLEAN
          /\ stopping = {} /\ eosSent = {} /\ paused \in BOOLEAN
      BY DEF Init
    <3>3. cur \in 0 .. queued /\ queued - cur <= MaxPending /\ calls \in 0 .. MaxCalls
      BY <2>1, <3>2
    <3> QED BY <2>2, <3>1, <3>2, <3>3 DEF TypeOK
  <2>4. Ended
    BY DEF Init, Ended
  <2>5. CallsIn(events) = {}
    BY DEF Init, CallsIn
  <2>6. Counted
    BY <2>1, <2>5, FS_EmptySet DEF Init, Counted, Unhandled, SeekOwed
  <2> QED BY <2>3, <2>4, <2>6, InitIInv
<1>2. Inv /\ [Next]_vars => Inv'
  <2> SUFFICES ASSUME Inv, [Next]_vars PROVE Inv'
    OBVIOUS
  <2>1. calls' \in 0 .. MaxCalls
    <3>1. calls' = calls \/ (calls < MaxCalls /\ calls' = calls + 1)
      BY DEF Next, vars, callVars, Call, Unregister, Manager, HandleEvent, QueueNewTrack,
         JoinAndSpawn, AbortOldTrack, ReaderStops, ReaderFinishes, Ends, StreamEnds,
         StartNextTrack
    <3> QED BY <3>1, ConstAssumption DEF TypeOK
  <2> QED BY <2>1, NextIInv, EndedStep, CountedStep, TypeStep
<1>3. Inv => TypeOK
  OBVIOUS
<1> QED BY <1>1, <1>2, <1>3, PTL DEF Spec
=============================================================================
