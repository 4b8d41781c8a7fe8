------------------------- MODULE QueueThreadProofs -------------------------
(***************************************************************************)
(* Safety of the queue thread, for any number of inputs and events, any    *)
(* batch durations and any channel capacities.                             *)
(*                                                                         *)
(* The PTS of the next batch, NextPts(s), is a product, which the provers  *)
(* handle badly.  The lemmas of the first part say how it moves; nothing   *)
(* after them expands its definition.                                      *)
(***************************************************************************)
EXTENDS QueueThread, FiniteSetTheorems, WellFoundedInduction, TLAPS

-----------------------------------------------------------------------------
(* How the output timeline moves. *)

\* The PTS of the next batch is a natural number once the queue has a start.
LEMMA NextPtsType ==
  ASSUME TypeOK, startPts \in Nat, NEW s \in Sides
  PROVE  NextPts(s) \in Nat
<1>1. cnt[s] \in Nat /\ Period[s] \in Nat
  BY ConstAssumption DEF TypeOK
<1>2. cnt[s] * Period[s] \in Nat
  BY <1>1, SMT
<1> QED BY <1>2 DEF NextPts

\* It only depends on the start and the counter of the side.
LEMMA NextPtsSame ==
  ASSUME startPts' = startPts, cnt' = cnt, NEW s \in Sides
  PROVE  NextPts(s)' = NextPts(s)
BY DEF NextPts

\* Counting a batch of side t moves t by one batch, and no other side.
LEMMA NextPtsAdvances ==
  ASSUME TypeOK, startPts \in Nat, startPts' = startPts, NEW t \in Sides,
         cnt' = [cnt EXCEPT ![t] = @ + 1]
  PROVE  /\ NextPts(t)' = NextPts(t) + Period[t]
         /\ \A s \in Sides : s # t => NextPts(s)' = NextPts(s)
<1>1. cnt[t] \in Nat /\ Period[t] \in Nat /\ cnt'[t] = cnt[t] + 1
  BY ConstAssumption DEF TypeOK
<1>2. \A c, d \in Nat : (c + 1) * d = c * d + d
  BY SMT
<1>3. cnt'[t] * Period[t] = cnt[t] * Period[t] + Period[t]
  BY <1>1, <1>2
<1>4. cnt[t] * Period[t] \in Nat
  BY <1>1, SMT
<1>5. NextPts(t)' = NextPts(t) + Period[t]
  BY <1>1, <1>3, <1>4, SMT DEF NextPts
<1>6. ASSUME NEW s \in Sides, s # t
      PROVE  NextPts(s)' = NextPts(s)
  BY <1>6 DEF NextPts, TypeOK
<1> QED BY <1>5, <1>6

\* Both sides begin at the start.
LEMMA NextPtsAtStart ==
  ASSUME startPts \in Nat, cnt = [s \in Sides |-> 0], NEW t \in Sides
  PROVE  NextPts(t) = startPts
<1>1. Period[t] \in Nat /\ cnt[t] = 0
  BY ConstAssumption
<1>2. 0 * Period[t] = 0
  BY <1>1, SMT
<1> QED BY <1>1, <1>2 DEF NextPts
-----------------------------------------------------------------------------
(* The inductive invariant. *)

\* What the thread has, and has not, done before it received the start.
StartOrder ==
  /\ startSender # "held" => startPts \in Nat
  /\ pc = "before" => /\ startSender # "taken"
                      /\ lastPts = None
                      /\ cnt = [s \in Sides |-> 0]
                      /\ \A s \in Sides : chan[s] = <<>>
  /\ Started => startSender = "taken"

\* While a batch is sent nothing that decided its choice has changed.
SendingSlot ==
  pc = "send" =>
    /\ batch.pts = NextPts(batch.side)
    /\ \A s \in Sides : NextPts(batch.side) <= NextPts(s)
    /\ batch.side = "audio" => NextPts("audio") < NextPts("video")

\* The events whose callbacks are stored under a PTS.
Stored(p) == {scheduled[p][k] : k \in 1 .. Len(scheduled[p])}

\* A callback is stored under the PTS of its event, and only there.
Registered ==
  /\ \A e \in Events :
        /\ ev[e].st # "none" => ev[e].pts \in EventPts
        /\ ev[e].st = "queued" => e \in Stored(ev[e].pts)
        /\ ev[e].late => ev[e].st \notin {"none", "sending"}
        /\ pc = "before" => ~ev[e].late /\ ev[e].st \notin {"discarded", "ran"}
  /\ \A p \in EventPts : \A e \in Stored(p) :
        e \in Events /\ ev[e].st = "queued" /\ ev[e].pts = p

\* The EOS flag of a side of an input is on its way in the batch being sent.
Sending(s, i) == batch.side = s /\ i \in batch.eos

\* The flag of a side that ended is in one place only: in one batch of the
\* channel, in the batch being sent, or read.  Cardinalities are awkward to
\* carry through a proof, so EosExactlyOnce is derived from this.  A batch with
\* a flag is required, which is why a full channel does not lose it.
EosPlaces ==
  /\ pc # "send" => batch = NoBatch
  /\ batch.eos # {} => batch.required
  /\ \A s \in Sides, i \in Inputs :
       consumer[s] = "running" =>
         /\ i \in eosSent[s] <=>
              EosIndexes(s, i) # {} \/ Sending(s, i) \/ i \in seen[s]
         /\ Sending(s, i) => EosIndexes(s, i) = {} /\ i \notin seen[s]
         /\ i \in seen[s] => EosIndexes(s, i) = {}
         /\ \A k, l \in EosIndexes(s, i) : k = l

\* LastPtsSeparates, Interleaved, EventsInPlace and ChannelsInOrder do not say
\* why a batch being sent is the right one, nor that a callback is found under
\* its PTS.
IInv ==
  /\ TypeOK
  /\ StartOrder
  /\ SendingSlot
  /\ Registered
  /\ Interleaved
  /\ LastPtsSeparates
  /\ EventsInPlace
  /\ ChannelsInOrder
  /\ EosPlaces
-----------------------------------------------------------------------------
(* The initial state. *)

LEMMA InitInv == Init => IInv
<1> SUFFICES ASSUME Init PROVE IInv
  OBVIOUS
<1>1. TypeOK
  <2>1. NoBatch \in BatchType
    BY DEF NoBatch, BatchType, None, Sides
  <2>2. scheduled \in [EventPts -> Seq(Events)] /\ chan \in [Sides -> Seq(BatchType)]
    BY DEF Init
  <2>3. ev \in [Events -> [st : {"none", "sending", "queued", "discarded", "ran"},
                           pts : EventPts \cup {None},
                           policy : Policies,
                           late : BOOLEAN]]
    BY DEF Init, NoEvent, Policies
  <2>4. head \in [Sides -> [Inputs -> Nat]] /\ ended \in [Sides -> [Inputs -> BOOLEAN]]
    BY DEF Init
  <2>5. eosSent \in [Sides -> SUBSET Inputs] /\ seen \in [Sides -> SUBSET Inputs]
    BY DEF Init
  <2> QED BY <2>1, <2>2, <2>3, <2>4, <2>5 DEF Init, TypeOK, None
<1>2. ~Started /\ pc = "before"
  BY DEF Init, Started
<1>3. StartOrder
  BY <1>2 DEF Init, StartOrder, None
<1>4. SendingSlot
  BY <1>2 DEF SendingSlot
<1>5. Registered
  BY <1>2 DEF Init, Registered, Stored, NoEvent
<1>6. Interleaved /\ LastPtsSeparates
  BY <1>2 DEF Interleaved, LastPtsSeparates
<1>7. EventsInPlace
  BY <1>2 DEF Init, EventsInPlace, NoEvent
<1>8. ChannelsInOrder
  BY <1>2 DEF ChannelsInOrder
<1>9. EosPlaces
  <2>1. \A s \in Sides, i \in Inputs : EosIndexes(s, i) = {}
    BY DEF Init, EosIndexes
  <2> QED BY <2>1 DEF Init, EosPlaces, Sending, NoBatch
<1> QED BY <1>1, <1>3, <1>4, <1>5, <1>6, <1>7, <1>8, <1>9 DEF IInv
-----------------------------------------------------------------------------
(* Types. *)

\* A batch the thread makes is a batch.
LEMMA NextBatchType ==
  ASSUME TypeOK, startPts \in Nat, NEW s \in Sides
  PROVE  NextBatch(s) \in BatchType /\ EosIn(s) \subseteq Inputs
<1>1. NextPts(s) \in Nat
  BY NextPtsType
<1>2. EosIn(s) \subseteq Inputs
  BY DEF EosIn, Visible
<1>3. (\/ Visible(s) \cap Required # {} \/ EosIn(s) # {} \/ NeverDrop) \in BOOLEAN
  BY ConstAssumption
<1> QED BY <1>1, <1>2, <1>3 DEF NextBatch, BatchType

EventType == [st : {"none", "sending", "queued", "discarded", "ran"},
              pts : EventPts \cup {None}, policy : Policies, late : BOOLEAN]

\* An event that moves on stays an event.
LEMMA InStateType ==
  ASSUME TypeOK, NEW e \in Events, NEW late \in BOOLEAN,
         NEW st \in {"none", "sending", "queued", "discarded", "ran"}
  PROVE  InState(e, st, late) \in EventType
<1>1. ev[e] \in EventType
  BY DEF TypeOK, EventType
<1> QED BY <1>1 DEF InState, EventType

\* Storing a callback keeps a sequence of events under every PTS.
LEMMA AddScheduledType ==
  ASSUME TypeOK, NEW e \in Events, AddScheduled(e)
  PROVE  scheduled' \in [EventPts -> Seq(Events)]
<1>1. ASSUME NEW p \in EventPts PROVE Append(scheduled[p], e) \in Seq(Events)
  BY DEF TypeOK
<1> QED BY <1>1 DEF AddScheduled, TypeOK

\* Taking the first batch, or all of them, leaves a sequence of batches.
LEMMA ChanTail ==
  ASSUME TypeOK, NEW s \in Sides, chan[s] # <<>>
  PROVE  Tail(chan[s]) \in Seq(BatchType) /\ Head(chan[s]) \in BatchType
BY DEF TypeOK

\* What a send changes besides the channel keeps its type.
LEMMA SendReturnsType ==
  ASSUME TypeOK, SendReturns
  PROVE  cnt' \in [Sides -> Nat] /\ batch' \in BatchType
<1>1. batch.side \in Sides
  BY DEF TypeOK, BatchType
<1>2. NoBatch \in BatchType
  BY DEF NoBatch, BatchType, None, Sides
<1> QED BY <1>1, <1>2 DEF SendReturns, TypeOK

\* Every step leaves every variable in its type.
LEMMA TypeStep ==
  ASSUME TypeOK, StartOrder, [Next]_vars
  PROVE  TypeOK'
<1> USE ConstAssumption DEF TypeOK, None
<1>1. ASSUME NEW e \in Events, ReceiveEventBeforeStart(e)
      PROVE  TypeOK'
  <2>1. InState(e, "queued", FALSE) \in EventType
    BY InStateType
  <2>2. scheduled' \in [EventPts -> Seq(Events)]
    BY <1>1, AddScheduledType DEF ReceiveEventBeforeStart
  <2> QED
    BY <1>1, <2>1, <2>2 DEF ReceiveEventBeforeStart, EventType, callVars, inputVars
<1>2. ASSUME NEW e \in Events, ReceiveEvent(e)
      PROVE  TypeOK'
  <2>1. IsLate(e) \in BOOLEAN
    BY DEF IsLate
  <2>2. \A st \in {"queued", "discarded"} : InState(e, st, IsLate(e)) \in EventType
    BY <2>1, InStateType
  <2>3. scheduled' \in [EventPts -> Seq(Events)]
    BY <1>2, AddScheduledType DEF ReceiveEvent
  <2>4. ev' \in [Events -> EventType]
    BY <1>2, <2>2 DEF ReceiveEvent, EventType
  <2> QED
    BY <1>2, <2>3, <2>4 DEF ReceiveEvent, EventType, callVars, inputVars
<1>3. CASE ReceiveStart
  BY <1>3 DEF ReceiveStart, inputVars
<1>4. CASE CloseBeforeStart
  BY <1>4 DEF CloseBeforeStart, callVars, inputVars
<1>5. CASE Tick
  BY <1>5 DEF Tick, callVars, inputVars
<1>6. ASSUME NEW p \in EventPts, HandleEvent(p)
      PROVE  TypeOK'
  <2>1. startPts \in Nat /\ p \in Nat
    BY <1>6 DEF HandleEvent, StartOrder, Started
  <2>2. \A e \in Events : InState(e, "ran", ev[e].late) \in EventType
    BY InStateType DEF EventType
  <2>3. ev' \in [Events -> EventType]
    BY <1>6, <2>2 DEF HandleEvent, EventType
  <2> QED
    BY <1>6, <2>1, <2>3 DEF HandleEvent, UpdateLastPts, Larger, EventType,
       callVars, inputVars
<1>7. ASSUME NEW s \in Sides, PushBatch(s)
      PROVE  TypeOK'
  <2>1. startPts \in Nat
    BY <1>7 DEF PushBatch, StartOrder, Started
  <2>2. NextPts(s) \in Nat /\ NextBatch(s) \in BatchType /\ EosIn(s) \subseteq Inputs
    BY <2>1, NextPtsType, NextBatchType
  <2> QED BY <1>7, <2>2 DEF PushBatch, UpdateLastPts, Larger, callVars, inputVars
<1>8. ASSUME NEW s \in Sides, NothingToPush(s)
      PROVE  TypeOK'
  <2>1. NextPts(s) \in Nat
    BY <1>8, NextPtsType DEF NothingToPush, StartOrder, Started
  <2> QED BY <1>8, <2>1 DEF NothingToPush, UpdateLastPts, Larger, callVars, inputVars
<1>9. CASE CloseOnTick
  BY <1>9 DEF CloseOnTick, callVars, inputVars
<1>10. CASE SendOk
  <2>1. ASSUME NEW s \in Sides PROVE Append(chan[s], batch) \in Seq(BatchType)
    OBVIOUS
  <2>2. chan' \in [Sides -> Seq(BatchType)]
    BY <1>10, <2>1 DEF SendOk
  <2> QED BY <1>10, <2>2, SendReturnsType DEF SendOk, SendReturns, callVars, inputVars
<1>11. CASE SendTimeout
  BY <1>11, SendReturnsType DEF SendTimeout, SendReturns, callVars, inputVars
<1>12. CASE SendDisconnected
  BY <1>12, SendReturnsType DEF SendDisconnected, SendReturns, callVars, inputVars
<1>13. ASSUME NEW s \in Sides, Consume(s)
       PROVE  TypeOK'
  <2>1. Tail(chan[s]) \in Seq(BatchType) /\ Head(chan[s]).eos \subseteq Inputs
    BY <1>13, ChanTail DEF Consume, BatchType
  <2>2. <<>> \in Seq(BatchType)
    OBVIOUS
  <2>3. chan' \in [Sides -> Seq(BatchType)]
    <3>1. \/ chan' = [chan EXCEPT ![s] = Tail(chan[s])]
          \/ chan' = [chan EXCEPT ![s] = <<>>]
      BY <1>13 DEF Consume
    <3> QED BY <2>1, <2>2, <3>1
  <2>4. seen' \in [Sides -> SUBSET Inputs]
    <3>1. \/ seen' = [seen EXCEPT ![s] = seen[s] \cup Head(chan[s]).eos]
          \/ seen' = seen
      BY <1>13 DEF Consume
    <3>2. seen[s] \cup Head(chan[s]).eos \in SUBSET Inputs
      BY <2>1
    <3> HIDE DEF TypeOK
    <3>3. seen \in [Sides -> SUBSET Inputs]
      BY DEF TypeOK
    <3> QED BY <3>1, <3>2, <3>3
  <2>5. consumer' \in [Sides -> {"running", "stopped"}]
    BY <1>13 DEF Consume
  <2> QED BY <1>13, <2>3, <2>4, <2>5 DEF Consume, callVars, inputVars
<1>14. ASSUME NEW s \in Sides, ConsumerEnds(s)
       PROVE  TypeOK'
  BY <1>14 DEF ConsumerEnds, callVars, inputVars
<1>15. CASE Start
  BY <1>15 DEF Start, Larger, inputVars
<1>16. ASSUME NEW e \in Events, NEW p \in EventPts, NEW policy \in Policies,
              ScheduleEvent(e, p, policy)
       PROVE  TypeOK'
  BY <1>16 DEF ScheduleEvent, callVars, inputVars
<1>17. CASE Shutdown
  BY <1>17 DEF Shutdown, inputVars
<1>18. ASSUME NEW i \in Inputs, \/ AddInputVideo(i) \/ AddInputAudio(i)
                           \/ RemoveInput(i) \/ RemoveInputAudio(i)
       PROVE  TypeOK'
  BY <1>18 DEF AddInputVideo, AddInputAudio, RemoveInput, RemoveInputAudio, callVars
<1>19. ASSUME NEW s \in Sides, NEW i \in Inputs, EndOfStream(s, i)
       PROVE  TypeOK'
  BY <1>19 DEF EndOfStream, callVars
<1>20. ASSUME NEW s \in Sides, NEW i \in Inputs, NEW h \in Heads, Produce(s, i, h)
       PROVE  TypeOK'
  BY <1>20 DEF Produce, callVars
<1>21. CASE Elapse
  BY <1>21 DEF Elapse, callVars, inputVars
<1>22. CASE UNCHANGED vars
  BY <1>22 DEF vars, callVars, inputVars
<1> QED
  BY <1>1, <1>2, <1>3, <1>4, <1>5, <1>6, <1>7, <1>8, <1>9, <1>10, <1>11, <1>12,
     <1>13, <1>14, <1>15, <1>16, <1>17, <1>18, <1>19, <1>20, <1>21, <1>22
  DEF Next, ThreadStep, ConsumerStep
-----------------------------------------------------------------------------
(* The order of the output. *)

\* What the thread has done before the start stays true until the start.
LEMMA StartOrderStep ==
  ASSUME TypeOK, StartOrder, [Next]_vars
  PROVE  StartOrder'
<1> USE DEF TypeOK, StartOrder, Started
<1>1. CASE UNCHANGED <<startSender, startPts, pc, lastPts, cnt, chan>>
  BY <1>1
<1>2. CASE ReceiveStart
  BY <1>2 DEF ReceiveStart
<1>3. CASE CloseBeforeStart \/ Tick \/ CloseOnTick
  BY <1>3 DEF CloseBeforeStart, Tick, CloseOnTick, callVars
<1>4. CASE (\E p \in EventPts : HandleEvent(p)) \/ (\E s \in Sides : PushBatch(s) \/ NothingToPush(s))
  BY <1>4 DEF HandleEvent, PushBatch, NothingToPush, callVars
<1>5. CASE SendOk \/ SendTimeout \/ SendDisconnected
  BY <1>5 DEF SendOk, SendTimeout, SendDisconnected, SendReturns, callVars
<1>6. ASSUME NEW s \in Sides, Consume(s) \/ ConsumerEnds(s)
      PROVE  StartOrder'
  BY <1>6 DEF Consume, ConsumerEnds, callVars
<1>7. CASE Start
  BY <1>7, ConstAssumption DEF Start, Larger
<1> QED
  BY <1>1, <1>2, <1>3, <1>4, <1>5, <1>6, <1>7
  DEF Next, ThreadStep, ConsumerStep, ReceiveEventBeforeStart, ReceiveEvent,
      ScheduleEvent, Shutdown, AddInputVideo, AddInputAudio, RemoveInput, RemoveInputAudio,
      EndOfStream, Produce, Elapse, vars, callVars

\* NextSide is the side with the smallest PTS, the video side when they meet.
LEMMA NextSideIsBehind ==
  ASSUME TypeOK, startPts \in Nat
  PROVE  /\ NextSide \in Sides
         /\ \A s \in Sides : NextPts(NextSide) <= NextPts(s)
         /\ NextSide = "audio" => NextPts("audio") < NextPts("video")
BY NextPtsType DEF NextSide, Sides

\* The properties of the output order, with what they need of each other.
Order == SendingSlot /\ Interleaved /\ LastPtsSeparates

LEMMA OrderStep ==
  ASSUME TypeOK, StartOrder, Order, [Next]_vars
  PROVE  Order'
<1> USE DEF Order, SendingSlot, Interleaved, LastPtsSeparates, LastOf, Started
<1>1. /\ Started => startPts \in Nat
      /\ Started => \A s \in Sides : NextPts(s) \in Nat
      /\ \A s \in Sides : Period[s] \in Nat \ {0} /\ cnt[s] \in Nat
      /\ batch.side \in Sides /\ lastPts \in Nat \cup {-1}
      /\ Sides = {"video", "audio"}
  <2>1. Started => startPts \in Nat
    BY DEF StartOrder
  <2>2. Started => \A s \in Sides : NextPts(s) \in Nat
    BY <2>1, NextPtsType
  <2>3. \A s \in Sides : Period[s] \in Nat \ {0} /\ cnt[s] \in Nat
    BY ConstAssumption DEF TypeOK
  <2>4. batch.side \in Sides /\ lastPts \in Nat \cup {-1}
    BY DEF TypeOK, BatchType, None
  <2> QED BY <2>1, <2>2, <2>3, <2>4 DEF Sides
<1>2. ASSUME UNCHANGED <<startPts, cnt>>
      PROVE  \A s \in Sides : NextPts(s)' = NextPts(s)
  BY <1>2, NextPtsSame
<1>3. CASE UNCHANGED <<startPts, pc, lastPts, cnt, batch>>
  BY <1>1, <1>2, <1>3
<1>4. CASE ReceiveStart
  <2>1. startPts \in Nat /\ cnt = [s \in Sides |-> 0] /\ lastPts = -1
    BY <1>4 DEF ReceiveStart, StartOrder, None
  <2>2. \A s \in Sides : NextPts(s) = startPts
    BY <2>1, NextPtsAtStart
  <2> QED BY <1>1, <1>2, <1>4, <2>1, <2>2 DEF ReceiveStart
<1>5. CASE CloseBeforeStart \/ Tick \/ CloseOnTick
  BY <1>1, <1>2, <1>5 DEF CloseBeforeStart, Tick, CloseOnTick, callVars
<1>6. ASSUME NEW p \in EventPts, HandleEvent(p)
      PROVE  Order'
  <2>0. /\ pc = "tick" /\ lastPts' = Larger(startPts + p, lastPts)
        /\ UNCHANGED <<startPts, pc, cnt, batch>>
    BY <1>6 DEF HandleEvent, UpdateLastPts, callVars
  <2>1. startPts + p \in Nat
    <3>1. startPts \in Nat /\ p \in Nat
      BY <1>1, <2>0, ConstAssumption
    <3> QED BY <3>1
  <2>2. \A s \in Sides : startPts + p <= NextPts(s)
    BY <1>1, <1>6 DEF HandleEvent, EventDue
  <2> QED BY <1>1, <1>2, <2>0, <2>1, <2>2 DEF Larger
<1>7. ASSUME NEW s \in Sides, PushBatch(s) \/ NothingToPush(s)
      PROVE  Order'
  <2>1. s = NextSide /\ startPts \in Nat
    BY <1>1, <1>7 DEF PushBatch, NothingToPush
  <2>2. /\ \A t \in Sides : NextPts(s) <= NextPts(t)
        /\ s = "audio" => NextPts("audio") < NextPts("video")
    BY <2>1, NextSideIsBehind
  <2>3. lastPts' = Larger(NextPts(s), lastPts) /\ UNCHANGED <<startPts, cnt>>
    BY <1>7 DEF PushBatch, NothingToPush, UpdateLastPts, callVars
  <2>4. pc' = "send" => batch' = NextBatch(s)
    BY <1>7 DEF PushBatch, NothingToPush
  <2>5. pc = "tick"
    BY <1>7 DEF PushBatch, NothingToPush
  <2>6. NextBatch(s).side = s /\ NextBatch(s).pts = NextPts(s)
    BY DEF NextBatch
  <2> QED BY <1>1, <1>2, <2>2, <2>3, <2>4, <2>5, <2>6 DEF Larger
<1>8. CASE SendOk \/ SendTimeout \/ SendDisconnected
  <2>0. PICK t \in Sides : t = batch.side
    BY <1>1
  <2>1. /\ pc = "send" /\ pc' = "tick"
        /\ cnt' = [cnt EXCEPT ![t] = @ + 1]
        /\ UNCHANGED <<startPts, lastPts>>
    BY <1>8, <2>0 DEF SendOk, SendTimeout, SendDisconnected, SendReturns, callVars
  <2>2. /\ NextPts(t)' = NextPts(t) + Period[t]
        /\ \A s \in Sides : s # t => NextPts(s)' = NextPts(s)
    BY <1>1, <2>1, NextPtsAdvances
  <2>3. \A s \in Sides : s # t => cnt'[s] = cnt[s]
    BY <2>1 DEF TypeOK
  <2>4. Interleaved'
    BY <1>1, <2>0, <2>1, <2>2
  <2>5. \A s \in Sides : (lastPts <= NextPts(s) /\ (cnt[s] > 0 => LastOf(s) <= lastPts))'
    BY <1>1, <2>0, <2>1, <2>2, <2>3
  <2> QED BY <2>1, <2>4, <2>5
<1>9. CASE Start
  BY <1>9 DEF Start, StartOrder
<1> QED
  BY <1>3, <1>4, <1>5, <1>6, <1>7, <1>8, <1>9
  DEF Next, ThreadStep, ConsumerStep, ReceiveEventBeforeStart, ReceiveEvent,
      Consume, ConsumerEnds, ScheduleEvent, Shutdown, AddInputVideo, AddInputAudio,
      RemoveInput, RemoveInputAudio, EndOfStream, Produce, Elapse, vars, callVars
-----------------------------------------------------------------------------
(* Scheduled events. *)

\* When events are stored, one of them is the first.
LEMMA FirstEventExists ==
  ASSUME NEW q \in PendingPts
  PROVE  \E p \in PendingPts : IsFirstEvent(p) /\ p <= q
<1> DEFINE Less == {ss \in Nat \X Nat : ss[1] < ss[2]}
<1>1. PendingPts \subseteq Nat
  BY ConstAssumption DEF PendingPts
<1>2. IsWellFoundedOn(Less, Nat)
  BY NatLessThanWellFounded, Zenon DEF OpToRel
<1> DEFINE Upto == {x \in PendingPts : x <= q}
<1>3. Upto \subseteq Nat /\ Upto # {}
  <2>1. q \in Nat
    BY <1>1
  <2>2. q \in Upto
    BY <2>1
  <2> QED BY <1>1, <2>2
<1>4. PICK p \in Upto : \A x \in Upto : ~(<<x, p>> \in Less)
  <2> HIDE DEF Less, Upto
  <2> QED BY <1>2, <1>3, WFMin, Zenon
<1>5. \A x \in Upto : ~(x < p)
  <2> SUFFICES ASSUME NEW x \in Upto, x < p
               PROVE  FALSE
    OBVIOUS
  <2>1. <<x, p>> \in Less
    BY <1>3
  <2> QED BY <1>4, <2>1
<1>6. \A x \in PendingPts : p <= x
  BY <1>1, <1>5
<1> QED BY <1>6 DEF IsFirstEvent

\* When no event is due, every stored event lies after the side that is behind.
LEMMA NothingDue ==
  ASSUME TypeOK, startPts \in Nat, NEW q \in PendingPts,
         \A p \in EventPts : ~EventDue(p)
  PROVE  NextPts(NextSide) < startPts + q
<1>1. PICK p \in PendingPts : IsFirstEvent(p) /\ p <= q
  BY FirstEventExists
<1>2. p \in Nat /\ q \in Nat /\ p \in EventPts
  BY ConstAssumption DEF PendingPts
<1>3. ~(startPts + p <= NextPts("video") /\ startPts + p <= NextPts("audio"))
  BY <1>1, <1>2 DEF EventDue
<1>4. /\ NextPts("video") \in Nat /\ NextPts("audio") \in Nat /\ NextSide \in Sides
      /\ NextPts(NextSide) <= NextPts("video")
      /\ NextPts(NextSide) <= NextPts("audio")
  BY NextPtsType, NextSideIsBehind DEF Sides
<1>5. NextPts(NextSide) \in Nat
  BY <1>4, NextPtsType
<1> QED BY <1>1, <1>2, <1>3, <1>4, <1>5

\* An event that on_enqueue_event turns away is late.
LEMMA TurnedAwayIsLate ==
  ASSUME TypeOK, startPts \in Nat, NEW e \in Events, ev[e].pts \in EventPts,
         ~AcceptsEvent(e)
  PROVE  IsLate(e)
<1>1. /\ NextPts("video") \in Nat /\ NextPts("audio") \in Nat
      /\ startPts + ev[e].pts \in Nat
  <2>1. ev[e].pts \in Nat
    BY ConstAssumption
  <2> QED BY <2>1, NextPtsType DEF Sides
<1>2. MinPts <= NextPts("video") /\ MinPts <= NextPts("audio") /\ MinPts \in Nat
  <2>1. CASE PendingPts = {}
    BY <1>1, <2>1 DEF MinPts, Smaller
  <2>2. CASE PendingPts # {}
    <3>1. PICK p \in PendingPts : IsFirstEvent(p)
      BY <2>2, FirstEventExists
    <3>2. (CHOOSE x \in PendingPts : IsFirstEvent(x)) \in Nat
      BY <3>1, ConstAssumption DEF PendingPts
    <3> QED BY <1>1, <2>2, <3>2 DEF MinPts, Smaller
  <2> QED BY <2>1, <2>2
<1>3. startPts + ev[e].pts < MinPts
  <2>1. ~(startPts + ev[e].pts >= MinPts)
    BY DEF AcceptsEvent
  <2> QED BY <1>1, <1>2, <2>1
<1> QED BY <1>1, <1>2, <1>3 DEF IsLate

\* A stored event makes its PTS one of the pending ones.
LEMMA StoredIsPending ==
  ASSUME TypeOK, NEW p \in EventPts, NEW e \in Stored(p)
  PROVE  p \in PendingPts
BY DEF Stored, PendingPts, TypeOK

\* Storing an event adds it under its PTS.
LEMMA StoredAfterAdd ==
  ASSUME TypeOK, NEW e \in Events, ev[e].pts \in EventPts, AddScheduled(e),
         NEW p \in EventPts
  PROVE  Stored(p)' = IF p = ev[e].pts THEN Stored(p) \cup {e} ELSE Stored(p)
<1>1. CASE p = ev[e].pts
  <2>1. scheduled'[p] = Append(scheduled[p], e) /\ scheduled[p] \in Seq(Events)
    BY <1>1 DEF AddScheduled, TypeOK
  <2>2. Len(scheduled'[p]) = Len(scheduled[p]) + 1 /\ Len(scheduled[p]) \in Nat
    BY <2>1
  <2>3. /\ \A k \in 1 .. Len(scheduled[p]) : scheduled'[p][k] = scheduled[p][k]
        /\ scheduled'[p][Len(scheduled[p]) + 1] = e
    BY <2>1
  <2>4. 1 .. Len(scheduled'[p]) = (1 .. Len(scheduled[p])) \cup {Len(scheduled[p]) + 1}
    BY <2>2
  <2>5. Stored(p)' = {scheduled'[p][k] : k \in 1 .. Len(scheduled[p])}
                       \cup {scheduled'[p][Len(scheduled[p]) + 1]}
    BY <2>4 DEF Stored
  <2>6. {scheduled'[p][k] : k \in 1 .. Len(scheduled[p])} = Stored(p)
    BY <2>3 DEF Stored
  <2> QED BY <1>1, <2>3, <2>5, <2>6
<1>2. CASE p # ev[e].pts
  BY <1>2 DEF AddScheduled, Stored, TypeOK
<1> QED BY <1>1, <1>2

\* Running the events of a PTS empties it.
LEMMA StoredAfterRun ==
  ASSUME TypeOK, NEW q \in EventPts, scheduled' = [scheduled EXCEPT ![q] = <<>>],
         NEW p \in EventPts
  PROVE  Stored(p)' = IF p = q THEN {} ELSE Stored(p)
BY DEF Stored, TypeOK

\* Callbacks and events stay in step.
LEMMA RegisteredStep ==
  ASSUME TypeOK, StartOrder, Registered, [Next]_vars
  PROVE  Registered'
<1> USE DEF Registered
<1>1. CASE UNCHANGED <<pc, scheduled, ev>>
  BY <1>1 DEF Stored
<1>2. CASE \/ ReceiveStart \/ CloseBeforeStart \/ Tick \/ CloseOnTick
           \/ \E s \in Sides : PushBatch(s) \/ NothingToPush(s)
           \/ SendOk \/ SendTimeout \/ SendDisconnected
  <2>1. UNCHANGED <<scheduled, ev>> /\ pc' # "before"
    BY <1>2
    DEF ReceiveStart, CloseBeforeStart, Tick, CloseOnTick, PushBatch, NothingToPush,
        SendOk, SendTimeout, SendDisconnected, SendReturns
  <2> QED BY <2>1 DEF Stored
<1>3. ASSUME NEW e \in Events, ReceiveEventBeforeStart(e) \/ ReceiveEvent(e)
      PROVE  Registered'
  <2>1. ev[e].st = "sending" /\ ev[e].pts \in EventPts /\ ~ev[e].late
    BY <1>3 DEF ReceiveEventBeforeStart, ReceiveEvent
  <2>2. pc' = pc /\ (pc = "before" => ReceiveEventBeforeStart(e))
    BY <1>3 DEF ReceiveEventBeforeStart, ReceiveEvent
  <2>3. PICK late \in BOOLEAN, st \in {"queued", "discarded"} :
          /\ ev' = [ev EXCEPT ![e] = InState(e, st, late)]
          /\ st = "queued" => AddScheduled(e)
          /\ st = "discarded" => scheduled' = scheduled
          /\ pc = "before" => st = "queued" /\ late = FALSE
    BY <1>3 DEF ReceiveEventBeforeStart, ReceiveEvent, IsLate
  <2>4. /\ ev'[e].st = st /\ ev'[e].pts = ev[e].pts /\ ev'[e].late = late
        /\ \A f \in Events : f # e => ev'[f] = ev[f]
    BY <2>3 DEF InState, TypeOK
  <2>5. ASSUME NEW p \in EventPts
        PROVE  Stored(p)' = IF st = "queued" /\ p = ev[e].pts
                            THEN Stored(p) \cup {e} ELSE Stored(p)
    <3>1. CASE st = "queued"
      BY <2>1, <2>3, <3>1, StoredAfterAdd
    <3>2. CASE st = "discarded"
      BY <2>3, <3>2 DEF Stored
    <3> QED BY <3>1, <3>2
  <2>6. \A p \in EventPts : e \notin Stored(p)
    BY <2>1
  <2> QED BY <2>1, <2>2, <2>3, <2>4, <2>5, <2>6
<1>4. ASSUME NEW p \in EventPts, HandleEvent(p)
      PROVE  Registered'
  <2>0. \A e : e \in Stored(p) <=> \E k \in 1 .. Len(scheduled[p]) : scheduled[p][k] = e
    BY DEF Stored
  <2>1. /\ pc' = "tick"
        /\ scheduled' = [scheduled EXCEPT ![p] = <<>>]
        /\ ev' = [e \in Events |-> IF e \in Stored(p)
                                   THEN InState(e, "ran", ev[e].late) ELSE ev[e]]
    BY <1>4, <2>0 DEF HandleEvent
  <2>2. \A q \in EventPts : Stored(q)' = IF q = p THEN {} ELSE Stored(q)
    BY <2>1, StoredAfterRun
  <2>3. \A e \in Events : e \in Stored(p) <=> ev[e].st = "queued" /\ ev[e].pts = p
    OBVIOUS
  <2>4. \A e \in Events :
          /\ ev'[e].pts = ev[e].pts /\ ev'[e].late = ev[e].late
          /\ ev'[e].st = IF e \in Stored(p) THEN "ran" ELSE ev[e].st
    BY <2>1 DEF InState
  <2> QED BY <2>1, <2>2, <2>3, <2>4
<1>5. ASSUME NEW e \in Events, NEW q \in EventPts, NEW policy \in Policies,
             ScheduleEvent(e, q, policy)
      PROVE  Registered'
  <2>1. /\ ev[e].st = "none" /\ pc' = pc /\ scheduled' = scheduled
        /\ ev'[e].st = "sending" /\ ev'[e].pts = q /\ ev'[e].late = FALSE
        /\ \A f \in Events : f # e => ev'[f] = ev[f]
    BY <1>5 DEF ScheduleEvent, TypeOK
  <2>2. \A p \in EventPts : Stored(p)' = Stored(p) /\ e \notin Stored(p)
    BY <2>1 DEF Stored
  <2> QED BY <2>1, <2>2
<1> QED
  BY <1>1, <1>2, <1>3, <1>4, <1>5
  DEF Next, ThreadStep, ConsumerStep, Consume, ConsumerEnds, Start, Shutdown,
      AddInputVideo, AddInputAudio, RemoveInput, RemoveInputAudio, EndOfStream, Produce, Elapse,
      vars

\* Events stay in their place.
LEMMA EventsInPlaceStep ==
  ASSUME TypeOK, StartOrder, Registered, Order, EventsInPlace, [Next]_vars
  PROVE  EventsInPlace'
<1> USE DEF EventsInPlace, LastOf, Started
<1>1. /\ Started => startPts \in Nat
      /\ Started => \A s \in Sides : NextPts(s) \in Nat
      /\ \A s \in Sides : Period[s] \in Nat \ {0} /\ cnt[s] \in Nat
      /\ \A e \in Events : ev[e].st # "none" => ev[e].pts \in Nat
      /\ batch.side \in Sides
      /\ Sides = {"video", "audio"}
  <2>1. Started => startPts \in Nat
    BY DEF StartOrder
  <2>2. Started => \A s \in Sides : NextPts(s) \in Nat
    BY <2>1, NextPtsType
  <2>3. \A s \in Sides : Period[s] \in Nat \ {0} /\ cnt[s] \in Nat
    BY ConstAssumption DEF TypeOK
  <2>4. \A e \in Events : ev[e].st # "none" => ev[e].pts \in Nat
    BY ConstAssumption DEF Registered
  <2>5. batch.side \in Sides
    BY DEF TypeOK, BatchType
  <2> QED BY <2>1, <2>2, <2>3, <2>4, <2>5 DEF Sides
<1>2. ASSUME UNCHANGED <<startPts, cnt>>
      PROVE  \A s \in Sides : NextPts(s)' = NextPts(s)
  BY <1>2, NextPtsSame
<1>3. CASE UNCHANGED <<startPts, pc, cnt, batch, ev>>
  BY <1>1, <1>2, <1>3
<1>4. CASE ReceiveStart
  <2>1. cnt = [s \in Sides |-> 0] /\ \A e \in Events : ev[e].st \notin {"ran", "discarded"}
    BY <1>4 DEF ReceiveStart, StartOrder, Registered
  <2>2. \A s \in Sides : cnt[s] = 0
    BY <2>1
  <2> QED BY <1>1, <1>4, <2>1, <2>2 DEF ReceiveStart
<1>5. CASE CloseBeforeStart \/ Tick \/ CloseOnTick
  BY <1>1, <1>2, <1>5 DEF CloseBeforeStart, Tick, CloseOnTick, callVars
<1>6. ASSUME NEW e \in Events, ReceiveEventBeforeStart(e)
      PROVE  EventsInPlace'
  BY <1>6 DEF ReceiveEventBeforeStart, InState, TypeOK
<1>7. ASSUME NEW e \in Events, ReceiveEvent(e)
      PROVE  EventsInPlace'
  <2>1. /\ pc = "select" /\ UNCHANGED <<startPts, pc, cnt, batch>>
        /\ ev[e].st = "sending" /\ ev[e].pts \in EventPts
    BY <1>7 DEF ReceiveEvent, callVars, Registered
  <2>2. PICK st \in {"queued", "discarded"} :
          /\ ev' = [ev EXCEPT ![e] = InState(e, st, IsLate(e))]
          /\ st = "discarded" => ~AcceptsEvent(e)
    BY <1>7 DEF ReceiveEvent
  <2>3. /\ ev'[e].st = st /\ ev'[e].pts = ev[e].pts /\ ev'[e].late = IsLate(e)
        /\ \A f \in Events : f # e => ev'[f] = ev[f]
    BY <2>2 DEF InState, TypeOK
  <2>4. st = "discarded" => IsLate(e)
    BY <1>1, <2>1, <2>2, TurnedAwayIsLate
  <2>5. ~IsLate(e) => /\ LastOf("video") <= startPts + ev[e].pts
                      /\ LastOf("audio") < startPts + ev[e].pts
    BY <1>1, <2>1 DEF IsLate, Order, Interleaved
  <2> QED BY <1>1, <1>2, <2>1, <2>3, <2>4, <2>5
<1>8. ASSUME NEW p \in EventPts, HandleEvent(p)
      PROVE  EventsInPlace'
  <2>0. \A e : e \in Stored(p) <=> \E k \in 1 .. Len(scheduled[p]) : scheduled[p][k] = e
    BY DEF Stored
  <2>1. /\ pc = "tick" /\ UNCHANGED <<startPts, pc, cnt, batch>>
        /\ ev' = [e \in Events |-> IF e \in Stored(p)
                                   THEN InState(e, "ran", ev[e].late) ELSE ev[e]]
    BY <1>8, <2>0 DEF HandleEvent, callVars
  <2>2. \A s \in Sides : startPts + p <= NextPts(s)
    BY <1>1, <1>8 DEF HandleEvent, EventDue
  <2>3. \A e \in Events :
          /\ ev'[e].pts = ev[e].pts /\ ev'[e].late = ev[e].late
          /\ ev'[e].st = IF e \in Stored(p) THEN "ran" ELSE ev[e].st
          /\ e \in Stored(p) => ev[e].pts = p
    BY <2>1 DEF InState, Registered
  <2> QED BY <1>1, <1>2, <2>1, <2>2, <2>3
<1>9. ASSUME NEW s \in Sides, PushBatch(s) \/ NothingToPush(s)
      PROVE  EventsInPlace'
  <2>1. /\ pc = "tick" /\ UNCHANGED <<startPts, cnt, ev>>
        /\ s = NextSide /\ \A p \in EventPts : ~EventDue(p)
        /\ pc' = "send" => batch' = NextBatch(s)
        /\ pc' \in {"send", "select"}
    BY <1>9 DEF PushBatch, NothingToPush, callVars
  <2>2. NextBatch(s).pts = NextPts(s)
    BY DEF NextBatch
  <2>3. ASSUME NEW e \in Events, ev[e].st = "queued"
        PROVE  NextPts(s) < startPts + ev[e].pts
    <3>1. ev[e].pts \in EventPts /\ e \in Stored(ev[e].pts)
      BY <2>3 DEF Registered
    <3>2. ev[e].pts \in PendingPts
      BY <3>1, StoredIsPending
    <3> QED BY <1>1, <2>1, <3>2, NothingDue
  <2> QED BY <1>1, <1>2, <2>1, <2>2, <2>3
<1>10. CASE SendOk \/ SendTimeout \/ SendDisconnected
  <2>0. PICK t \in Sides : t = batch.side
    BY <1>1
  <2>1. /\ pc = "send" /\ pc' = "tick"
        /\ cnt' = [cnt EXCEPT ![t] = @ + 1]
        /\ UNCHANGED <<startPts, ev>>
    BY <1>10, <2>0 DEF SendOk, SendTimeout, SendDisconnected, SendReturns, callVars
  <2>2. /\ NextPts(t)' = NextPts(t) + Period[t]
        /\ \A s \in Sides : s # t => NextPts(s)' = NextPts(s)
    BY <1>1, <2>1, NextPtsAdvances
  <2>3. /\ batch.pts = NextPts(t)
        /\ \A s \in Sides : s # t => cnt'[s] = cnt[s]
    BY <2>0, <2>1 DEF Order, SendingSlot, TypeOK
  <2> QED BY <1>1, <2>1, <2>2, <2>3
<1>11. CASE Start
  BY <1>11 DEF Start, StartOrder
<1>12. ASSUME NEW e \in Events, NEW q \in EventPts, NEW policy \in Policies,
              ScheduleEvent(e, q, policy)
       PROVE  EventsInPlace'
  <2>1. /\ ev'[e].st = "sending"
        /\ \A f \in Events : f # e => ev'[f] = ev[f]
    BY <1>12 DEF ScheduleEvent, TypeOK
  <2>2. UNCHANGED <<startPts, pc, cnt, batch>>
    BY <1>12 DEF ScheduleEvent, callVars
  <2> QED BY <1>1, <1>2, <2>1, <2>2
<1> QED
  BY <1>3, <1>4, <1>5, <1>6, <1>7, <1>8, <1>9, <1>10, <1>11, <1>12
  DEF Next, ThreadStep, ConsumerStep, Consume, ConsumerEnds, Shutdown,
      AddInputVideo, AddInputAudio, RemoveInput, RemoveInputAudio, EndOfStream, Produce, Elapse,
      vars, callVars
-----------------------------------------------------------------------------
(* The channels to the renderer and the mixer thread. *)

\* Every batch has a PTS that can be compared.
LEMMA BatchPts ==
  ASSUME NEW q \in Seq(BatchType), NEW k \in 1 .. Len(q)
  PROVE  q[k].pts \in Int
<1>1. q[k] \in BatchType
  OBVIOUS
<1> QED BY <1>1 DEF BatchType, None

\* The content of a channel when the last PTS of its side is m.
Ordered(q, m) ==
  \A k \in 1 .. Len(q) :
    q[k].pts <= m /\ \A l \in 1 .. k - 1 : q[l].pts < q[k].pts

\* It stays ordered when the side moves on,
LEMMA OrderedLater ==
  ASSUME NEW q \in Seq(BatchType), NEW m \in Int, NEW n \in Int, m <= n, Ordered(q, m)
  PROVE  Ordered(q, n)
BY BatchPts DEF Ordered

\* when a later batch is appended,
LEMMA OrderedAppend ==
  ASSUME NEW q \in Seq(BatchType), NEW m \in Int, NEW b, b.pts \in Int, m < b.pts,
         Ordered(q, m)
  PROVE  Ordered(Append(q, b), b.pts)
<1> DEFINE r == Append(q, b)
<1>1. /\ Len(q) \in Nat /\ Len(r) = Len(q) + 1 /\ r[Len(q) + 1] = b
      /\ \A k \in 1 .. Len(q) : r[k] = q[k]
  OBVIOUS
<1>2. \A k \in 1 .. Len(q) : q[k].pts \in Int /\ q[k].pts < b.pts
  BY BatchPts DEF Ordered
<1> HIDE DEF r
<1>3. \A k \in 1 .. Len(r) : r[k].pts <= b.pts
  BY <1>1, <1>2
<1>4. ASSUME NEW k \in 1 .. Len(r), NEW l \in 1 .. k - 1
      PROVE  r[l].pts < r[k].pts
  <2>1. l \in 1 .. Len(q) /\ r[l] = q[l]
    BY <1>1
  <2>2. CASE k = Len(q) + 1
    BY <1>1, <1>2, <2>1, <2>2
  <2>3. CASE k \in 1 .. Len(q)
    BY <1>1, <2>1, <2>3 DEF Ordered
  <2> QED BY <1>1, <2>2, <2>3
<1>5. Ordered(r, b.pts)
  BY <1>3, <1>4 DEF Ordered
<1> QED BY <1>5 DEF r

\* and when the first one is read.
LEMMA OrderedTail ==
  ASSUME NEW q \in Seq(BatchType), q # <<>>, NEW m, Ordered(q, m)
  PROVE  Ordered(Tail(q), m)
<1> DEFINE r == Tail(q)
<1>1. /\ Len(q) \in Nat \ {0} /\ Len(r) = Len(q) - 1
      /\ \A k \in 1 .. Len(q) - 1 : r[k] = q[k + 1]
  OBVIOUS
<1> HIDE DEF r
<1>2. ASSUME NEW k \in 1 .. Len(r)
      PROVE  r[k].pts <= m /\ \A l \in 1 .. k - 1 : r[l].pts < r[k].pts
  <2>1. k \in 1 .. Len(q) - 1 /\ k + 1 \in 1 .. Len(q)
    BY <1>1
  <2>2. q[k + 1].pts <= m /\ \A l \in 1 .. (k + 1) - 1 : q[l].pts < q[k + 1].pts
    BY <2>1 DEF Ordered
  <2>3. ASSUME NEW l \in 1 .. k - 1
        PROVE  r[l] = q[l + 1] /\ l + 1 \in 1 .. (k + 1) - 1
    BY <1>1, <2>1
  <2> QED BY <1>1, <2>1, <2>2, <2>3
<1> QED BY <1>2 DEF r, Ordered

\* What a send puts into a channel comes after everything in it.
LEMMA ChannelsInOrderStep ==
  ASSUME TypeOK, StartOrder, SendingSlot, ChannelsInOrder, [Next]_vars
  PROVE  ChannelsInOrder'
<1>0. ASSUME Started' => \A s \in Sides : Ordered(chan[s], LastOf(s))'
      PROVE  ChannelsInOrder'
  BY <1>0 DEF ChannelsInOrder, Ordered
<1> SUFFICES ASSUME Started', NEW s \in Sides
             PROVE  Ordered(chan'[s], LastOf(s)')
  BY <1>0 DEF Ordered
<1>1. /\ Started => startPts \in Nat /\ NextPts(s) \in Nat /\ LastOf(s) \in Int
      /\ Started => Ordered(chan[s], LastOf(s))
      /\ Period[s] \in Nat \ {0} /\ chan[s] \in Seq(BatchType)
      /\ batch.side \in Sides
  <2>1. Started => startPts \in Nat /\ NextPts(s) \in Nat
    BY NextPtsType DEF StartOrder
  <2>2. Period[s] \in Nat \ {0} /\ chan[s] \in Seq(BatchType) /\ batch.side \in Sides
    BY ConstAssumption DEF TypeOK, BatchType
  <2>3. Started => Ordered(chan[s], LastOf(s))
    BY DEF ChannelsInOrder, Ordered
  <2> QED BY <2>1, <2>2, <2>3 DEF LastOf
<1>2. ASSUME UNCHANGED <<startPts, cnt>>
      PROVE  LastOf(s)' = LastOf(s)
  BY <1>2, NextPtsSame DEF LastOf
<1>3. CASE UNCHANGED <<startPts, pc, cnt, chan>>
  BY <1>1, <1>2, <1>3 DEF Started
<1>4. CASE ReceiveStart
  BY <1>4 DEF ReceiveStart, StartOrder, Ordered
<1>5. CASE \/ CloseBeforeStart \/ Tick \/ CloseOnTick
           \/ \E t \in Sides : PushBatch(t) \/ NothingToPush(t)
  <2>1. UNCHANGED <<startPts, cnt, chan>> /\ Started
    BY <1>5
    DEF CloseBeforeStart, Tick, CloseOnTick, PushBatch, NothingToPush, callVars, Started
  <2> QED BY <1>1, <1>2, <2>1
<1>6. CASE SendOk \/ SendTimeout \/ SendDisconnected
  <2>0. PICK t \in Sides : t = batch.side
    BY <1>1
  <2>1. /\ pc = "send" /\ Started /\ startPts' = startPts
        /\ cnt' = [cnt EXCEPT ![t] = @ + 1]
        /\ chan' = chan \/ chan' = [chan EXCEPT ![t] = Append(chan[t], batch)]
    BY <1>6, <2>0 DEF SendOk, SendTimeout, SendDisconnected, SendReturns, callVars, Started
  <2>2. /\ NextPts(t)' = NextPts(t) + Period[t]
        /\ s # t => NextPts(s)' = NextPts(s)
    BY <1>1, <2>1, NextPtsAdvances
  <2>3. batch.pts = NextPts(t)
    BY <2>0, <2>1 DEF SendingSlot
  <2>4. CASE chan'[s] = chan[s]
    <3>1. LastOf(s) <= LastOf(s)' /\ LastOf(s)' \in Int
      BY <1>1, <2>1, <2>2 DEF LastOf
    <3> QED BY <1>1, <2>1, <2>4, <3>1, OrderedLater
  <2>5. CASE s = t /\ chan'[s] = Append(chan[s], batch)
    <3>1. LastOf(s)' = batch.pts /\ LastOf(s) < batch.pts /\ batch.pts \in Int
      BY <1>1, <2>1, <2>2, <2>3, <2>5 DEF LastOf
    <3> QED BY <1>1, <2>1, <2>5, <3>1, OrderedAppend
  <2> QED BY <2>1, <2>4, <2>5 DEF TypeOK
<1>7. ASSUME NEW t \in Sides, Consume(t)
      PROVE  Ordered(chan'[s], LastOf(s)')
  <2>1. /\ UNCHANGED <<startPts, pc, cnt>> /\ chan[t] # <<>>
        /\ \/ chan'[s] = chan[s]
           \/ s = t /\ chan'[s] \in {Tail(chan[s]), <<>>}
    BY <1>7 DEF Consume, callVars, TypeOK
  <2>2. Ordered(<<>>, LastOf(s))
    BY DEF Ordered
  <2> QED BY <1>1, <1>2, <2>1, <2>2, OrderedTail DEF Started
<1>8. CASE Start
  BY <1>8 DEF Start, StartOrder, Started
<1> QED
  BY <1>3, <1>4, <1>5, <1>6, <1>7, <1>8
  DEF Next, ThreadStep, ConsumerStep, ReceiveEventBeforeStart, ReceiveEvent, HandleEvent,
      ConsumerEnds, ScheduleEvent, Shutdown, AddInputVideo, AddInputAudio,
      RemoveInput, RemoveInputAudio, EndOfStream, Produce, Elapse, vars, callVars

\* Sending adds the place of a new batch, if it has the flag.
LEMMA EosAfterAppend ==
  ASSUME NEW q \in Seq(BatchType), NEW b, NEW i
  PROVE  {k \in 1 .. Len(Append(q, b)) : i \in Append(q, b)[k].eos}
           = {k \in 1 .. Len(q) : i \in q[k].eos}
               \cup (IF i \in b.eos THEN {Len(q) + 1} ELSE {})
<1> DEFINE r == Append(q, b)
<1>1. /\ Len(q) \in Nat /\ Len(r) = Len(q) + 1 /\ r[Len(q) + 1] = b
      /\ \A k \in 1 .. Len(q) : r[k] = q[k]
  OBVIOUS
<1>2. 1 .. Len(r) = (1 .. Len(q)) \cup {Len(q) + 1}
  BY <1>1
<1> HIDE DEF r
<1>3. {k \in 1 .. Len(r) : i \in r[k].eos}
           = {k \in 1 .. Len(q) : i \in q[k].eos}
               \cup (IF i \in b.eos THEN {Len(q) + 1} ELSE {})
  BY <1>1, <1>2
<1> QED BY <1>3 DEF r

\* Reading takes the flag of the first batch out of the channel.
LEMMA EosAfterTail ==
  ASSUME NEW q \in Seq(BatchType), q # <<>>, NEW i
  PROVE  /\ \A k \in Int : k \in {l \in 1 .. Len(Tail(q)) : i \in Tail(q)[l].eos}
                           <=> k >= 1 /\ k + 1 \in {l \in 1 .. Len(q) : i \in q[l].eos}
         /\ 1 \in {l \in 1 .. Len(q) : i \in q[l].eos} <=> i \in Head(q).eos
<1> DEFINE r == Tail(q)
<1>1. /\ Len(q) \in Nat \ {0} /\ Len(r) = Len(q) - 1 /\ Head(q) = q[1]
      /\ \A k \in 1 .. Len(q) - 1 : r[k] = q[k + 1]
  OBVIOUS
<1> HIDE DEF r
<1>2. \A k \in Int : k \in {l \in 1 .. Len(r) : i \in r[l].eos}
                    <=> k >= 1 /\ k + 1 \in {l \in 1 .. Len(q) : i \in q[l].eos}
  BY <1>1
<1> QED BY <1>1, <1>2 DEF r

\* The flag of a side stays in one place.
LEMMA EosPlacesStep ==
  ASSUME TypeOK, EosPlaces, [Next]_vars
  PROVE  EosPlaces'
<1> USE DEF EosPlaces, Sending
<1>1. /\ batch.side \in Sides /\ batch.eos \subseteq Inputs
      /\ NoBatch.eos = {}
      /\ \A s \in Sides : chan[s] \in Seq(BatchType)
  BY DEF TypeOK, BatchType, NoBatch
<1>2. ASSUME NEW s \in Sides, NEW i \in Inputs, chan'[s] = chan[s]
      PROVE  EosIndexes(s, i)' = EosIndexes(s, i)
  BY <1>2 DEF EosIndexes
<1>3. CASE UNCHANGED <<pc, eosSent, batch, chan, consumer, seen>>
  BY <1>2, <1>3
<1>4. CASE \/ ReceiveStart \/ CloseBeforeStart \/ Tick \/ CloseOnTick
           \/ \E s \in Sides : NothingToPush(s)
  <2>1. UNCHANGED <<eosSent, batch, chan, consumer, seen>> /\ pc # "send"
    BY <1>4 DEF ReceiveStart, CloseBeforeStart, Tick, CloseOnTick, NothingToPush
  <2> QED BY <1>2, <2>1
<1>5. ASSUME NEW t \in Sides, PushBatch(t)
      PROVE  EosPlaces'
  <2>1. /\ pc = "tick" /\ pc' = "send" /\ UNCHANGED <<chan, consumer, seen>>
        /\ batch = NoBatch
        /\ batch'.side = t /\ batch'.eos = EosIn(t)
        /\ EosIn(t) # {} => batch'.required
        /\ eosSent'[t] = eosSent[t] \cup EosIn(t)
        /\ \A s \in Sides : s # t => eosSent'[s] = eosSent[s]
    BY <1>5 DEF PushBatch, NextBatch, TypeOK
  <2>2. \A i \in EosIn(t) : i \notin eosSent[t]
    BY DEF EosIn
  <2> QED BY <1>1, <1>2, <2>1, <2>2
<1>6. CASE SendOk
  <2>0. PICK t \in Sides : t = batch.side
    BY <1>1
  <2>1. /\ pc' = "tick" /\ batch' = NoBatch /\ UNCHANGED <<eosSent, consumer, seen>>
        /\ chan'[t] = Append(chan[t], batch)
        /\ \A s \in Sides : s # t => chan'[s] = chan[s]
    BY <1>6, <2>0 DEF SendOk, SendReturns, TypeOK
  <2>2. \A i \in Inputs : EosIndexes(t, i)' = EosIndexes(t, i)
                          \cup (IF i \in batch.eos THEN {Len(chan[t]) + 1} ELSE {})
    BY <1>1, <2>1, EosAfterAppend DEF EosIndexes
  <2>3. ASSUME NEW s \in Sides, s # t, NEW i \in Inputs
        PROVE  ~Sending(s, i) /\ ~Sending(s, i)' /\ EosIndexes(s, i)' = EosIndexes(s, i)
    BY <1>1, <1>2, <2>0, <2>1, <2>3
  <2>4. ASSUME NEW i \in Inputs, i \in batch.eos, consumer[t] = "running"
        PROVE  EosIndexes(t, i)' = {Len(chan[t]) + 1} /\ i \notin seen[t] /\ i \in eosSent[t]
    BY <2>0, <2>2, <2>4
  <2>5. ASSUME NEW i \in Inputs, i \notin batch.eos
        PROVE  EosIndexes(t, i)' = EosIndexes(t, i) /\ ~Sending(t, i)
    <3> HIDE DEF EosPlaces
    <3>1. EosIndexes(t, i)' = EosIndexes(t, i) \cup {}
      BY <2>2, <2>5
    <3> QED BY <2>5, <3>1
  <2>6. \A s \in Sides, i \in Inputs : ~Sending(s, i)'
    BY <1>1, <2>1
  <2>7. ASSUME NEW s \in Sides, NEW i \in Inputs, consumer[s] = "running"
        PROVE  /\ i \in eosSent[s] <=> EosIndexes(s, i)' # {} \/ i \in seen[s]
               /\ i \in seen[s] => EosIndexes(s, i)' = {}
               /\ \A k, l \in EosIndexes(s, i)' : k = l
    <3>1. CASE s = t /\ i \in batch.eos
      <4>1. /\ EosIndexes(s, i)' = {Len(chan[s]) + 1}
            /\ i \notin seen[s] /\ i \in eosSent[s]
        BY <2>4, <2>7, <3>1
      <4> HIDE DEF EosPlaces, Sending
      <4> QED BY <4>1
    <3>2. CASE EosIndexes(s, i)' = EosIndexes(s, i) /\ ~Sending(s, i)
      BY <2>7, <3>2
    <3> QED BY <2>3, <2>5, <3>1, <3>2
  <2> HIDE DEF Sending
  <2> QED BY <1>1, <2>1, <2>6, <2>7
<1>7. CASE SendTimeout \/ SendDisconnected
  <2>1. /\ pc' = "tick" /\ batch' = NoBatch /\ UNCHANGED <<eosSent, chan, consumer, seen>>
        /\ batch.eos = {} \/ consumer[batch.side] = "stopped"
    BY <1>7 DEF SendTimeout, SendDisconnected, SendReturns
  <2> QED BY <1>1, <1>2, <2>1
<1>8. ASSUME NEW t \in Sides, Consume(t)
      PROVE  EosPlaces'
  <2>1. /\ UNCHANGED <<pc, eosSent, batch>> /\ chan[t] # <<>>
        /\ \A s \in Sides : s # t => /\ chan'[s] = chan[s] /\ seen'[s] = seen[s]
                                      /\ consumer'[s] = consumer[s]
        /\ consumer[t] = "running"
        /\ \/ /\ chan'[t] = Tail(chan[t]) /\ consumer'[t] = "running"
              /\ seen'[t] = seen[t] \cup Head(chan[t]).eos
           \/ consumer'[t] = "stopped"
    BY <1>8 DEF Consume, TypeOK
  <2>2. ASSUME chan'[t] = Tail(chan[t]), NEW i \in Inputs
        PROVE  /\ \A k \in Int : k \in EosIndexes(t, i)'
                                 <=> k >= 1 /\ k + 1 \in EosIndexes(t, i)
               /\ 1 \in EosIndexes(t, i) <=> i \in Head(chan[t]).eos
               /\ EosIndexes(t, i) \subseteq Nat \ {0} /\ EosIndexes(t, i)' \subseteq Nat \ {0}
    BY <1>1, <2>1, <2>2, EosAfterTail DEF EosIndexes
  <2>3. ASSUME consumer'[t] = "running", NEW i \in Inputs
        PROVE  /\ i \in eosSent[t] <=>
                    EosIndexes(t, i)' # {} \/ Sending(t, i) \/ i \in seen'[t]
               /\ Sending(t, i) => EosIndexes(t, i)' = {} /\ i \notin seen'[t]
               /\ i \in seen'[t] => EosIndexes(t, i)' = {}
               /\ \A k, l \in EosIndexes(t, i)' : k = l
    <3>1. seen'[t] = seen[t] \cup Head(chan[t]).eos /\ chan'[t] = Tail(chan[t])
      BY <2>1, <2>3
    <3>2. CASE i \in Head(chan[t]).eos
      <4>1. EosIndexes(t, i) = {1}
        BY <2>1, <2>2, <3>1, <3>2
      <4>2. EosIndexes(t, i)' = {}
        BY <2>2, <3>1, <4>1
      <4> QED BY <2>1, <3>1, <3>2, <4>1, <4>2
    <3>3. CASE i \notin Head(chan[t]).eos
      <4>1. \A k \in EosIndexes(t, i) : k - 1 \in EosIndexes(t, i)'
        BY <2>2, <3>1, <3>3
      <4>2. \A k \in EosIndexes(t, i)' : k + 1 \in EosIndexes(t, i)
        BY <2>2, <3>1
      <4>3. EosIndexes(t, i)' = {} <=> EosIndexes(t, i) = {}
        BY <4>1, <4>2
      <4>4. \A k, l \in EosIndexes(t, i)' : k = l
        BY <2>1, <2>2, <3>1, <4>2
      <4> QED BY <2>1, <3>1, <3>3, <4>3, <4>4
    <3> QED BY <3>2, <3>3
  <2> QED BY <1>2, <2>1, <2>3
<1>9. ASSUME NEW t \in Sides, ConsumerEnds(t)
      PROVE  EosPlaces'
  <2>1. /\ UNCHANGED <<pc, eosSent, batch, chan, seen>>
        /\ \A s \in Sides : consumer'[s] = "running" => consumer[s] = "running"
    BY <1>9 DEF ConsumerEnds, TypeOK
  <2> QED BY <1>2, <2>1
<1> QED
  BY <1>3, <1>4, <1>5, <1>6, <1>7, <1>8, <1>9
  DEF Next, ThreadStep, ConsumerStep, ReceiveEventBeforeStart, ReceiveEvent, HandleEvent,
      Start, ScheduleEvent, Shutdown, AddInputVideo, AddInputAudio,
      RemoveInput, RemoveInputAudio, EndOfStream, Produce, Elapse, vars

\* One place is what EosExactlyOnce counts.
LEMMA OnePlaceCounts ==
  ASSUME EosPlaces
  PROVE  EosExactlyOnce
<1> SUFFICES ASSUME NEW s \in Sides, NEW i \in Inputs, consumer[s] = "running"
             PROVE  Cardinality(EosIndexes(s, i))
                      + (IF batch.side = s /\ i \in batch.eos THEN 1 ELSE 0)
                      + (IF i \in seen[s] THEN 1 ELSE 0)
                      = IF i \in eosSent[s] THEN 1 ELSE 0
  BY DEF EosExactlyOnce
<1>1. CASE EosIndexes(s, i) = {}
  <2>1. Cardinality(EosIndexes(s, i)) = 0
    BY <1>1, FS_EmptySet
  <2> QED BY <1>1, <2>1 DEF EosPlaces, Sending
<1>2. CASE EosIndexes(s, i) # {}
  <2>1. PICK k : EosIndexes(s, i) = {k}
    BY <1>2 DEF EosPlaces
  <2>2. Cardinality(EosIndexes(s, i)) = 1
    BY <2>1, FS_Singleton
  <2> QED BY <1>2, <2>2 DEF EosPlaces, Sending
<1> QED BY <1>1, <1>2
-----------------------------------------------------------------------------
(* The theorems. *)

LEMMA Invariance == Spec => []IInv
<1>1. ASSUME IInv, [Next]_vars
      PROVE  IInv'
  <2>1. /\ TypeOK /\ StartOrder /\ Registered /\ Order /\ EventsInPlace
        /\ SendingSlot /\ ChannelsInOrder /\ EosPlaces
    BY <1>1 DEF IInv, Order
  <2>2. TypeOK' /\ StartOrder'
    BY <1>1, <2>1, TypeStep, StartOrderStep
  <2>3. Order' /\ Registered'
    BY <1>1, <2>1, OrderStep, RegisteredStep
  <2>4. EventsInPlace'
    BY <1>1, <2>1, EventsInPlaceStep
  <2>5. ChannelsInOrder' /\ EosPlaces'
    BY <1>1, <2>1, ChannelsInOrderStep, EosPlacesStep
  <2> QED BY <2>2, <2>3, <2>4, <2>5 DEF IInv, Order
<1> QED BY <1>1, InitInv, PTL DEF Spec

\* The variables of the queue thread keep the types of the code.
THEOREM TypeCorrect == Spec => []TypeOK
<1>1. IInv => TypeOK
  BY DEF IInv
<1> QED BY <1>1, Invariance, PTL

\* on_handle_tick interleaves video and audio whatever their batch durations,
\* drops and scheduled events are.
THEOREM InterleavedCorrect == Spec => []Interleaved
<1>1. IInv => Interleaved
  BY DEF IInv
<1> QED BY <1>1, Invariance, PTL

\* last_pts separates the emitted output from the output to come.
THEOREM LastPtsSeparatesCorrect == Spec => []LastPtsSeparates
<1>1. IInv => LastPtsSeparates
  BY DEF IInv
<1> QED BY <1>1, Invariance, PTL

\* Scheduled events that came in time are kept and run in their place.
THEOREM EventsInPlaceCorrect == Spec => []EventsInPlace
<1>1. IInv => EventsInPlace
  BY DEF IInv
<1> QED BY <1>1, Invariance, PTL

\* The renderer and the mixer read batches in PTS order, however many of them a
\* full channel made the thread drop.
THEOREM ChannelsInOrderCorrect == Spec => []ChannelsInOrder
<1>1. IInv => ChannelsInOrder
  BY DEF IInv
<1> QED BY <1>1, Invariance, PTL

\* No EOS is lost on a slow renderer or mixer, and none comes twice.
THEOREM EosExactlyOnceCorrect == Spec => []EosExactlyOnce
<1>1. IInv => EosExactlyOnce
  BY OnePlaceCounts DEF IInv
<1> QED BY <1>1, Invariance, PTL

\* Only three kinds of step touch last_pts, and all of them through
\* SharedPts::update.
LEMMA LastPtsStep ==
  ASSUME IInv, [Next]_vars
  PROVE  [lastPts' >= lastPts]_vars
<1> SUFFICES lastPts' >= lastPts
  OBVIOUS
<1>1. lastPts \in Nat \cup {-1} /\ TypeOK /\ (Started => startPts \in Nat)
  BY DEF IInv, TypeOK, StartOrder, None
<1>2. CASE lastPts' = lastPts
  BY <1>1, <1>2
<1>3. ASSUME NEW p \in EventPts, HandleEvent(p)
      PROVE  lastPts' >= lastPts
  <2>1. startPts + p \in Nat
    BY <1>1, <1>3, ConstAssumption DEF HandleEvent, Started
  <2> QED BY <1>1, <1>3, <2>1 DEF HandleEvent, UpdateLastPts, Larger
<1>4. ASSUME NEW s \in Sides, PushBatch(s) \/ NothingToPush(s)
      PROVE  lastPts' >= lastPts
  <2>1. NextPts(s) \in Nat
    BY <1>1, <1>4, NextPtsType DEF PushBatch, NothingToPush, Started
  <2> QED BY <1>1, <1>4, <2>1 DEF PushBatch, NothingToPush, UpdateLastPts, Larger
<1> QED
  BY <1>2, <1>3, <1>4
  DEF Next, ThreadStep, ConsumerStep, ReceiveEventBeforeStart, ReceiveEvent,
      ReceiveStart, CloseBeforeStart, Tick, CloseOnTick, SendOk, SendTimeout,
      SendDisconnected, SendReturns, Consume, ConsumerEnds, Start, ScheduleEvent,
      Shutdown, AddInputVideo, AddInputAudio, RemoveInput, RemoveInputAudio, EndOfStream, Produce,
      Elapse, vars

\* last_pts never goes back.
THEOREM LastPtsMonotonicCorrect == Spec => LastPtsMonotonic
BY LastPtsStep, Invariance, PTL DEF Spec, LastPtsMonotonic
=============================================================================
