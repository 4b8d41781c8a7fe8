------------------------ MODULE DurationChannelProofs ------------------------
(***************************************************************************)
(* The channel loses no wake-up and implements BoundedChannel, for any     *)
(* number of senders, any timestamps and any capacity.                     *)
(*                                                                         *)
(* Nothing here depends on how the duration of a buffer is computed, but   *)
(* for one fact: an empty buffer has room.                                 *)
(***************************************************************************)
EXTENDS DurationChannel, FiniteSetTheorems, TLAPS

\* An empty buffer has room, because the capacity is positive.
LEMMA EmptyHasRoom == ~IsFull(<<>>)
<1>1. DOMAIN <<>> = {}
  OBVIOUS
<1>2. BufferedDuration(<<>>) = 0
  BY <1>1 DEF BufferedDuration
<1> QED BY <1>2, ConstAssumption DEF IsFull
-----------------------------------------------------------------------------
(* What a notification does to the states of the senders. *)

\* From `a`, only waiting senders move, to "woken".
OnlyWakes(a) ==
  \A s \in Senders : st'[s] # a[s] => a[s] = "waiting" /\ st'[s] = "woken"

\* notify_one wakes a sender if one waits.
LEMMA Notified ==
  ASSUME NEW a \in [Senders -> SenderStates], NotifyNotFull(a)
  PROVE  /\ st' \in [Senders -> SenderStates]
         /\ OnlyWakes(a)
         /\ (\E s \in Senders : a[s] = "waiting") => Woken' # {}
<1>1. CASE {s \in Senders : a[s] = "waiting"} = {}
  <2>1. st' = a
    BY <1>1 DEF NotifyNotFull
  <2> QED BY <2>1, <1>1 DEF OnlyWakes
<1>2. CASE {s \in Senders : a[s] = "waiting"} # {}
  <2>1. PICK s \in Senders : a[s] = "waiting" /\ st' = [a EXCEPT ![s] = "woken"]
    BY <1>2 DEF NotifyNotFull
  <2>2. s \in Woken'
    BY <2>1 DEF Woken
  <2> QED BY <2>1, <2>2 DEF OnlyWakes, SenderStates
<1> QED BY <1>1, <1>2

\* A sender that leaves room behind does the same.
LEMMA PassedOn ==
  ASSUME NEW a \in [Senders -> SenderStates], PassOn(a)
  PROVE  /\ st' \in [Senders -> SenderStates]
         /\ OnlyWakes(a)
         /\ (\E s \in Senders : a[s] = "waiting") => IsFull(buffer') \/ Woken' # {}
<1>1. CASE IsFull(buffer')
  <2>1. st' = a
    BY <1>1 DEF PassOn
  <2> QED BY <2>1, <1>1 DEF OnlyWakes
<1>2. CASE ~IsFull(buffer')
  <2>1. NotifyNotFull(a)
    BY <1>2 DEF PassOn
  <2> QED BY <2>1, Notified
<1> QED BY <1>1, <1>2

\* Waking senders changes neither who holds a handle nor who is blocked.
LEMMA WakingKeepsSets ==
  ASSUME NEW a \in [Senders -> SenderStates], OnlyWakes(a)
  PROVE  /\ Holders' = {s \in Senders : a[s] \notin {"none", "dropped"}}
         /\ Blocked' = {s \in Senders : a[s] \in {"waiting", "woken", "timedOut"}}
         /\ Waiters' \subseteq {s \in Senders : a[s] = "waiting"}
BY DEF OnlyWakes, Holders, Blocked, Waiters
-----------------------------------------------------------------------------
(* The inductive invariant. *)

\* sender_count counts the senders that hold a handle.
Counted == IsFiniteSet(Holders) /\ senderCount = Cardinality(Holders)

\* What the receiver has seen when it sleeps or is through.
RxOrder ==
  /\ rx = "waiting" => buffer = <<>> /\ senderCount # 0
  /\ rx = "ended" => buffer = <<>> /\ senderCount = 0
  /\ rx = "dropped" <=> ~receiverAlive
  /\ ~receiverAlive => Waiters = {}

IInv == TypeOK /\ Counted /\ RxOrder /\ NoLostWakeup

LEMMA InitIInv == Init => IInv
<1> SUFFICES ASSUME Init PROVE IInv
  OBVIOUS
<1>1. Holders = {First} /\ Waiters = {}
  BY ConstAssumption DEF Init, Holders, Waiters
<1>2. Counted
  BY <1>1, FS_Singleton DEF Counted, Init
<1>3. TypeOK
  BY ConstAssumption DEF Init, TypeOK, SenderStates
<1>4. RxOrder /\ NoLostWakeup
  BY <1>1 DEF Init, RxOrder, NoLostWakeup
<1> QED BY <1>2, <1>3, <1>4 DEF IInv

\* A sender with a handle is counted.
LEMMA HolderCounted ==
  ASSUME IInv, NEW s \in Holders
  PROVE  senderCount \in Nat \ {0} /\ rx # "ended"
<1>1. Cardinality(Holders) \in Nat /\ Cardinality(Holders) # 0
  BY FS_CardinalityType, FS_EmptySet DEF IInv, Counted
<1> QED BY <1>1 DEF IInv, Counted, RxOrder

\* A step that leaves the handles alone leaves them counted.
LEMMA CountKept ==
  ASSUME IInv, Holders' = Holders, senderCount' = senderCount
  PROVE  Counted'
BY DEF IInv, Counted

LEMMA PushKeeps ==
  ASSUME IInv, NEW s \in Holders, Push(s)
  PROVE  IInv'
<1> DEFINE a == [st EXCEPT ![s] = "idle"]
<1>0. s \in Senders /\ st[s] \notin {"none", "dropped"}
  BY DEF Holders
<1>1. a \in [Senders -> SenderStates]
  BY DEF IInv, TypeOK, SenderStates
<1>2. PICK r \in Ranges : buffer' = Append(buffer, r)
  BY DEF Push
<1>3. /\ st' \in [Senders -> SenderStates]
      /\ OnlyWakes(a)
      /\ (\E t \in Senders : a[t] = "waiting") => IsFull(buffer') \/ Woken' # {}
  BY <1>1, PassedOn DEF Push
<1>4. Holders' = Holders
  <2>1. {t \in Senders : a[t] \notin {"none", "dropped"}} = Holders
    BY <1>0 DEF Holders, IInv, TypeOK
  <2> QED BY <2>1, <1>1, <1>3, WakingKeepsSets
<1>5. buffer' \in Seq(Ranges) /\ buffer' # <<>>
  BY <1>2 DEF IInv, TypeOK
<1>6. TypeOK'
  BY <1>3, <1>5 DEF IInv, TypeOK, Push
<1>7. Counted'
  BY <1>4, CountKept DEF Push
<1>8. RxOrder'
  <2>1. rx' \in {"running", "woken", "dropped"}
    BY HolderCounted DEF Push, IInv, TypeOK
  <2>2. rx' # "dropped" /\ receiverAlive'
    BY DEF Push, IInv, RxOrder
  <2> QED BY <2>1, <2>2 DEF RxOrder
<1>9. NoLostWakeup'
  <2>1. Waiters' \subseteq {t \in Senders : a[t] = "waiting"}
    BY <1>1, <1>3, WakingKeepsSets
  <2> QED BY <2>1, <1>3 DEF NoLostWakeup
<1> QED BY <1>6, <1>7, <1>8, <1>9 DEF IInv

LEMMA FailKeeps ==
  ASSUME IInv, NEW s \in Holders, st[s] # "waiting", Fail(s)
  PROVE  IInv'
<1>0. s \in Senders /\ st[s] \notin {"none", "dropped"}
  BY DEF Holders
<1>1. TypeOK'
  BY <1>0 DEF IInv, TypeOK, Fail, SenderStates
<1>2. Holders' = Holders /\ Waiters' = Waiters
  BY <1>0 DEF Holders, Waiters, Fail, IInv, TypeOK
<1>3. Counted'
  BY <1>2, CountKept DEF Fail
<1>4. RxOrder'
  BY <1>2 DEF RxOrder, Fail, IInv
<1>5. NoLostWakeup'
  BY DEF NoLostWakeup, Fail
<1> QED BY <1>1, <1>3, <1>4, <1>5 DEF IInv

LEMMA WaitKeeps ==
  ASSUME IInv, NEW s \in Holders, Wait(s), timed' \subseteq Senders
  PROVE  IInv'
<1>0. s \in Senders /\ st[s] \notin {"none", "dropped"}
  BY DEF Holders
<1>1. TypeOK'
  BY <1>0 DEF IInv, TypeOK, Wait, SenderStates
<1>2. Holders' = Holders
  BY <1>0 DEF Holders, Wait, IInv, TypeOK
<1>3. Counted'
  BY <1>2, CountKept DEF Wait
<1>4. RxOrder'
  BY DEF RxOrder, Wait, IInv
<1>5. NoLostWakeup'
  BY DEF NoLostWakeup, Wait
<1> QED BY <1>1, <1>3, <1>4, <1>5 DEF IInv

\* A waiting sender leaves the condition variable without being notified.
LEMMA LeaveKeeps ==
  ASSUME IInv, NEW s \in Senders, st[s] = "waiting",
         NEW x \in {"woken", "timedOut"}, st' = [st EXCEPT ![s] = x],
         UNCHANGED <<buffer, senderCount, receiverAlive, timed, rx>>
  PROVE  IInv'
<1>1. TypeOK'
  BY DEF IInv, TypeOK, SenderStates
<1>2. Holders' = Holders /\ Waiters' \subseteq Waiters /\ Woken \subseteq Woken'
  BY DEF Holders, Waiters, Woken, IInv, TypeOK
<1>3. Counted'
  BY <1>2, CountKept
<1>4. RxOrder'
  BY <1>2 DEF RxOrder, IInv
<1>5. NoLostWakeup'
  BY <1>2 DEF NoLostWakeup, IInv
<1> QED BY <1>1, <1>3, <1>4, <1>5 DEF IInv

LEMMA CloneKeeps ==
  ASSUME IInv, NEW s \in Senders, NEW t \in Senders, Clone(s, t)
  PROVE  IInv'
<1>0. s \in Holders /\ t \notin Holders
  BY DEF Holders, Clone
<1>1. Holders' = Holders \cup {t} /\ Waiters' = Waiters /\ Woken' = Woken
  BY DEF Holders, Waiters, Woken, Clone, IInv, TypeOK
<1>2. senderCount \in Nat \ {0} /\ rx # "ended"
  BY <1>0, HolderCounted
<1>3. TypeOK'
  BY <1>2 DEF IInv, TypeOK, Clone, SenderStates
<1>4. Counted'
  BY <1>0, <1>1, FS_AddElement DEF IInv, Counted, Clone
<1>5. RxOrder'
  BY <1>1, <1>2 DEF RxOrder, Clone, IInv
<1>6. NoLostWakeup'
  BY <1>1 DEF NoLostWakeup, Clone, IInv
<1> QED BY <1>3, <1>4, <1>5, <1>6 DEF IInv

LEMMA DropSenderKeeps ==
  ASSUME IInv, NEW s \in Senders, DropSender(s)
  PROVE  IInv'
<1>0. s \in Holders
  BY DEF Holders, DropSender
<1>1. Holders' = Holders \ {s} /\ Waiters' = Waiters /\ Woken' = Woken
  BY DEF Holders, Waiters, Woken, DropSender, IInv, TypeOK
<1>2. senderCount \in Nat \ {0} /\ rx # "ended" /\ senderCount' = senderCount - 1
  BY <1>0, HolderCounted DEF DropSender
<1>3. rx' \in {rx, "woken"} /\ (rx' = "waiting" => senderCount' # 0)
      /\ (rx' # rx => rx = "waiting")
  BY DEF DropSender, HangUp
<1>4. TypeOK'
  BY <1>2, <1>3 DEF IInv, TypeOK, DropSender, SenderStates
<1>5. Counted'
  BY <1>0, <1>1, <1>2, FS_RemoveElement DEF IInv, Counted
<1>6. RxOrder'
  BY <1>1, <1>2, <1>3 DEF RxOrder, DropSender, IInv
<1>7. NoLostWakeup'
  BY <1>1 DEF NoLostWakeup, DropSender, IInv
<1> QED BY <1>4, <1>5, <1>6, <1>7 DEF IInv

LEMMA PopKeeps ==
  ASSUME IInv, Pop
  PROVE  IInv'
<1>1. /\ st' \in [Senders -> SenderStates]
      /\ OnlyWakes(st)
      /\ (\E t \in Senders : st[t] = "waiting") => Woken' # {}
  BY Notified DEF IInv, TypeOK, Pop
<1>2. Holders' = Holders /\ Waiters' \subseteq Waiters
  BY <1>1, WakingKeepsSets DEF IInv, TypeOK, Holders, Waiters
<1>3. TypeOK'
  <2>1. buffer' \in Seq(Ranges)
    BY DEF Pop, IInv, TypeOK
  <2> QED BY <1>1, <2>1 DEF IInv, TypeOK, Pop
<1>4. Counted'
  BY <1>2, CountKept DEF Pop
<1>5. RxOrder'
  BY <1>2 DEF RxOrder, Pop, IInv
<1>6. NoLostWakeup'
  BY <1>1, <1>2 DEF NoLostWakeup, Waiters
<1> QED BY <1>3, <1>4, <1>5, <1>6 DEF IInv

\* The receiver finds nothing, and sleeps, wakes up or returns an error.
LEMMA ReceiverKeeps ==
  ASSUME IInv, WaitForItem \/ EndOfStream \/ SpuriousReceive
  PROVE  IInv'
<1>1. UNCHANGED <<buffer, senderCount, receiverAlive, st, timed>>
  BY DEF WaitForItem, EndOfStream, SpuriousReceive
<1>2. Holders' = Holders /\ Waiters' = Waiters /\ Woken' = Woken
  BY <1>1 DEF Holders, Waiters, Woken
<1>3. TypeOK'
  BY <1>1 DEF IInv, TypeOK, WaitForItem, EndOfStream, SpuriousReceive
<1>4. Counted'
  BY <1>1, <1>2, CountKept
<1>5. RxOrder'
  BY <1>1, <1>2 DEF RxOrder, IInv, WaitForItem, EndOfStream, SpuriousReceive
<1>6. NoLostWakeup'
  BY <1>1, <1>2 DEF NoLostWakeup, IInv
<1> QED BY <1>3, <1>4, <1>5, <1>6 DEF IInv

LEMMA DropReceiverKeeps ==
  ASSUME IInv, DropReceiver
  PROVE  IInv'
<1>1. st' = [s \in Senders |-> IF st[s] = "waiting" THEN "woken" ELSE st[s]]
  BY DEF DropReceiver, WokenAll
<1>2. Holders' = Holders /\ Waiters' = {}
  BY <1>1 DEF Holders, Waiters
<1>3. TypeOK'
  BY <1>1 DEF IInv, TypeOK, DropReceiver, SenderStates
<1>4. Counted'
  BY <1>2, CountKept DEF DropReceiver
<1>5. RxOrder' /\ NoLostWakeup'
  BY <1>2 DEF RxOrder, NoLostWakeup, DropReceiver
<1> QED BY <1>3, <1>4, <1>5 DEF IInv

LEMMA StepIInv ==
  ASSUME IInv, [Next]_vars
  PROVE  IInv'
<1>1. ASSUME NEW s \in Senders,
             CallPush(s) \/ CallFail(s) \/ CallWait(s) \/ Resume(s)
      PROVE  IInv'
  <2>1. s \in Holders /\ st[s] # "waiting"
    BY <1>1 DEF CallPush, CallFail, CallWait, Resume, ResumePush, ResumeFail,
                ResumeWait, Holders
  <2>2. CASE Push(s)
    BY <2>1, <2>2, PushKeeps
  <2>3. CASE Fail(s)
    BY <2>1, <2>3, FailKeeps
  <2>4. CASE Wait(s) /\ timed' \subseteq Senders
    BY <2>1, <2>4, WaitKeeps
  <2>5. timed \subseteq Senders
    BY DEF IInv, TypeOK
  <2> QED BY <1>1, <2>2, <2>3, <2>4, <2>5
       DEF CallPush, CallFail, CallWait, Resume, ResumePush, ResumeFail, ResumeWait
<1>2. ASSUME NEW s \in Senders, TimeOut(s) \/ SpuriousWakeup(s)
      PROVE  IInv'
  BY <1>2, LeaveKeeps DEF TimeOut, SpuriousWakeup
<1>3. ASSUME NEW s \in Senders, DropSender(s) \/ \E t \in Senders : Clone(s, t)
      PROVE  IInv'
  BY <1>3, DropSenderKeeps, CloneKeeps
<1>4. CASE Pop \/ DropReceiver
  BY <1>4, PopKeeps, DropReceiverKeeps
<1>5. CASE WaitForItem \/ EndOfStream \/ SpuriousReceive
  BY <1>5, ReceiverKeeps
<1>6. CASE UNCHANGED vars
  BY <1>6 DEF vars, IInv, TypeOK, Counted, RxOrder, NoLostWakeup, Holders,
              Waiters, Woken
<1> QED BY <1>1, <1>2, <1>3, <1>4, <1>5, <1>6 DEF Next

THEOREM Invariance == Spec => []IInv
<1>1. IInv /\ [Next]_vars => IInv'
  BY StepIInv
<1> QED BY InitIInv, <1>1, PTL DEF Spec
-----------------------------------------------------------------------------
(* What follows from it. *)

\* Every variable keeps its type; in particular sender_count, a usize, is never
\* decremented below zero, though handles are cloned and dropped by any thread.
THEOREM TypeCorrect == Spec => []TypeOK
BY Invariance, PTL DEF IInv

\* Nobody sleeps in vain, for any number of senders and any timestamps.  That
\* the two ends do not wait for each other needs the capacity to be positive.
THEOREM NobodySleepsInVainCorrect == Spec => []NobodySleepsInVain
<1>1. IInv => NoLostWakeup
  BY DEF IInv
<1>2. IInv => ReceiverAwake /\ NobodyLeftBehind
  BY DEF IInv, RxOrder, ReceiverAwake, NobodyLeftBehind
<1>3. IInv => NeverBothAsleep
  <2> SUFFICES ASSUME IInv, rx = "waiting", Waiters # {} PROVE Woken # {}
    BY DEF NeverBothAsleep
  <2>1. buffer = <<>> /\ receiverAlive
    BY DEF IInv, RxOrder, TypeOK
  <2>2. ~IsFull(buffer)
    BY <2>1, EmptyHasRoom
  <2> QED BY <2>1, <2>2 DEF IInv, NoLostWakeup
<1>4. IInv => NobodySleepsInVain
  BY <1>1, <1>2, <1>3 DEF NobodySleepsInVain
<1> QED BY Invariance, <1>4, PTL

\* recv returns an error only after the last handle has been dropped and
\* everything sent has been received.
THEOREM EndsWithTheLastCorrect == Spec => []EndsWithTheLast
<1>1. IInv => EndsWithTheLast
  BY FS_EmptySet DEF IInv, RxOrder, Counted, EndsWithTheLast
<1> QED BY Invariance, <1>1, PTL
-----------------------------------------------------------------------------
(* The channel implements BoundedChannel. *)

LEMMA InitImplements == Init => Promise!Init
<1> SUFFICES ASSUME Init PROVE Promise!Init
  OBVIOUS
<1>1. Holders = {First} /\ Blocked = {}
  BY ConstAssumption DEF Init, Holders, Blocked
<1> QED BY <1>1, ConstAssumption DEF Init, Promise!Init

LEMMA PushImplements ==
  ASSUME IInv, NEW s \in Holders, Push(s)
  PROVE  Promise!Admit(s)
<1> DEFINE a == [st EXCEPT ![s] = "idle"]
<1>0. s \in Senders /\ st[s] \notin {"none", "dropped"}
  BY DEF Holders
<1>1. a \in [Senders -> SenderStates] /\ OnlyWakes(a)
  <2>1. a \in [Senders -> SenderStates]
    BY DEF IInv, TypeOK, SenderStates
  <2> QED BY <2>1, PassedOn DEF Push
<1>2. /\ {t \in Senders : a[t] \notin {"none", "dropped"}} = Holders
      /\ {t \in Senders : a[t] \in {"waiting", "woken", "timedOut"}} = Blocked \ {s}
  BY <1>0 DEF Holders, Blocked, IInv, TypeOK
<1>3. Holders' = Holders /\ Blocked' = Blocked \ {s}
  BY <1>1, <1>2, WakingKeepsSets
<1> QED BY <1>3 DEF Promise!Admit, Push

LEMMA FailImplements ==
  ASSUME IInv, NEW s \in Holders, Fail(s),
         st[s] \in {"idle", "woken", "timedOut"}
  PROVE  Promise!GiveUp(s) \/ UNCHANGED Promise!vars
<1>0. s \in Senders
  BY DEF Holders
<1>1. Holders' = Holders /\ Blocked' = Blocked \ {s}
  BY <1>0 DEF Holders, Blocked, Fail, IInv, TypeOK
<1>2. CASE st[s] = "idle"
  BY <1>0, <1>1, <1>2 DEF Blocked, Fail, Promise!vars
<1>3. CASE st[s] # "idle"
  BY <1>0, <1>1, <1>3 DEF Blocked, Fail, Promise!GiveUp
<1> QED BY <1>2, <1>3

LEMMA WaitImplements ==
  ASSUME IInv, NEW s \in Holders, Wait(s), st[s] \in {"idle", "woken"}
  PROVE  Promise!Wait(s) \/ UNCHANGED Promise!vars
<1>0. s \in Senders
  BY DEF Holders
<1>1. Holders' = Holders /\ Blocked' = Blocked \cup {s}
  BY <1>0 DEF Holders, Blocked, Wait, IInv, TypeOK
<1>2. CASE st[s] = "idle"
  BY <1>0, <1>1, <1>2 DEF Blocked, Wait, Promise!Wait
<1>3. CASE st[s] = "woken"
  BY <1>0, <1>1, <1>3 DEF Blocked, Wait, Promise!vars
<1> QED BY <1>2, <1>3

LEMMA ShareImplements ==
  ASSUME IInv, NEW s \in Senders, DropSender(s) \/ \E t \in Senders : Clone(s, t)
  PROVE  Promise!Share
<1>1. CASE DropSender(s)
  <2>1. Holders' = Holders \ {s} /\ Blocked' = Blocked /\ Blocked \subseteq Holders'
    BY <1>1 DEF Holders, Blocked, DropSender, IInv, TypeOK
  <2> QED BY <1>1, <2>1 DEF DropSender, Promise!Share
<1>2. ASSUME NEW t \in Senders, Clone(s, t) PROVE Promise!Share
  <2>1. Holders' = Holders \cup {t} /\ Blocked' = Blocked /\ Blocked \subseteq Holders'
    BY <1>2 DEF Holders, Blocked, Clone, IInv, TypeOK
  <2> QED BY <1>2, <2>1 DEF Clone, Promise!Share
<1> QED BY <1>1, <1>2

LEMMA ReceiverImplements ==
  ASSUME IInv, Pop \/ DropReceiver
  PROVE  Promise!Receive \/ Promise!Close
<1>1. CASE Pop
  <2>1. OnlyWakes(st)
    BY <1>1, Notified DEF IInv, TypeOK, Pop
  <2>2. Holders' = Holders /\ Blocked' = Blocked
    BY <2>1, WakingKeepsSets DEF IInv, TypeOK, Holders, Blocked
  <2>3. receiverAlive
    BY <1>1 DEF IInv, RxOrder, TypeOK, Pop
  <2> QED BY <1>1, <2>2, <2>3 DEF Pop, Promise!Receive
<1>2. CASE DropReceiver
  <2>1. st' = [s \in Senders |-> IF st[s] = "waiting" THEN "woken" ELSE st[s]]
    BY <1>2 DEF DropReceiver, WokenAll
  <2>2. Holders' = Holders /\ Blocked' = Blocked
    BY <2>1 DEF Holders, Blocked
  <2>3. receiverAlive /\ receiverAlive' = FALSE
    BY <1>2 DEF IInv, RxOrder, TypeOK, DropReceiver
  <2> QED BY <1>2, <2>2, <2>3 DEF DropReceiver, Promise!Close
<1> QED BY <1>1, <1>2

LEMMA StepImplements ==
  ASSUME IInv, [Next]_vars
  PROVE  [Promise!Next]_(Promise!vars)
<1>1. ASSUME NEW s \in Senders,
             CallPush(s) \/ CallFail(s) \/ CallWait(s) \/ Resume(s)
      PROVE  [Promise!Next]_(Promise!vars)
  <2>1. s \in Holders /\ st[s] \in {"idle", "woken", "timedOut"}
    BY <1>1 DEF CallPush, CallFail, CallWait, Resume, ResumePush, ResumeFail,
                ResumeWait, Holders
  <2>2. CASE Push(s)
    BY <2>1, <2>2, PushImplements DEF Promise!Next
  <2>3. CASE Fail(s)
    BY <2>1, <2>3, FailImplements DEF Promise!Next
  <2>4. CASE Wait(s) /\ st[s] \in {"idle", "woken"}
    BY <2>1, <2>4, WaitImplements DEF Promise!Next
  <2> QED BY <1>1, <2>2, <2>3, <2>4
       DEF CallPush, CallFail, CallWait, Resume, ResumePush, ResumeFail, ResumeWait
<1>2. ASSUME NEW s \in Senders, TimeOut(s) \/ SpuriousWakeup(s)
      PROVE  [Promise!Next]_(Promise!vars)
  <2>1. Holders' = Holders /\ Blocked' = Blocked
    BY <1>2 DEF TimeOut, SpuriousWakeup, Holders, Blocked, IInv, TypeOK
  <2> QED BY <1>2, <2>1 DEF TimeOut, SpuriousWakeup, Promise!vars
<1>3. ASSUME NEW s \in Senders, DropSender(s) \/ \E t \in Senders : Clone(s, t)
      PROVE  [Promise!Next]_(Promise!vars)
  BY <1>3, ShareImplements DEF Promise!Next
<1>4. CASE Pop \/ DropReceiver
  BY <1>4, ReceiverImplements DEF Promise!Next
<1>5. CASE WaitForItem \/ EndOfStream \/ SpuriousReceive \/ UNCHANGED vars
  <2>1. UNCHANGED <<buffer, receiverAlive, st>>
    BY <1>5 DEF WaitForItem, EndOfStream, SpuriousReceive, vars
  <2> QED BY <2>1 DEF Holders, Blocked, Promise!vars
<1> QED BY <1>1, <1>2, <1>3, <1>4, <1>5 DEF Next

\* Whatever threads do with the channel, its users see the FIFO channel: items
\* come out in the order of the sends, and a send waits, fails or is admitted as
\* BoundedChannel allows.
THEOREM Implements == Spec => Promise!Spec
<1>1. IInv /\ [Next]_vars => [Promise!Next]_(Promise!vars)
  BY StepImplements
<1> QED BY InitImplements, Invariance, <1>1, PTL DEF Spec, Promise!Spec
=============================================================================
