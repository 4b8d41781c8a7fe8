--------------------------- MODULE DurationChannel ---------------------------
(***************************************************************************)
(* The channel between demuxers and decoders (pipeline/utils/channel.rs):  *)
(* a queue bounded by the duration of what it holds, built on one mutex    *)
(* and two condition variables.                                            *)
(*                                                                         *)
(* An action is what a thread does from locking `inner` to unlocking it,   *)
(* by returning or by waiting.  A condition variable is the set of threads *)
(* that wait on it; notify_one wakes any one of them, and a wait may also  *)
(* end spuriously or, in send_timeout, because its time is up.             *)
(***************************************************************************)
EXTENDS Integers, Sequences

CONSTANTS
  Senders,    \* the threads that send, each with a handle of its own
  First,      \* the sender that gets the handle duration_bounded returns
  Ranges,     \* what timestamp_range returns: <<start, end>>, or <<>> for None
  Capacity,   \* Inner::capacity
  MaxItems    \* bound: no call begins with more items in the buffer

ASSUME ConstAssumption ==
  /\ First \in Senders
  /\ Ranges \subseteq (Int \X Int) \cup {<<>>}
  /\ Capacity \in Nat \ {0}
  /\ MaxItems \in Nat

VARIABLES
  buffer,        \* Inner::buffer, the timestamp range of each item
  senderCount,   \* Inner::sender_count
  receiverAlive, \* Inner::receiver_alive
  st,            \* where each sender is
  timed,         \* the senders whose current call is send_timeout
  rx             \* where the receiver is

vars == <<buffer, senderCount, receiverAlive, st, timed, rx>>

\* "waiting" is on a condition variable; "woken" and "timedOut" have left it
\* and have still to take the lock.
SenderStates == {"none", "idle", "waiting", "woken", "timedOut", "dropped"}

Waiters == {s \in Senders : st[s] = "waiting"}
Woken   == {s \in Senders : st[s] = "woken"}
Blocked == {s \in Senders : st[s] \in {"waiting", "woken", "timedOut"}}
Holders == {s \in Senders : st[s] \notin {"none", "dropped"}}

Abs(n) == IF n < 0 THEN -n ELSE n

\* Inner::buffered_duration: from the first start to the last end among the
\* items that have a timestamp.
BufferedDuration(b) ==
  LET with == {i \in DOMAIN b : b[i] # <<>>}
      first == CHOOSE i \in with : \A j \in with : i <= j
      last  == CHOOSE i \in with : \A j \in with : j <= i
  IN  IF with = {} THEN 0 ELSE Abs(b[last][2] - b[first][1])

\* Inner::is_full.
IsFull(b) == BufferedDuration(b) >= Capacity

Init ==
  /\ buffer = <<>> /\ senderCount = 1 /\ receiverAlive = TRUE
  /\ st = [s \in Senders |-> IF s = First THEN "idle" ELSE "none"]
  /\ timed = {} /\ rx = "running"
-----------------------------------------------------------------------------
(* Senders *)

\* notify_one on not_full, with `a` the states of the senders by then.
NotifyNotFull(a) ==
  LET asleep == {s \in Senders : a[s] = "waiting"}
  IN  IF asleep = {} THEN st' = a
      ELSE \E s \in asleep : st' = [a EXCEPT ![s] = "woken"]

\* Mutant: a sender does not pass the wake-up on.
PassOnNever(a) == st' = a

\* After a push: if there is still room, the next sender is woken.
PassOn(a) == IF IsFull(buffer') THEN st' = a ELSE NotifyNotFull(a)

\* A send that finds room, in send, try_send and send_timeout alike.
Push(s) ==
  /\ receiverAlive /\ ~IsFull(buffer)
  /\ \E r \in Ranges : buffer' = Append(buffer, r)
  /\ rx' = IF rx = "waiting" THEN "woken" ELSE rx
  /\ PassOn([st EXCEPT ![s] = "idle"])
  /\ timed' = timed \ {s}
  /\ UNCHANGED <<senderCount, receiverAlive>>

\* A call returns an error: the receiver is gone, or the channel is full and
\* the call was try_send or its time is up.
Fail(s) ==
  /\ ~receiverAlive \/ IsFull(buffer)
  /\ st' = [st EXCEPT ![s] = "idle"]
  /\ timed' = timed \ {s}
  /\ UNCHANGED <<buffer, senderCount, receiverAlive, rx>>

\* send and send_timeout wait while the channel is full.
Wait(s) ==
  /\ receiverAlive /\ IsFull(buffer)
  /\ st' = [st EXCEPT ![s] = "waiting"]
  /\ UNCHANGED <<buffer, senderCount, receiverAlive, rx>>

\* The first pass of a call.
CallPush(s) == st[s] = "idle" /\ Len(buffer) <= MaxItems /\ Push(s)
CallFail(s) == st[s] = "idle" /\ Fail(s)
CallWait(s) == st[s] = "idle" /\ Len(buffer) <= MaxItems /\ Wait(s) /\ timed' \in {timed, timed \cup {s}}

\* The passes after a wait.  A send_timeout that was notified may find its time
\* up as well; only then, and with the channel full, does it give up.
ResumePush(s) == st[s] \in {"woken", "timedOut"} /\ Push(s)
ResumeFail(s) == /\ st[s] \in {"woken", "timedOut"}
                 /\ ~receiverAlive \/ s \in timed
                 /\ Fail(s)
ResumeWait(s) == st[s] = "woken" /\ Wait(s) /\ UNCHANGED timed

\* wait_timeout returns because the time is up.
TimeOut(s) ==
  /\ st[s] = "waiting" /\ s \in timed
  /\ st' = [st EXCEPT ![s] = "timedOut"]
  /\ UNCHANGED <<buffer, senderCount, receiverAlive, timed, rx>>

SpuriousWakeup(s) ==
  /\ st[s] = "waiting"
  /\ st' = [st EXCEPT ![s] = "woken"]
  /\ UNCHANGED <<buffer, senderCount, receiverAlive, timed, rx>>

\* Mutant: the new handle is not counted.
CloneUncounted(s, t) ==
  /\ st[s] = "idle" /\ st[t] = "none"
  /\ st' = [st EXCEPT ![t] = "idle"]
  /\ UNCHANGED <<buffer, senderCount, receiverAlive, timed, rx>>

\* Sender::clone, for a thread that has no handle yet.
Clone(s, t) ==
  /\ st[s] = "idle" /\ st[t] = "none"
  /\ senderCount' = senderCount + 1
  /\ st' = [st EXCEPT ![t] = "idle"]
  /\ UNCHANGED <<buffer, receiverAlive, timed, rx>>

\* Dropping the last handle wakes the receiver.
HangUp(n) == IF n = 0 /\ rx = "waiting" THEN "woken" ELSE rx

DropSender(s) ==
  /\ st[s] = "idle"
  /\ senderCount' = senderCount - 1
  /\ st' = [st EXCEPT ![s] = "dropped"]
  /\ rx' = HangUp(senderCount')
  /\ UNCHANGED <<buffer, receiverAlive, timed>>
-----------------------------------------------------------------------------
(* The receiver *)

\* recv and try_recv take an item and wake a sender.
Pop ==
  /\ rx \in {"running", "woken"} /\ buffer # <<>>
  /\ buffer' = Tail(buffer)
  /\ rx' = "running"
  /\ NotifyNotFull(st)
  /\ UNCHANGED <<senderCount, receiverAlive, timed>>

\* recv waits for an item as long as there are senders.
WaitForItem ==
  /\ rx \in {"running", "woken"} /\ buffer = <<>> /\ senderCount # 0
  /\ rx' = "waiting"
  /\ UNCHANGED <<buffer, senderCount, receiverAlive, st, timed>>

\* recv returns RecvError: the loop over the channel ends.
EndOfStream ==
  /\ rx \in {"running", "woken"} /\ buffer = <<>> /\ senderCount = 0
  /\ rx' = "ended"
  /\ UNCHANGED <<buffer, senderCount, receiverAlive, st, timed>>

SpuriousReceive ==
  /\ rx = "waiting" /\ rx' = "woken"
  /\ UNCHANGED <<buffer, senderCount, receiverAlive, st, timed>>

\* Mutant: one of the blocked senders hears of it.
WokenOne(a) ==
  {b \in [Senders -> SenderStates] :
     \E s \in Senders : b = [a EXCEPT ![s] = IF @ = "waiting" THEN "woken" ELSE @]}

\* Dropping the receiver wakes every sender.
WokenAll(a) == {[s \in Senders |-> IF a[s] = "waiting" THEN "woken" ELSE a[s]]}

DropReceiver ==
  /\ rx \in {"running", "ended"}
  /\ receiverAlive' = FALSE
  /\ rx' = "dropped"
  /\ st' \in WokenAll(st)
  /\ UNCHANGED <<buffer, senderCount, timed>>

Resume(s) == ResumePush(s) \/ ResumeFail(s) \/ ResumeWait(s)

Next ==
  \/ \E s \in Senders : \/ CallPush(s) \/ CallFail(s) \/ CallWait(s) \/ Resume(s)
                        \/ TimeOut(s) \/ SpuriousWakeup(s) \/ DropSender(s)
                        \/ \E t \in Senders : Clone(s, t)
  \/ Pop \/ WaitForItem \/ EndOfStream \/ SpuriousReceive \/ DropReceiver

Spec == Init /\ [][Next]_vars

\* A thread that has left a condition variable gets the lock in the end.
FairSpec ==
  /\ Spec
  /\ \A s \in Senders : WF_vars(Resume(s))
  /\ WF_vars(rx = "woken" /\ (Pop \/ WaitForItem \/ EndOfStream))
-----------------------------------------------------------------------------
TypeOK ==
  /\ buffer \in Seq(Ranges)
  /\ senderCount \in Nat /\ receiverAlive \in BOOLEAN
  /\ st \in [Senders -> SenderStates] /\ timed \subseteq Senders
  /\ rx \in {"running", "waiting", "woken", "ended", "dropped"}

\* No wake-up is lost: while there is room and a sender sleeps, some sender has
\* been woken that has not run yet.  A timeout that races a notification, or a
\* pop that frees room for two, must not leave a sender behind.
NoLostWakeup ==
  receiverAlive /\ Waiters # {} /\ ~IsFull(buffer) => Woken # {}

\* The receiver sleeps only while there is nothing to receive and somebody to
\* wait for.
ReceiverAwake == rx = "waiting" => buffer = <<>> /\ senderCount # 0

\* Dropping the receiver releases every sender.
NobodyLeftBehind == rx = "dropped" => Waiters = {}

\* Both ends never sleep at the same time.
NeverBothAsleep == rx = "waiting" /\ Waiters # {} => Woken # {}

\* Nobody sleeps in vain: neither next to what it waits for, nor when there is
\* nobody left who could wake it.
NobodySleepsInVain ==
  NoLostWakeup /\ ReceiverAwake /\ NobodyLeftBehind /\ NeverBothAsleep

\* The receiver sees the end of the stream only when every handle has been
\* dropped and everything sent has been received.
EndsWithTheLast == rx = "ended" => buffer = <<>> /\ Holders = {}

Promise ==
  INSTANCE BoundedChannel WITH
    Items <- Ranges, Full <- IsFull, open <- receiverAlive,
    waiting <- Blocked, handles <- Holders

\* The channel implements the FIFO channel its users see, and a send that is
\* blocked while there is room is admitted.
ImplementsChannel == Promise!FairSpec
=============================================================================
