--------------------------- MODULE BoundedChannel ---------------------------
(***************************************************************************)
(* What the users of pipeline/utils/channel.rs rely on: a FIFO channel     *)
(* that takes an item while it is not full.  There are no locks and no     *)
(* condition variables here: a send that finds the channel full waits, and *)
(* while it is not full, some waiting send is admitted in the end.         *)
(***************************************************************************)
EXTENDS Sequences

CONSTANTS
  Senders,
  Items,
  Full(_)     \* whether a buffer is full

VARIABLES
  buffer,
  waiting,    \* the senders blocked in a send
  open,       \* whether the receiver is alive
  handles     \* the senders that hold a handle

vars == <<buffer, waiting, open, handles>>

Init == /\ buffer = <<>> /\ waiting = {} /\ open = TRUE
        /\ \E s \in Senders : handles = {s}

\* A send returns with its item in the channel.
Admit(s) ==
  /\ open /\ ~Full(buffer) /\ s \in handles
  /\ \E i \in Items : buffer' = Append(buffer, i)
  /\ waiting' = waiting \ {s}
  /\ UNCHANGED <<open, handles>>

\* A send is left waiting only by a full channel.
Wait(s) ==
  /\ open /\ Full(buffer) /\ s \in handles \ waiting
  /\ waiting' = waiting \cup {s}
  /\ UNCHANGED <<buffer, open, handles>>

\* A waiting send gives up: the receiver is gone, or its time is up.
GiveUp(s) ==
  /\ s \in waiting /\ (~open \/ Full(buffer))
  /\ waiting' = waiting \ {s}
  /\ UNCHANGED <<buffer, open, handles>>

Receive ==
  /\ open /\ buffer # <<>>
  /\ buffer' = Tail(buffer)
  /\ UNCHANGED <<waiting, open, handles>>

Close == open /\ open' = FALSE /\ UNCHANGED <<buffer, waiting, handles>>

\* Handles are cloned and dropped; a sender that waits keeps its own.
Share == /\ waiting \subseteq handles'
         /\ \E s \in Senders : handles' = handles \cup {s} \/ handles' = handles \ {s}
         /\ UNCHANGED <<buffer, waiting, open>>

Next == \/ \E s \in Senders : Admit(s) \/ Wait(s) \/ GiveUp(s)
        \/ Receive \/ Close \/ Share

\* A waiting send returns for another reason than that its time is up.
Served   == \E s \in waiting : Admit(s) \/ (~open /\ GiveUp(s))
CanServe == waiting # {} /\ (open => ~Full(buffer))

Spec == Init /\ [][Next]_vars

\* Weak fairness of Served, with its enabling condition written out.
FairSpec == Spec /\ ([]<>~CanServe \/ []<><<Served>>_vars)
=============================================================================
