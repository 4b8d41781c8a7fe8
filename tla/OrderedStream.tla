--------------------------- MODULE OrderedStream ---------------------------
(***************************************************************************)
(* What a decoder is promised of the RTP packets of a track: from the first *)
(* packet on it learns of every position of the stream once and in order,  *)
(* either with the packet that was sent there or with a LostPacket, and it *)
(* is told once that the stream is over.                                   *)
(***************************************************************************)
EXTENDS Naturals

CONSTANTS
  Tracks,
  Positions,  \* natural numbers
  None        \* no natural number

VARIABLES
  next,   \* per track: the position the next event is about
  event,  \* per track: the last event
  ended   \* the tracks that are over

vars == <<next, event, ended>>

NoEvent   == [kind |-> "none"]
Lost      == [kind |-> "lost"]
Packet(p) == [kind |-> "packet", at |-> p]

Init ==
  /\ next = [t \in Tracks |-> None] /\ event = [t \in Tracks |-> NoEvent]
  /\ ended = {}

\* The event is about position p; without anybody to take it the track ends.
Tell(t, e, p) ==
  /\ \/ event' = [event EXCEPT ![t] = e] /\ UNCHANGED ended
     \/ ended' = ended \cup {t} /\ UNCHANGED event
  /\ next' = [next EXCEPT ![t] = p + 1]

Begin(t) ==
  /\ next[t] = None
  /\ \E p \in Positions : Tell(t, Packet(p), p)

Continue(t) ==
  /\ next[t] # None
  /\ \E e \in {Packet(next[t]), Lost} : Tell(t, e, next[t])

End ==
  /\ \E over \in SUBSET Tracks : ended' = ended \cup over
  /\ UNCHANGED <<next, event>>

Next == End \/ \E t \in Tracks : Begin(t) \/ Continue(t)

Spec == Init /\ [][Next]_vars
=============================================================================
