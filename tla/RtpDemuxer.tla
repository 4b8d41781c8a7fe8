----------------------------- MODULE RtpDemuxer -----------------------------
(***************************************************************************)
(* The RTP input: the demuxer thread (rtp/rtp_input.rs, RtpDemuxerThread)  *)
(* and the jitter buffer of each track (rtp_input/jitter_buffer.rs, in the *)
(* FixedWindow mode the thread uses), with the rollover of the sequence    *)
(* numbers (rtp_input/rollover_state.rs).                                  *)
(*                                                                         *)
(* The network is external.  It loses, repeats and reorders packets, and   *)
(* the channel of the socket thread is part of it.  A packet is known by   *)
(* its position in the stream; on the wire it carries the position modulo  *)
(* SeqMod.  Its PTS is a function of the position: the synchronisation of  *)
(* the clocks (rtcp_sync.rs) is left out, and so are the payloads.         *)
(***************************************************************************)
EXTENDS Integers

CONSTANTS
  NumTracks,     \* video comes first
  SeqMod,        \* 2^16
  First, Final,  \* bounds: the first position of a stream, and per track the last
  Pts,           \* per track and position; with B-frames it goes back and forth
  Window,        \* RtpJitterBufferMode::FixedWindow { size }
  MaxLate,       \* bound: how far behind the newest packet another one arrives
  MaxSkip        \* bound: packets in a row that are late or lost

Tracks    == 1 .. NumTracks
Positions == UNION {First .. Final[t] : t \in Tracks}
None      == -1
NoEvent   == [kind |-> "none"]

(* The distances of packets that follow one another stay clear of half the *)
(* range of a sequence number, and the stream does not begin next to a     *)
(* wrap (see README).                                                      *)
ASSUME StreamAssumption ==
  /\ NumTracks \in Nat \ {0} /\ Final \in [Tracks -> Nat] /\ {SeqMod, First, Window, MaxLate, MaxSkip} \subseteq Nat
  /\ First + MaxSkip < SeqMod
  /\ MaxLate + MaxSkip + 1 < (SeqMod - 1) \div 2
  /\ Pts \in [Tracks -> [Positions -> Nat]]

VARIABLES
  newest,     \* per track: the newest position that has arrived
  arrived,    \* ghost, per track: all positions that have
  open,       \* the socket thread holds its end of the channel
  pc,         \* where the thread is
  at,         \* the track it drains
  msg,        \* what recv_timeout returned, until it is handled
  rollover,   \* per track: SequenceNumberRollover
  packets,    \* per track: JitterBuffer::packets, positions by sequence number
  nextSeq,    \* per track: next_seq_num
  ssrcKnown,  \* tracks with an ssrc
  eosSent,    \* tracks with eos_sent
  alive,      \* tracks whose decoder thread still holds its receiver
  event,      \* per track: the last event sent
  givenUp     \* ghost, per track: positions passed over, except in a flush

netVars == <<newest, arrived, open, alive>>
bufVars == <<rollover, packets, nextSeq>>
vars    == <<netVars, pc, at, msg, bufVars, ssrcKnown, eosSent, event, givenUp>>

Init ==
  /\ newest = [t \in Tracks |-> First - 1] /\ arrived = [t \in Tracks |-> {}] /\ open = TRUE /\ alive = Tracks
  /\ pc = "recv" /\ at = 1 /\ msg = NoEvent
  /\ rollover = [t \in Tracks |-> [count |-> 0, last |-> None]]
  /\ packets = [t \in Tracks |-> <<>>] /\ nextSeq = [t \in Tracks |-> None]
  /\ ssrcKnown = {} /\ eosSent = {}
  /\ event = [t \in Tracks |-> NoEvent] /\ givenUp = [t \in Tracks |-> {}]

-----------------------------------------------------------------------------
(* The network *)

\* Packets arrive at most MaxLate behind the newest one, perhaps again.
Arrives(t, p) ==
  /\ p \in First .. Final[t]
  /\ p > newest[t] - MaxLate
  /\ p <= newest[t] + 1 + MaxSkip

Disconnect ==
  /\ open /\ open' = FALSE
  /\ UNCHANGED <<newest, arrived, alive, pc, at, msg, bufVars, ssrcKnown, eosSent, event, givenUp>>

\* The decoder thread of a track ends early.
DecoderEnds(t) ==
  /\ t \in alive /\ alive' = alive \ {t}
  /\ UNCHANGED <<newest, arrived, open, pc, at, msg, bufVars, ssrcKnown, eosSent, event, givenUp>>

-----------------------------------------------------------------------------
(* The sequence numbers *)

Abs(n) == IF n < 0 THEN -n ELSE n
Wire(p) == p % SeqMod

\* Mutant: a packet from before the rollover stays in the new round.
RolledForward(r, wire) ==
  LET last == IF r.last = None THEN wire ELSE r.last
  IN  IF Abs(last - wire) >= (SeqMod - 1) \div 2 /\ last > wire
      THEN [count |-> r.count + 1, last |-> wire] ELSE [r EXCEPT !.last = wire]

Rolled(r, wire) ==
  LET last == IF r.last = None THEN wire ELSE r.last
      far  == Abs(last - wire) >= (SeqMod - 1) \div 2
  IN  [count |-> IF ~far THEN r.count
                 ELSE IF last > wire THEN r.count + 1
                 ELSE IF r.count = 0 THEN 0 ELSE r.count - 1,
       last |-> wire]

Number(r) == r.count * SeqMod + r.last

-----------------------------------------------------------------------------
(* The jitter buffer of track t *)

Buffered(t)  == DOMAIN packets[t]
FirstOf(t)   == CHOOSE n \in Buffered(t) : \A m \in Buffered(t) : n <= m
PtsAt(t, n)  == Pts[t][packets[t][n]]

\* peek_next_pts, without the constant offset of all tracks
NextPts(t)   == PtsAt(t, FirstOf(t))

\* Mutant: takes the packets to be sorted by their PTS.
WindowFullInOrder(t) ==
  \E n, m \in Buffered(t) :
    /\ \A k \in Buffered(t) : m <= k /\ k <= n
    /\ PtsAt(t, n) >= PtsAt(t, m) + Window

\* Some packets are `Window` apart.
WindowFull(t) ==
  \E n, m \in Buffered(t) : PtsAt(t, n) >= PtsAt(t, m) + Window

\* try_read_packet returns something.
Readable(t) ==
  /\ Buffered(t) # {}
  /\ nextSeq[t] = FirstOf(t) \/ WindowFull(t)

Send(t, e) ==
  IF t \in alive
  THEN event' = [event EXCEPT ![t] = e] /\ UNCHANGED eosSent
  ELSE eosSent' = eosSent \cup {t} /\ UNCHANGED event

\* Mutant: a gap is not reported.
ReadPacketSkips(t) ==
  LET n == FirstOf(t)
  IN  /\ Send(t, [kind |-> "packet", at |-> packets[t][n]])
      /\ nextSeq' = [nextSeq EXCEPT ![t] = n + 1]
      /\ packets' = [packets EXCEPT ![t] = [m \in Buffered(t) \ {n} |-> @[m]]]

\* read_packet and send_packet
ReadPacket(t) ==
  LET n == FirstOf(t)
  IN  IF nextSeq[t] \notin {None, n}
      THEN /\ Send(t, [kind |-> "lost"])
           /\ nextSeq' = [nextSeq EXCEPT ![t] = @ + 1]
           /\ UNCHANGED packets
      ELSE /\ Send(t, [kind |-> "packet", at |-> packets[t][n]])
           /\ nextSeq' = [nextSeq EXCEPT ![t] = n + 1]
           /\ packets' = [packets EXCEPT ![t] = [m \in Buffered(t) \ {n} |-> @[m]]]

\* The positions that the read of track t passes over.
PassedOver(t) ==
  LET n == FirstOf(t)
  IN  IF nextSeq[t] = None THEN First .. packets[t][n] - 1
      ELSE IF nextSeq[t] = n THEN {} ELSE {nextSeq[t]}

TooOld(t, n) == nextSeq[t] # None /\ nextSeq[t] > n

\* write_packet, with the ssrc of handle_new_rtp_packet
WritePacket(t, p) ==
  LET r == Rolled(rollover[t], Wire(p))
      n == Number(r)
  IN  /\ rollover' = [rollover EXCEPT ![t] = r]
      /\ packets' = IF TooOld(t, n) THEN packets
                    ELSE [packets EXCEPT ![t] =
                            [m \in Buffered(t) \cup {n} |-> IF m = n THEN p ELSE @[m]]]
      /\ ssrcKnown' = ssrcKnown \cup {t}
      /\ UNCHANGED nextSeq

-----------------------------------------------------------------------------
(* The demuxer thread *)

Timeout == [kind |-> "timeout"]
Closed  == [kind |-> "closed"]
Handled == [kind |-> "handled"]

\* recv_timeout
Receive ==
  /\ pc = "recv" /\ pc' = "merge"
  /\ IF open
     THEN \/ msg' = Timeout /\ UNCHANGED <<newest, arrived>>
          \/ \E t \in Tracks, p \in Positions :
               /\ Arrives(t, p)
               /\ msg' = [kind |-> "rtp", track |-> t, at |-> p]
               /\ newest' = [newest EXCEPT ![t] = IF p > @ THEN p ELSE @]
               /\ arrived' = [arrived EXCEPT ![t] = @ \cup {p}]
          \/ \E of \in SUBSET Tracks \ {{}} :
               msg' = [kind |-> "bye", of |-> of] /\ UNCHANGED <<newest, arrived>>
     ELSE msg' = Closed /\ UNCHANGED <<newest, arrived>>
  /\ UNCHANGED <<open, alive, at, bufVars, ssrcKnown, eosSent, event, givenUp>>

Holding == {t \in Tracks : Buffered(t) # {}}

\* The track with the lowest PTS, the first of equal ones.
Lowest ==
  CHOOSE t \in Holding :
    \A u \in Holding : NextPts(t) < NextPts(u) \/ (NextPts(t) = NextPts(u) /\ t <= u)

ReadInWindow(t) ==
  /\ ReadPacket(t)
  /\ givenUp' = [givenUp EXCEPT ![t] = @ \cup PassedOver(t)]

\* process_rtp_from_jitter_buffer: the lowest PTS first, ...
Merge ==
  /\ pc = "merge"
  /\ IF Holding # {} /\ Readable(Lowest)
     THEN ReadInWindow(Lowest) /\ UNCHANGED <<pc, at>>
     ELSE pc' = "drain" /\ at' = 1 /\ UNCHANGED <<packets, nextSeq, eosSent, event, givenUp>>
  /\ UNCHANGED <<netVars, msg, rollover, ssrcKnown>>

\* Mutant: only the end of the connection ends the thread.
AfterProcessClosed ==
  IF msg = Handled THEN "recv"
  ELSE IF msg = Closed THEN "end"
  ELSE IF msg = Timeout THEN "recv"
  ELSE IF msg.kind = "bye" THEN "flush" ELSE "handle"

\* Where `run` goes on after it.
AfterProcess ==
  IF msg = Handled THEN "recv"
  ELSE IF eosSent = Tracks \/ msg = Closed THEN "end"
  ELSE IF msg = Timeout THEN "recv"
  ELSE IF msg.kind = "bye" THEN "flush" ELSE "handle"

\* ... then every track on its own.
Drain ==
  /\ pc = "drain"
  /\ IF Readable(at)
     THEN ReadInWindow(at) /\ UNCHANGED <<pc, at, msg>>
     ELSE /\ IF at < NumTracks
             THEN at' = at + 1 /\ UNCHANGED <<pc, msg>>
             ELSE /\ pc' = AfterProcess
                  /\ msg' = IF pc' \in {"handle", "flush"} THEN msg ELSE NoEvent
                  /\ UNCHANGED at
          /\ UNCHANGED <<packets, nextSeq, eosSent, event, givenUp>>
  /\ UNCHANGED <<netVars, rollover, ssrcKnown>>

HandlePacket ==
  /\ pc = "handle" /\ pc' = "merge" /\ msg' = Handled
  /\ WritePacket(msg.track, msg.at)
  /\ UNCHANGED <<netVars, at, eosSent, event, givenUp>>

\* Goodbye: flush_rtp_from_jitter_buffer, then send_eos to the tracks it names.
HandleGoodbye ==
  /\ pc = "flush"
  /\ IF Holding # {}
     THEN ReadPacket(Lowest) /\ UNCHANGED <<pc, msg>>
     ELSE /\ pc' = "merge" /\ msg' = Handled
          /\ eosSent' = eosSent \cup (msg.of \cap ssrcKnown)
          /\ UNCHANGED <<packets, nextSeq, event>>
  /\ UNCHANGED <<netVars, at, rollover, ssrcKnown, givenUp>>

\* After the loop: send_eos to all tracks.
Finish ==
  /\ pc = "end" /\ pc' = "done"
  /\ eosSent' = Tracks
  /\ UNCHANGED <<netVars, at, msg, bufVars, ssrcKnown, event, givenUp>>

Thread == Receive \/ Merge \/ Drain \/ HandlePacket \/ HandleGoodbye \/ Finish

Next ==
  \/ Thread
  \/ Disconnect
  \/ \E t \in Tracks : DecoderEnds(t)

Spec == Init /\ [][Next]_vars

\* The operating system runs the thread.
LiveSpec == Spec /\ WF_vars(Thread)
-----------------------------------------------------------------------------
(* Properties *)

Messages ==
  {NoEvent, Timeout, Closed, Handled}
  \cup [kind : {"rtp"}, track : Tracks, at : Positions]
  \cup [kind : {"bye"}, of : SUBSET Tracks]

TypeOK ==
  /\ newest \in [Tracks -> {First - 1} \cup Positions] /\ arrived \in [Tracks -> SUBSET Positions]
  /\ open \in BOOLEAN /\ alive \subseteq Tracks
  /\ pc \in {"recv", "merge", "drain", "handle", "flush", "end", "done"} /\ at \in Tracks
  /\ msg \in Messages
  /\ rollover \in [Tracks -> [count : Nat, last : {None} \cup 0 .. SeqMod - 1]]
  /\ DOMAIN packets = Tracks
  /\ \A t \in Tracks : packets[t] \in [Buffered(t) -> Positions] /\ Buffered(t) \subseteq Nat
  /\ nextSeq \in [Tracks -> Nat \cup {None}] /\ givenUp \in [Tracks -> SUBSET Positions]
  /\ {ssrcKnown, eosSent} \subseteq SUBSET Tracks

(* A decoder learns of every position of its stream once and in order,     *)
(* with its packet or as lost, whatever the network does and whenever the  *)
(* sequence numbers wrap (write_packet, read_packet,                       *)
(* rolled_sequence_number).                                                *)
Stream == INSTANCE OrderedStream WITH next <- nextSeq, ended <- eosSent

ImplementsOrderedStream == Stream!Spec

(* Without a goodbye a position is only given up when two packets behind   *)
(* it have arrived whose PTS are a window apart, in whatever order the PTS *)
(* of the stream come (RtpJitterBufferMode: "Release packets once the PTS  *)
(* span of buffered packets exceeds `size`").                              *)
NotGivenUpEarly ==
  \A t \in Tracks : \A p \in givenUp[t] : \E a, b \in arrived[t] :
    a > p /\ b > p /\ Pts[t][a] >= Pts[t][b] + Window

(* When the thread waits for the network, the packet that is next in line  *)
(* has not arrived, and those that have come after it are less than a      *)
(* window apart: nothing that is ready is kept, on a track that is behind  *)
(* a stalled one neither (the second loop of                               *)
(* process_rtp_from_jitter_buffer).                                        *)
NothingReadyWaits ==
  pc = "recv" =>
    \A t \in Tracks :
      /\ nextSeq[t] \notin arrived[t]
      /\ \A a, b \in arrived[t] :
           a >= nextSeq[t] /\ b >= nextSeq[t] => Pts[t][a] < Pts[t][b] + Window

(* Packets leave the jitter buffer neither early nor late. *)
LeavesInTime == NotGivenUpEarly /\ NothingReadyWaits

(* When the connection ends, or all tracks have ended by goodbye or with   *)
(* their decoders, the decoders are told and the thread ends.              *)
EosInTheEnd ==
  /\ ~open ~> (pc = "done" /\ eosSent = Tracks)
  /\ (eosSent = Tracks) ~> (pc = "done")
=============================================================================
