--------------------------- MODULE RtpDemuxerProofs ---------------------------
(***************************************************************************)
(* Safety of the RTP demuxer, for any number of tracks, streams of any     *)
(* length and any sizes of the window and of the sequence numbers that     *)
(* StreamAssumption admits.                                                *)
(*                                                                         *)
(* The first part says that the rollover counter is right: consecutive     *)
(* packets less than half a round apart keep their positions.  Number is a *)
(* product, which the provers handle badly; nothing after that part        *)
(* expands its definition.                                                 *)
(***************************************************************************)
EXTENDS RtpDemuxer, WellFoundedInduction, TLAPS

-----------------------------------------------------------------------------
(* The sequence numbers *)

Half     == (SeqMod - 1) \div 2
Counters == [count : Nat, last : {None} \cup 0 .. SeqMod - 1]

LEMMA HalfARound ==
  /\ SeqMod \in Nat \ {0} /\ Half \in Nat /\ 2 * Half < SeqMod
  /\ MaxLate + MaxSkip + 1 < Half /\ First + MaxSkip < SeqMod
  /\ First \in Nat /\ MaxLate \in Nat /\ MaxSkip \in Nat /\ Window \in Nat
<1>1. /\ SeqMod \in Nat /\ First \in Nat /\ MaxLate \in Nat /\ MaxSkip \in Nat /\ Window \in Nat
      /\ First + MaxSkip < SeqMod /\ MaxLate + MaxSkip + 1 < (SeqMod - 1) \div 2
  BY StreamAssumption
<1>2. SeqMod > 0
  BY <1>1
<1>3. SeqMod - 1 \in Nat
  BY <1>1, <1>2
<1>4. 2 * ((SeqMod - 1) \div 2) <= SeqMod - 1 /\ (SeqMod - 1) \div 2 \in Nat
  BY <1>3
<1> QED BY <1>1, <1>2, <1>4 DEF Half

LEMMA Division ==
  ASSUME NEW p \in Nat
  PROVE  \E k \in Nat : p = k * SeqMod + Wire(p) /\ Wire(p) \in 0 .. SeqMod - 1
<1>1. SeqMod \in Nat /\ SeqMod > 0
  BY HalfARound
<1>2. p \div SeqMod \in Nat /\ p % SeqMod \in 0 .. SeqMod - 1
  BY <1>1
<1>3. p = (p \div SeqMod) * SeqMod + (p % SeqMod)
  BY <1>1
<1> QED BY <1>2, <1>3 DEF Wire

LEMMA Multiples ==
  ASSUME NEW a \in Nat, NEW b \in Nat, NEW m \in Nat
  PROVE  /\ a * m \in Nat /\ (a + 1) * m = a * m + m
         /\ a > b + 1 => a * m >= b * m + 2 * m
<1>1. a * m \in Nat /\ (a + 1) * m = a * m + m
  BY SMT
<1>2. ASSUME a > b + 1 PROVE a * m >= b * m + 2 * m
  <2>1. PICK d \in Nat : a = b + 2 + d
    <3>1. a - (b + 2) \in Nat /\ a = b + 2 + (a - (b + 2))
      BY <1>2
    <3> QED BY <3>1
  <2>2. (b + 2 + d) * m = b * m + 2 * m + d * m
    BY SMT
  <2>3. d * m \in Nat /\ b * m \in Nat
    BY SMT
  <2> QED BY <2>1, <2>2, <2>3
<1> QED BY <1>1, <1>2

(* rolled_sequence_number: after position q, position p gets its number    *)
(* back from what is left of it on the wire.                               *)
LEMMA RolledRight ==
  ASSUME NEW r \in Counters, r.last # None, NEW p \in Nat, NEW q \in Nat, Number(r) = q,
         p - q < Half, q - p < Half
  PROVE  Rolled(r, Wire(p)) \in Counters /\ Number(Rolled(r, Wire(p))) = p
<1> DEFINE s == SeqMod
           w == Wire(p)
           c == r.count
           l == r.last
<1>1. PICK k \in Nat : p = k * s + w /\ w \in 0 .. s - 1
  BY Division
<1>2. c \in Nat /\ l \in 0 .. s - 1 /\ l # None /\ q = c * s + l
  BY DEF Counters, Number
<1>3. s \in Nat /\ Half \in Nat /\ 2 * Half < s
  BY HalfARound
<1> HIDE DEF w, c, l, s
<1>4. /\ Rolled(r, w).last = w
      /\ Rolled(r, w).count = IF ~(Abs(l - w) >= Half) THEN c
                              ELSE IF l > w THEN c + 1 ELSE IF c = 0 THEN 0 ELSE c - 1
      /\ Rolled(r, w) = [count |-> Rolled(r, w).count, last |-> Rolled(r, w).last]
  BY <1>2 DEF Rolled, Half, c, l
<1>5. c * s \in Nat /\ k * s \in Nat
  BY <1>1, <1>2, <1>3, Multiples
<1>6. ASSUME k = c PROVE Rolled(r, w).count = k
  <2>1. l - w < Half /\ w - l < Half
    BY <1>1, <1>2, <1>3, <1>5, <1>6
  <2> QED BY <1>1, <1>2, <1>3, <1>4, <1>6, <2>1 DEF Abs
<1>7. ASSUME k = c + 1 PROVE Rolled(r, w).count = k
  <2>1. k * s = c * s + s
    BY <1>2, <1>3, <1>7, Multiples
  <2>2. l - w >= Half /\ l > w
    BY <1>1, <1>2, <1>3, <1>5, <2>1
  <2> QED BY <1>1, <1>2, <1>3, <1>4, <1>7, <2>2 DEF Abs
<1>8. ASSUME c = k + 1 PROVE Rolled(r, w).count = k
  <2>1. c * s = k * s + s
    BY <1>1, <1>3, <1>8, Multiples
  <2>2. w - l >= Half /\ w > l
    BY <1>1, <1>2, <1>3, <1>5, <2>1
  <2> QED BY <1>1, <1>2, <1>3, <1>4, <1>8, <2>2 DEF Abs
<1>9. ~(k > c + 1)
  <2> SUFFICES ASSUME k > c + 1 PROVE FALSE
    OBVIOUS
  <2>1. k * s >= c * s + 2 * s
    BY <1>1, <1>2, <1>3, Multiples
  <2> QED BY <1>1, <1>2, <1>3, <1>5, <2>1
<1>10. ~(c > k + 1)
  <2> SUFFICES ASSUME c > k + 1 PROVE FALSE
    OBVIOUS
  <2>1. c * s >= k * s + 2 * s
    BY <1>1, <1>2, <1>3, Multiples
  <2> QED BY <1>1, <1>2, <1>3, <1>5, <2>1
<1>11. Rolled(r, w).count = k
  BY <1>1, <1>2, <1>6, <1>7, <1>8, <1>9, <1>10
<1>12. Rolled(r, w) \in Counters
  BY <1>1, <1>4, <1>11 DEF Counters, s
<1> QED BY <1>1, <1>4, <1>11, <1>12 DEF Number, w, s

\* The first packet of a stream is in the first round.
LEMMA FirstRound ==
  ASSUME NEW r \in Counters, r.last = None, r.count = 0, NEW p \in Nat, p < SeqMod
  PROVE  Rolled(r, Wire(p)) \in Counters /\ Number(Rolled(r, Wire(p))) = p
<1>1. Wire(p) = p /\ p \in 0 .. SeqMod - 1
  BY HalfARound DEF Wire
<1>2. Abs(p - p) = 0 /\ 0 < Half
  BY HalfARound DEF Abs
<1>3. Rolled(r, p) = [count |-> 0, last |-> p]
  BY <1>1, <1>2, HalfARound DEF Rolled, Half
<1>4. 0 * SeqMod + p = p
  BY HalfARound
<1> QED BY <1>1, <1>3, <1>4 DEF Number, Counters

\* The rollover counter never yields a number that is not one.
LEMMA RolledLast ==
  ASSUME NEW r, NEW p \in Nat
  PROVE  Rolled(r, Wire(p)).last = Wire(p) /\ Wire(p) # None
<1>1. Wire(p) \in 0 .. SeqMod - 1
  BY Division
<1> QED BY <1>1, HalfARound DEF Rolled, None

-----------------------------------------------------------------------------
(* The invariant *)

Pending(t) == msg.kind = "rtp" /\ msg.track = t

Types ==
  /\ newest \in [Tracks -> {First - 1} \cup Positions] /\ arrived \in [Tracks -> SUBSET Positions]
  /\ open \in BOOLEAN /\ alive \subseteq Tracks
  /\ pc \in {"recv", "merge", "drain", "handle", "flush", "end", "done"} /\ at \in Tracks
  /\ msg \in Messages
  /\ rollover \in [Tracks -> Counters]
  /\ DOMAIN packets = Tracks
  /\ nextSeq \in [Tracks -> Nat \cup {None}] /\ givenUp \in [Tracks -> SUBSET Positions]
  /\ ssrcKnown \subseteq Tracks /\ eosSent \subseteq Tracks

\* A packet is stored under its position, which has arrived.
StoredAt(t) ==
  /\ packets[t] = [n \in Buffered(t) |-> n]
  /\ Buffered(t) \subseteq arrived[t]
  /\ arrived[t] \subseteq First .. newest[t]

(* What has arrived and is not behind the reader is stored, until the loop *)
(* ends.                                                                   *)
Kept(t) ==
  \A p \in arrived[t] : p >= nextSeq[t] => p \in Buffered(t) \/ (Pending(t) /\ p = msg.at)

\* What has been read is behind what is stored.
ReadBehind(t) ==
  nextSeq[t] # None => nextSeq[t] >= First /\ \A n \in Buffered(t) : nextSeq[t] <= n

(* Before a packet is handled its distance from the last number is small.  *)
(* The counter does not matter any more when the loop has ended.           *)
Near(t) ==
  LET r == rollover[t]
  IN  /\ r.last = None => /\ r.count = 0
                          /\ newest[t] <= First + MaxSkip
                          /\ newest[t] >= First => Pending(t)
      /\ r.last # None =>
           /\ Number(r) \in Nat /\ Number(r) <= newest[t]
           /\ Number(r) >= newest[t] - MaxLate - (IF Pending(t) THEN MaxSkip + 1 ELSE 0)
      /\ Pending(t) => msg.at \in arrived[t] /\ msg.at \in First .. newest[t] /\ msg.at >= newest[t] - MaxLate

\* What was given up has been overtaken by a window.
Overtaken(t) ==
  \A p \in givenUp[t] : \E a, b \in arrived[t] :
    a > p /\ b > p /\ Pts[t][a] >= Pts[t][b] + Window

MsgOrder ==
  /\ pc = "recv" => msg = NoEvent
  /\ pc \in {"merge", "drain"} => msg # NoEvent
  /\ pc = "handle" => msg.kind = "rtp"
  /\ pc = "flush" => msg.kind = "bye"

\* The tracks before the one that is drained are through.
Drained == pc = "drain" => \A t \in Tracks : t < at => ~Readable(t)

\* When the thread waits for the network all tracks are read out.
ReadOut == pc = "recv" => \A t \in Tracks : ~Readable(t)

TrackInv(t) ==
  StoredAt(t) /\ ReadBehind(t) /\ Overtaken(t) /\ (pc \in {"end", "done"} \/ (Near(t) /\ Kept(t)))

IInv == Types /\ MsgOrder /\ Drained /\ ReadOut /\ \A t \in Tracks : TrackInv(t)

-----------------------------------------------------------------------------
(* Choices *)

LEMMA PositionsDown ==
  /\ Positions \subseteq Nat
  /\ \A q \in Positions : First <= q /\ \A p \in First .. q : p \in Positions
<1>1. Tracks \subseteq Nat /\ Final \in [Tracks -> Nat] /\ First \in Nat
  <2>1. NumTracks \in Nat /\ Final \in [Tracks -> Nat] /\ First \in Nat
    BY StreamAssumption
  <2>2. Tracks \subseteq Nat
    BY <2>1 DEF Tracks
  <2> QED BY <2>1, <2>2
<1>2. ASSUME NEW q \in Positions
      PROVE  q \in Nat /\ First <= q /\ \A p \in First .. q : p \in Positions
  <2>1. PICK t \in Tracks : q \in First .. Final[t]
    BY DEF Positions
  <2>2. Final[t] \in Nat
    BY <1>1
  <2>3. ASSUME NEW p \in First .. q PROVE p \in First .. Final[t]
    BY <1>1, <2>1, <2>2
  <2> QED BY <1>1, <2>1, <2>2, <2>3 DEF Positions
<1> QED BY <1>2

LEMMA NewestIsInt == \A n \in {First - 1} \cup Positions : n \in Int
<1>1. First \in Nat /\ Positions \subseteq Nat
  BY HalfARound, PositionsDown
<1>2. First - 1 \in Int
  BY <1>1
<1>3. \A n \in Positions : n \in Int
  BY <1>1
<1> QED BY <1>2, <1>3

LEMMA PtsIsNat ==
  ASSUME NEW t \in Tracks, NEW p \in Positions
  PROVE  Pts[t][p] \in Nat
BY StreamAssumption

\* A set of natural numbers that is not empty has a least member.
LEMMA LeastExists ==
  ASSUME NEW S, S \subseteq Nat, S # {}
  PROVE  \E m \in S : \A n \in S : m <= n
<1> DEFINE Less == {ss \in Nat \X Nat : ss[1] < ss[2]}
<1>1. IsWellFoundedOn(Less, Nat)
  BY NatLessThanWellFounded, Zenon DEF OpToRel
<1>2. PICK m \in S : \A n \in S : ~(<<n, m>> \in Less)
  <2> HIDE DEF Less
  <2> QED BY <1>1, WFMin, Zenon
<1>3. \A n \in S : ~(n < m)
  <2> SUFFICES ASSUME NEW n \in S, n < m
               PROVE  FALSE
    OBVIOUS
  <2>1. <<n, m>> \in Less
    OBVIOUS
  <2> QED BY <1>2, <2>1
<1> QED BY <1>3

\* What is stored are positions; the first of them is the least.
LEMMA BufferedPositions ==
  ASSUME IInv, NEW t \in Tracks
  PROVE  /\ newest[t] \in {First - 1} \cup Positions
         /\ \A n \in Buffered(t) :
              /\ n \in Positions /\ n \in Nat /\ First <= n /\ n <= newest[t] /\ newest[t] \in Positions
              /\ packets[t][n] = n /\ n \in arrived[t]
<1>1. newest[t] \in {First - 1} \cup Positions /\ First \in Nat
  BY HalfARound DEF IInv, Types
<1>2. packets[t] = [n \in Buffered(t) |-> n] /\ Buffered(t) \subseteq First .. newest[t]
      /\ Buffered(t) \subseteq arrived[t]
  BY DEF IInv, TrackInv, StoredAt
<1>3. ASSUME NEW n \in Buffered(t)
      PROVE  /\ n \in Positions /\ n \in Nat /\ First <= n /\ n <= newest[t] /\ newest[t] \in Positions
             /\ packets[t][n] = n /\ n \in arrived[t]
  <2>1. n \in arrived[t] /\ n \in First .. newest[t] /\ packets[t][n] = n
    BY <1>2
  <2>2. newest[t] \in Positions
    BY <1>1, <2>1
  <2>3. n \in Positions /\ newest[t] \in Nat
    BY <2>1, <2>2, PositionsDown
  <2>4. n \in Nat /\ First <= n /\ n <= newest[t]
    BY <1>1, <2>1, <2>3
  <2> QED BY <2>1, <2>2, <2>3, <2>4
<1> QED BY <1>1, <1>3

LEMMA FirstOfIsLeast ==
  ASSUME IInv, NEW t \in Tracks, Buffered(t) # {}
  PROVE  FirstOf(t) \in Buffered(t) /\ \A m \in Buffered(t) : FirstOf(t) <= m
<1>1. Buffered(t) \subseteq Nat
  BY BufferedPositions
<1>2. \E n \in Buffered(t) : \A m \in Buffered(t) : n <= m
  BY <1>1, LeastExists
<1> QED BY <1>2 DEF FirstOf

\* Among the tracks that hold something one has the lowest PTS.
LEMMA LowestHolds ==
  ASSUME IInv, Holding # {}
  PROVE  Lowest \in Holding
<1>1. ASSUME NEW t \in Holding PROVE t \in Tracks /\ NextPts(t) \in Nat
  <2>1. t \in Tracks /\ Buffered(t) # {}
    BY DEF Holding
  <2>2. FirstOf(t) \in Buffered(t)
    BY <2>1, FirstOfIsLeast
  <2>3. packets[t][FirstOf(t)] \in Positions
    BY <2>1, <2>2, BufferedPositions
  <2> QED BY <2>1, <2>3, PtsIsNat DEF NextPts, PtsAt
<1> DEFINE All   == {NextPts(t) : t \in Holding}
<1>2. PICK m \in All : \A n \in All : m <= n
  <2>1. All \subseteq Nat /\ All # {}
    BY <1>1
  <2> HIDE DEF All
  <2> QED BY <2>1, LeastExists
<1> DEFINE Least == {t \in Holding : NextPts(t) = m}
<1>3. PICK t \in Least : \A u \in Least : t <= u
  <2>1. Tracks \subseteq Nat
    BY DEF Tracks
  <2>2. Least \subseteq Nat /\ Least # {}
    BY <1>1, <1>2, <2>1
  <2> HIDE DEF Least
  <2> QED BY <2>2, LeastExists
<1>4. ASSUME NEW u \in Holding
      PROVE  NextPts(t) < NextPts(u) \/ (NextPts(t) = NextPts(u) /\ t <= u)
  <2>1. NextPts(t) <= NextPts(u) /\ NextPts(t) \in Nat /\ NextPts(u) \in Nat
    BY <1>1, <1>2, <1>3
  <2>2. NextPts(t) = NextPts(u) => t <= u
    BY <1>3
  <2> QED BY <2>1, <2>2
<1> QED BY <1>3, <1>4 DEF Lowest

-----------------------------------------------------------------------------
(* Reading the buffer *)

\* What a read leaves of the buffers.
LEMMA ReadPacketBuffers ==
  ASSUME IInv, NEW t \in Tracks, Buffered(t) # {}, ReadPacket(t), UNCHANGED <<newest, arrived>>
  PROVE  /\ DOMAIN packets' = Tracks /\ nextSeq' \in [Tracks -> Nat \cup {None}] /\ eosSent' \subseteq Tracks
         /\ \A u \in Tracks : StoredAt(u)' /\ ReadBehind(u)'
         /\ \A u \in Tracks \ {t} : packets'[u] = packets[u] /\ nextSeq'[u] = nextSeq[u]
         /\ nextSeq[t] <= nextSeq'[t] /\ \A m \in Buffered(t) : nextSeq'[t] <= m => m \in Buffered(t)'
<1> DEFINE n == FirstOf(t)
<1>1. n \in Buffered(t) /\ \A m \in Buffered(t) : n <= m
  BY FirstOfIsLeast
<1>2. n \in Nat /\ First <= n /\ First \in Nat /\ \A m \in Buffered(t) : m \in Nat
  BY <1>1, BufferedPositions, HalfARound
<1>3. DOMAIN packets = Tracks /\ nextSeq \in [Tracks -> Nat \cup {None}] /\ eosSent \subseteq Tracks
  BY DEF IInv, Types
<1>4. \A u \in Tracks : StoredAt(u) /\ ReadBehind(u)
  BY DEF IInv, TrackInv
<1>5. \/ /\ nextSeq[t] \notin {None, n} /\ nextSeq' = [nextSeq EXCEPT ![t] = @ + 1] /\ packets' = packets
      \/ /\ nextSeq' = [nextSeq EXCEPT ![t] = n + 1]
         /\ packets' = [packets EXCEPT ![t] = [m \in Buffered(t) \ {n} |-> @[m]]]
  BY DEF ReadPacket
<1> HIDE DEF n
<1>6. eosSent' \subseteq Tracks
  BY <1>3 DEF ReadPacket, Send
<1>7. ASSUME nextSeq[t] \notin {None, n}, nextSeq' = [nextSeq EXCEPT ![t] = @ + 1], packets' = packets
      PROVE  /\ nextSeq' \in [Tracks -> Nat \cup {None}] /\ \A u \in Tracks : StoredAt(u)' /\ ReadBehind(u)'
             /\ nextSeq[t] <= nextSeq'[t] /\ \A m \in Buffered(t) : nextSeq'[t] <= m => m \in Buffered(t)'
  <2>1. nextSeq[t] \in Nat /\ First <= nextSeq[t] /\ \A m \in Buffered(t) : nextSeq[t] <= m
    BY <1>3, <1>4, <1>7 DEF ReadBehind
  <2>2. ASSUME NEW m \in Buffered(t) PROVE nextSeq[t] + 1 <= m
    BY <1>1, <1>2, <1>7, <2>1
  <2>3. nextSeq'[t] = nextSeq[t] + 1 /\ \A u \in Tracks \ {t} : nextSeq'[u] = nextSeq[u]
    BY <1>3, <1>7
  <2>4. nextSeq' \in [Tracks -> Nat \cup {None}]
    BY <1>3, <1>7, <2>1
  <2>5. \A u \in Tracks : Buffered(u)' = Buffered(u) /\ StoredAt(u)'
    BY <1>4, <1>7 DEF StoredAt, Buffered
  <2>6. \A u \in Tracks : ReadBehind(u)'
    BY <1>2, <1>4, <2>1, <2>2, <2>3, <2>5 DEF ReadBehind
  <2> QED BY <2>1, <2>3, <2>4, <2>5, <2>6
<1>8. ASSUME nextSeq' = [nextSeq EXCEPT ![t] = n + 1],
             packets' = [packets EXCEPT ![t] = [m \in Buffered(t) \ {n} |-> @[m]]]
      PROVE  /\ nextSeq' \in [Tracks -> Nat \cup {None}] /\ \A u \in Tracks : StoredAt(u)' /\ ReadBehind(u)'
             /\ nextSeq[t] <= nextSeq'[t] /\ \A m \in Buffered(t) : nextSeq'[t] <= m => m \in Buffered(t)'
  <2>1. nextSeq'[t] = n + 1 /\ \A u \in Tracks \ {t} : nextSeq'[u] = nextSeq[u]
    BY <1>3, <1>8
  <2>2. packets'[t] = [m \in Buffered(t) \ {n} |-> packets[t][m]] /\ \A u \in Tracks \ {t} : packets'[u] = packets[u]
    BY <1>3, <1>8
  <2>3. Buffered(t)' = Buffered(t) \ {n} /\ \A u \in Tracks \ {t} : Buffered(u)' = Buffered(u)
    BY <2>2 DEF Buffered
  <2>4. nextSeq' \in [Tracks -> Nat \cup {None}]
    BY <1>2, <1>3, <1>8
  <2>5. packets[t] = [m \in Buffered(t) |-> m] /\ Buffered(t) \subseteq arrived[t]
    BY <1>4 DEF StoredAt
  <2>6. packets'[t] = [m \in Buffered(t) \ {n} |-> m]
    BY <2>2, <2>5
  <2>7. \A u \in Tracks : StoredAt(u)'
    BY <1>4, <2>2, <2>3, <2>5, <2>6 DEF StoredAt
  <2>8. ASSUME NEW m \in Buffered(t) \ {n} PROVE n + 1 <= m
    BY <1>1, <1>2
  <2>9. \A u \in Tracks : ReadBehind(u)'
    BY <1>2, <1>4, <2>1, <2>3, <2>8 DEF ReadBehind
  <2>10. nextSeq[t] <= nextSeq'[t]
    BY <1>1, <1>2, <1>3, <1>4, <2>1 DEF ReadBehind, None
  <2>11. ASSUME NEW m \in Buffered(t), nextSeq'[t] <= m PROVE m \in Buffered(t)'
    BY <1>2, <2>1, <2>3, <2>11
  <2> QED BY <2>4, <2>7, <2>9, <2>10, <2>11
<1>9. \A u \in Tracks \ {t} : packets'[u] = packets[u] /\ nextSeq'[u] = nextSeq[u]
  BY <1>3, <1>5
<1>10. DOMAIN packets' = Tracks
  BY <1>3, <1>5
<1> QED BY <1>5, <1>6, <1>7, <1>8, <1>9, <1>10

\* A read keeps what is not behind the reader.
LEMMA ReadKeeps ==
  ASSUME IInv, NEW t \in Tracks, Buffered(t) # {}, ReadPacket(t), UNCHANGED <<newest, arrived, msg>>
  PROVE  \A u \in Tracks : Kept(u) => Kept(u)'
<1>1. /\ nextSeq' \in [Tracks -> Nat \cup {None}]
      /\ \A u \in Tracks \ {t} : packets'[u] = packets[u] /\ nextSeq'[u] = nextSeq[u]
      /\ nextSeq[t] <= nextSeq'[t] /\ \A m \in Buffered(t) : nextSeq'[t] <= m => m \in Buffered(t)'
  BY ReadPacketBuffers
<1>2. \A u \in Tracks \ {t} : Kept(u) => Kept(u)'
  BY <1>1 DEF Kept, Pending, Buffered
<1>3. ASSUME Kept(t), NEW p \in arrived[t], p >= nextSeq'[t]
      PROVE  p \in Buffered(t)' \/ (Pending(t) /\ p = msg.at)
  <2>1. p \in Nat /\ nextSeq[t] \in Int /\ nextSeq'[t] \in Int
    BY <1>1, PositionsDown DEF IInv, Types, None
  <2>2. p >= nextSeq[t] /\ nextSeq'[t] <= p
    BY <1>1, <1>3, <2>1
  <2> QED BY <1>1, <1>3, <2>2 DEF Kept
<1>4. Kept(t) => Kept(t)'
  BY <1>3 DEF Kept, Pending
<1> QED BY <1>2, <1>4

\* A position is passed over only when packets a window apart are behind it.
LEMMA PassedOverIsOvertaken ==
  ASSUME IInv, NEW t \in Tracks, Readable(t), NEW p \in PassedOver(t)
  PROVE  /\ p \in Positions
         /\ \E a, b \in arrived[t] : a > p /\ b > p /\ Pts[t][a] >= Pts[t][b] + Window
<1> DEFINE n == FirstOf(t)
<1>1. n \in Buffered(t) /\ \A m \in Buffered(t) : n <= m
  BY FirstOfIsLeast DEF Readable
<1>2. /\ n \in Positions /\ n \in Nat /\ First <= n /\ n <= newest[t] /\ newest[t] \in Positions
      /\ newest[t] \in Nat /\ packets[t][n] = n
  BY <1>1, BufferedPositions, PositionsDown
<1>3. nextSeq[t] \in Nat \cup {None} /\ ReadBehind(t)
  BY DEF IInv, Types, TrackInv
<1> HIDE DEF n
<1>4. nextSeq[t] # n /\ p \in First .. n - 1
  <2>1. PassedOver(t) = IF nextSeq[t] = None THEN First .. n - 1
                        ELSE IF nextSeq[t] = n THEN {} ELSE {nextSeq[t]}
    BY <1>2 DEF PassedOver, n
  <2>2. ASSUME nextSeq[t] = None PROVE nextSeq[t] # n /\ p \in First .. n - 1
    BY <1>2, <2>1, <2>2, HalfARound DEF None
  <2>3. ASSUME nextSeq[t] # None PROVE nextSeq[t] # n /\ p \in First .. n - 1
    BY <1>1, <1>2, <1>3, <2>1, <2>3, HalfARound DEF ReadBehind
  <2> QED BY <2>2, <2>3
<1>5. p \in First .. n /\ p \in Nat /\ p < n
  BY <1>2, <1>4, HalfARound
<1>6. PICK a \in Buffered(t), b \in Buffered(t) : PtsAt(t, a) >= PtsAt(t, b) + Window
  BY <1>4 DEF Readable, WindowFull, n
<1>7. /\ a \in arrived[t] /\ a \in Nat /\ n <= a /\ packets[t][a] = a
      /\ b \in arrived[t] /\ b \in Nat /\ n <= b /\ packets[t][b] = b
  BY <1>1, BufferedPositions
<1>8. Pts[t][a] >= Pts[t][b] + Window
  BY <1>6, <1>7 DEF PtsAt
<1>9. p < a /\ p < b
  BY <1>2, <1>5, <1>7
<1>10. p \in Positions
  BY <1>2, <1>5, PositionsDown
<1> QED BY <1>7, <1>8, <1>9, <1>10

-----------------------------------------------------------------------------
(* The steps *)

LEMMA NearSame ==
  ASSUME UNCHANGED <<newest, arrived, rollover, msg>>, NEW t
  PROVE  Near(t)' <=> Near(t)
BY DEF Near, Pending

LEMMA BuffersSame ==
  ASSUME UNCHANGED <<newest, arrived, bufVars, givenUp>>, NEW t
  PROVE  /\ StoredAt(t)' <=> StoredAt(t)
         /\ ReadBehind(t)' <=> ReadBehind(t)
         /\ Overtaken(t)' <=> Overtaken(t)
         /\ Readable(t)' <=> Readable(t)
BY DEF StoredAt, ReadBehind, Overtaken, Readable, Buffered, FirstOf, WindowFull, PtsAt, bufVars

LEMMA KeptSame ==
  ASSUME UNCHANGED <<arrived, bufVars, msg>>, NEW t
  PROVE  Kept(t)' <=> Kept(t)
BY DEF Kept, Pending, Buffered, bufVars

LEMMA ReadableSame ==
  ASSUME NEW t, packets'[t] = packets[t], nextSeq'[t] = nextSeq[t]
  PROVE  Readable(t)' <=> Readable(t)
BY DEF Readable, Buffered, FirstOf, WindowFull, PtsAt

\* A read within the window.
LEMMA ReadInWindowStep ==
  ASSUME IInv, NEW t \in Tracks, Readable(t), ReadInWindow(t), UNCHANGED <<newest, arrived, rollover, msg, pc>>
  PROVE  /\ DOMAIN packets' = Tracks /\ nextSeq' \in [Tracks -> Nat \cup {None}] /\ eosSent' \subseteq Tracks
         /\ givenUp' \in [Tracks -> SUBSET Positions]
         /\ \A u \in Tracks : TrackInv(u)'
         /\ \A u \in Tracks \ {t} : Readable(u)' <=> Readable(u)
<1>1. Buffered(t) # {} /\ ReadPacket(t)
  BY DEF Readable, ReadInWindow
<1>2. /\ DOMAIN packets' = Tracks /\ nextSeq' \in [Tracks -> Nat \cup {None}] /\ eosSent' \subseteq Tracks
      /\ \A u \in Tracks : StoredAt(u)' /\ ReadBehind(u)'
      /\ \A u \in Tracks \ {t} : packets'[u] = packets[u] /\ nextSeq'[u] = nextSeq[u]
  BY <1>1, ReadPacketBuffers
<1>3. givenUp \in [Tracks -> SUBSET Positions] /\ givenUp' = [givenUp EXCEPT ![t] = @ \cup PassedOver(t)]
  BY DEF IInv, Types, ReadInWindow
<1>4. givenUp'[t] = givenUp[t] \cup PassedOver(t) /\ \A u \in Tracks \ {t} : givenUp'[u] = givenUp[u]
  BY <1>3
<1>5. \A p \in PassedOver(t) :
        /\ p \in Positions
        /\ \E a, b \in arrived[t] : a > p /\ b > p /\ Pts[t][a] >= Pts[t][b] + Window
  BY PassedOverIsOvertaken
<1>6. givenUp' \in [Tracks -> SUBSET Positions]
  BY <1>3, <1>5
<1>7. \A u \in Tracks : Overtaken(u)
  BY DEF IInv, TrackInv
<1>8. \A u \in Tracks : Overtaken(u)'
  BY <1>4, <1>5, <1>7 DEF Overtaken
<1>9. \A u \in Tracks : TrackInv(u)'
  BY <1>1, <1>2, <1>8, NearSame, ReadKeeps DEF IInv, TrackInv
<1> QED BY <1>2, <1>6, <1>9, ReadableSame

LEMMA MergeStep ==
  ASSUME IInv, Merge
  PROVE  IInv'
<1>1. pc = "merge" /\ UNCHANGED <<newest, arrived, open, alive, msg, rollover, ssrcKnown>>
  BY DEF Merge, netVars
<1>2. ASSUME Holding # {}, Readable(Lowest), ReadInWindow(Lowest), UNCHANGED <<pc, at>>
      PROVE  IInv'
  <2>1. Lowest \in Tracks
    BY <1>2, LowestHolds DEF Holding
  <2>2. /\ DOMAIN packets' = Tracks /\ nextSeq' \in [Tracks -> Nat \cup {None}] /\ eosSent' \subseteq Tracks
        /\ givenUp' \in [Tracks -> SUBSET Positions]
        /\ \A u \in Tracks : TrackInv(u)'
    BY <1>1, <1>2, <2>1, ReadInWindowStep
  <2>3. Types' /\ MsgOrder'
    BY <1>1, <1>2, <2>2 DEF IInv, Types, MsgOrder
  <2>4. Drained' /\ ReadOut'
    BY <1>1, <1>2 DEF Drained, ReadOut
  <2> QED BY <2>2, <2>3, <2>4 DEF IInv
<1>3. ASSUME pc' = "drain", at' = 1, UNCHANGED <<packets, nextSeq, eosSent, event, givenUp>>
      PROVE  IInv'
  <2>1. 1 \in Tracks /\ \A t \in Tracks : ~(t < 1)
    BY StreamAssumption DEF Tracks
  <2>2. Types' /\ MsgOrder'
    BY <1>1, <1>3, <2>1 DEF IInv, Types, MsgOrder
  <2>3. Drained' /\ ReadOut'
    BY <1>3, <2>1 DEF Drained, ReadOut
  <2>4. \A t \in Tracks : TrackInv(t)'
    BY <1>1, <1>3, NearSame, KeptSame, BuffersSame DEF IInv, TrackInv, bufVars
  <2> QED BY <2>2, <2>3, <2>4 DEF IInv
<1> QED BY <1>2, <1>3 DEF Merge

LEMMA AfterProcessPlaces ==
  ASSUME IInv, pc = "drain"
  PROVE  /\ AfterProcess \in {"recv", "end", "flush", "handle"}
         /\ AfterProcess = "handle" => msg.kind = "rtp"
         /\ AfterProcess = "flush" => msg.kind = "bye"
<1>1. msg \in Messages /\ msg # NoEvent
  BY DEF IInv, Types, MsgOrder
<1>2. ASSUME msg \notin {Timeout, Closed, Handled} PROVE msg.kind \in {"rtp", "bye"}
  BY <1>1, <1>2 DEF Messages
<1> QED BY <1>2 DEF AfterProcess

LEMMA DrainStep ==
  ASSUME IInv, Drain
  PROVE  IInv'
<1>1. pc = "drain" /\ UNCHANGED <<newest, arrived, open, alive, rollover, ssrcKnown>>
  BY DEF Drain, netVars
<1>2. at \in Tracks /\ Drained
  BY DEF IInv, Types
<1>3. ASSUME Readable(at), ReadInWindow(at), UNCHANGED <<pc, at, msg>>
      PROVE  IInv'
  <2>1. /\ DOMAIN packets' = Tracks /\ nextSeq' \in [Tracks -> Nat \cup {None}] /\ eosSent' \subseteq Tracks
        /\ givenUp' \in [Tracks -> SUBSET Positions]
        /\ \A u \in Tracks : TrackInv(u)'
        /\ \A u \in Tracks \ {at} : Readable(u)' <=> Readable(u)
    BY <1>1, <1>2, <1>3, ReadInWindowStep
  <2>2. Types' /\ MsgOrder'
    BY <1>1, <1>3, <2>1 DEF IInv, Types, MsgOrder
  <2>3. \A t \in Tracks : ~(at < at)
    BY <1>2 DEF Tracks
  <2>4. Drained' /\ ReadOut'
    BY <1>1, <1>2, <1>3, <2>1, <2>3 DEF Drained, ReadOut
  <2> QED BY <2>1, <2>2, <2>4 DEF IInv
<1>4. ASSUME ~Readable(at), UNCHANGED <<packets, nextSeq, eosSent, event, givenUp>>,
             at < NumTracks, at' = at + 1, UNCHANGED <<pc, msg>>
      PROVE  IInv'
  <2>1. at' \in Tracks /\ \A t \in Tracks : t < at' => t < at \/ t = at
    BY <1>2, <1>4, StreamAssumption DEF Tracks
  <2>2. Types' /\ MsgOrder'
    BY <1>1, <1>4, <2>1 DEF IInv, Types, MsgOrder
  <2>3. \A t \in Tracks : (Readable(t)' <=> Readable(t)) /\ TrackInv(t)'
    BY <1>1, <1>4, NearSame, KeptSame, BuffersSame DEF IInv, TrackInv, bufVars
  <2>4. Drained' /\ ReadOut'
    BY <1>1, <1>2, <1>4, <2>1, <2>3 DEF Drained, ReadOut
  <2> QED BY <2>2, <2>3, <2>4 DEF IInv
<1>5. ASSUME ~Readable(at), UNCHANGED <<packets, nextSeq, eosSent, event, givenUp>>,
             ~(at < NumTracks), pc' = AfterProcess, UNCHANGED at,
             msg' = IF pc' \in {"handle", "flush"} THEN msg ELSE NoEvent
      PROVE  IInv'
  <2>1. \A t \in Tracks : t < at \/ t = at
    BY <1>2, <1>5, StreamAssumption DEF Tracks
  <2>2. /\ pc' \in {"recv", "end", "flush", "handle"}
        /\ pc' = "handle" => msg'.kind = "rtp"
        /\ pc' = "flush" => msg'.kind = "bye"
        /\ pc' \in {"recv", "end"} => msg' = NoEvent
    BY <1>1, <1>5, AfterProcessPlaces
  <2>3. msg' \in Messages
    BY <1>5 DEF IInv, Types, Messages
  <2>4. Types' /\ MsgOrder'
    BY <1>1, <1>5, <2>2, <2>3 DEF IInv, Types, MsgOrder
  <2>5. \A t \in Tracks : (Readable(t)' <=> Readable(t)) /\ StoredAt(t)' /\ ReadBehind(t)' /\ Overtaken(t)'
    BY <1>1, <1>5, BuffersSame DEF IInv, TrackInv, bufVars
  <2>6. Drained' /\ ReadOut'
    BY <1>1, <1>2, <1>5, <2>1, <2>2, <2>5 DEF Drained, ReadOut
  <2>7. ASSUME NEW t \in Tracks, pc' # "end" PROVE Near(t)' /\ Kept(t)'
    <3>1. Near(t) /\ Kept(t) /\ UNCHANGED bufVars
      BY <1>1, <1>5 DEF IInv, TrackInv, bufVars
    <3>2. ASSUME msg' = msg PROVE Near(t)' /\ Kept(t)'
      BY <1>1, <3>1, <3>2, NearSame, KeptSame
    <3>3. ASSUME pc' = "recv" PROVE Near(t)' /\ Kept(t)'
      <4>1. msg \in {Timeout, Handled}
        BY <1>5, <3>3 DEF AfterProcess
      <4>2. ~Pending(t) /\ ~Pending(t)'
        BY <2>2, <3>3, <4>1 DEF Pending, Timeout, Handled, NoEvent
      <4>3. Near(t)'
        BY <1>1, <3>1, <4>2 DEF Near
      <4>4. Kept(t)'
        BY <1>1, <3>1, <4>2 DEF Kept, Buffered, bufVars
      <4> QED BY <4>3, <4>4
    <3> QED BY <1>5, <2>2, <2>7, <3>2, <3>3
  <2>8. \A t \in Tracks : TrackInv(t)'
    BY <2>2, <2>5, <2>7 DEF TrackInv
  <2> QED BY <2>4, <2>6, <2>8 DEF IInv
<1> QED BY <1>3, <1>4, <1>5 DEF Drain

\* What is remembered of a track does not depend on packets that arrive later.
LEMMA ArrivalsGrow ==
  ASSUME IInv, NEW t \in Tracks, UNCHANGED <<bufVars, givenUp>>,
         arrived[t] \subseteq arrived[t]', arrived[t]' \subseteq First .. newest[t]'
  PROVE  StoredAt(t)' /\ ReadBehind(t)' /\ Overtaken(t)'
<1>1. StoredAt(t) /\ ReadBehind(t) /\ Overtaken(t)
  BY DEF IInv, TrackInv
<1>2. StoredAt(t)'
  BY <1>1 DEF StoredAt, Buffered, bufVars
<1>3. ReadBehind(t)'
  BY <1>1 DEF ReadBehind, Buffered, bufVars
<1>4. Overtaken(t)'
  BY <1>1 DEF Overtaken
<1> QED BY <1>2, <1>3, <1>4

\* A packet that arrives is less than half a round from the last number.
LEMMA ArrivalIsNear ==
  ASSUME IInv, pc = "recv", NEW t \in Tracks, NEW p \in Positions, Arrives(t, p),
         msg' = [kind |-> "rtp", track |-> t, at |-> p],
         newest' = [newest EXCEPT ![t] = IF p > @ THEN p ELSE @],
         arrived' = [arrived EXCEPT ![t] = @ \cup {p}], UNCHANGED <<rollover, packets, nextSeq>>
  PROVE  /\ newest' \in [Tracks -> {First - 1} \cup Positions] /\ arrived' \in [Tracks -> SUBSET Positions]
         /\ \A u \in Tracks : Near(u)' /\ Kept(u)'
         /\ \A u \in Tracks : arrived[u] \subseteq arrived'[u] /\ arrived'[u] \subseteq First .. newest'[u]
<1>1. newest \in [Tracks -> {First - 1} \cup Positions] /\ rollover[t] \in Counters /\ msg = NoEvent
  BY DEF IInv, Types, MsgOrder
<1>2. First \in Nat /\ MaxLate \in Nat /\ MaxSkip \in Nat /\ Positions \subseteq Nat /\ First <= p /\ p \in Nat
  BY HalfARound, PositionsDown
<1>3. \A u \in Tracks : newest[u] \in Int
  BY <1>1, NewestIsInt
<1>4. /\ newest' \in [Tracks -> {First - 1} \cup Positions]
      /\ newest'[t] = IF p > newest[t] THEN p ELSE newest[t]
      /\ \A u \in Tracks \ {t} : newest'[u] = newest[u]
  BY <1>1
<1>5. /\ arrived' \in [Tracks -> SUBSET Positions]
      /\ arrived'[t] = arrived[t] \cup {p}
      /\ \A u \in Tracks \ {t} : arrived'[u] = arrived[u]
  BY DEF IInv, Types
<1>6. \A u \in Tracks : Near(u) /\ Kept(u) /\ StoredAt(u) /\ ~Pending(u)
  BY <1>1 DEF IInv, TrackInv, Pending, NoEvent
<1>7. Pending(t)' /\ \A u \in Tracks \ {t} : ~Pending(u)'
  BY DEF Pending
<1>8. msg'.at = p /\ p > newest[t] - MaxLate /\ p <= newest[t] + 1 + MaxSkip
  BY DEF Arrives
<1>9. msg'.at \in arrived'[t] /\ msg'.at \in First .. newest'[t] /\ msg'.at >= newest'[t] - MaxLate
  BY <1>2, <1>3, <1>4, <1>5, <1>8
<1>10. ASSUME rollover[t].last = None
       PROVE  rollover[t].count = 0 /\ newest'[t] <= First + MaxSkip
  <2>1. rollover[t].count = 0 /\ ~(newest[t] >= First)
    BY <1>6, <1>10 DEF Near
  <2>2. newest[t] = First - 1
    BY <1>1, <1>3, <2>1, PositionsDown
  <2> QED BY <1>2, <1>4, <1>8, <2>1, <2>2
<1>11. ASSUME rollover[t].last # None
       PROVE  /\ Number(rollover[t]) \in Nat /\ Number(rollover[t]) <= newest'[t]
              /\ Number(rollover[t]) >= newest'[t] - MaxLate - (MaxSkip + 1)
  <2>1. /\ Number(rollover[t]) \in Nat /\ Number(rollover[t]) <= newest[t]
        /\ Number(rollover[t]) >= newest[t] - MaxLate - 0
    BY <1>6, <1>11 DEF Near
  <2> QED BY <1>2, <1>3, <1>4, <1>8, <2>1
<1>12. Near(t)'
  BY <1>7, <1>9, <1>10, <1>11 DEF Near
<1>13. ASSUME NEW u \in Tracks \ {t} PROVE Near(u)'
  BY <1>4, <1>6, <1>7, <1>13 DEF Near
<1>14. Kept(t)' /\ \A u \in Tracks \ {t} : Kept(u)'
  BY <1>5, <1>6, <1>7, <1>8 DEF Kept, Buffered
<1>15. ASSUME NEW u \in Tracks
       PROVE  arrived[u] \subseteq arrived'[u] /\ arrived'[u] \subseteq First .. newest'[u]
  <2>1. arrived[u] \subseteq First .. newest[u] /\ newest[u] \in Int
    BY <1>3, <1>6 DEF StoredAt
  <2> QED BY <1>2, <1>4, <1>5, <2>1
<1> QED BY <1>4, <1>5, <1>12, <1>13, <1>14, <1>15

LEMMA ReceiveStep ==
  ASSUME IInv, Receive
  PROVE  IInv'
<1>1. pc = "recv" /\ pc' = "merge" /\ UNCHANGED <<open, alive, at, bufVars, ssrcKnown, eosSent, event, givenUp>>
  BY DEF Receive
<1>2. UNCHANGED <<rollover, packets, nextSeq>>
  BY <1>1 DEF bufVars
<1>3. ASSUME msg' \in Messages, msg' # NoEvent,
             newest' \in [Tracks -> {First - 1} \cup Positions], arrived' \in [Tracks -> SUBSET Positions],
             \A u \in Tracks : Near(u)' /\ Kept(u)',
             \A u \in Tracks : arrived[u] \subseteq arrived'[u] /\ arrived'[u] \subseteq First .. newest'[u]
      PROVE  IInv'
  <2>1. Types' /\ MsgOrder'
    BY <1>1, <1>2, <1>3 DEF IInv, Types, MsgOrder
  <2>2. Drained' /\ ReadOut'
    BY <1>1 DEF Drained, ReadOut
  <2>3. ASSUME NEW t \in Tracks PROVE TrackInv(t)'
    <3>1. StoredAt(t)' /\ ReadBehind(t)' /\ Overtaken(t)'
      BY <1>1, <1>3, ArrivalsGrow
    <3> QED BY <1>3, <3>1 DEF TrackInv
  <2> QED BY <2>1, <2>2, <2>3 DEF IInv
<1>4. ASSUME msg' \in Messages, msg' # NoEvent, msg'.kind # "rtp", UNCHANGED <<newest, arrived>>
      PROVE  IInv'
  <2>1. newest' \in [Tracks -> {First - 1} \cup Positions] /\ arrived' \in [Tracks -> SUBSET Positions]
    BY <1>4 DEF IInv, Types
  <2>2. msg = NoEvent
    BY <1>1 DEF IInv, MsgOrder
  <2>3. ASSUME NEW u \in Tracks PROVE Near(u)' /\ Kept(u)'
    <3>1. Near(u) /\ Kept(u) /\ ~Pending(u) /\ ~Pending(u)'
      BY <1>1, <1>4, <2>2 DEF IInv, TrackInv, Pending, NoEvent
    <3> QED BY <1>2, <1>4, <3>1 DEF Near, Kept, Buffered
  <2>4. \A u \in Tracks : arrived[u] \subseteq arrived'[u] /\ arrived'[u] \subseteq First .. newest'[u]
    BY <1>4 DEF IInv, TrackInv, StoredAt
  <2> QED BY <1>3, <1>4, <2>1, <2>3, <2>4
<1>5. ASSUME NEW t \in Tracks, NEW p \in Positions, Arrives(t, p),
             msg' = [kind |-> "rtp", track |-> t, at |-> p],
             newest' = [newest EXCEPT ![t] = IF p > @ THEN p ELSE @],
             arrived' = [arrived EXCEPT ![t] = @ \cup {p}]
      PROVE  IInv'
  <2>1. msg' \in Messages /\ msg' # NoEvent
    BY <1>5 DEF Messages, NoEvent
  <2> QED BY <1>1, <1>2, <1>3, <1>5, <2>1, ArrivalIsNear
<1>6. ASSUME msg' \in {Timeout, Closed}, UNCHANGED <<newest, arrived>> PROVE IInv'
  BY <1>4, <1>6 DEF Messages, Timeout, Closed, NoEvent
<1>7. ASSUME NEW of \in SUBSET Tracks, msg' = [kind |-> "bye", of |-> of], UNCHANGED <<newest, arrived>> PROVE IInv'
  BY <1>4, <1>7 DEF Messages, NoEvent
<1> QED BY <1>5, <1>6, <1>7 DEF Receive

\* A packet gets its position back as its number.
LEMMA NumberIsPosition ==
  ASSUME IInv, NEW t \in Tracks, pc = "handle", Pending(t)
  PROVE  LET r == Rolled(rollover[t], Wire(msg.at))
         IN  r \in Counters /\ Number(r) = msg.at /\ r.last # None
<1> DEFINE p == msg.at
           q == Number(rollover[t])
<1>1. rollover[t] \in Counters /\ newest[t] \in {First - 1} \cup Positions /\ Near(t)
  BY DEF IInv, Types, TrackInv
<1>2. newest[t] \in Int /\ First \in Nat /\ MaxLate \in Nat /\ MaxSkip \in Nat /\ Half \in Nat
      /\ MaxLate + MaxSkip + 1 < Half /\ First + MaxSkip < SeqMod /\ SeqMod \in Nat
  BY <1>1, NewestIsInt, HalfARound
<1>3. p \in Nat /\ p <= newest[t] /\ p >= newest[t] - MaxLate
  BY <1>1, <1>2 DEF Near
<1>4. Rolled(rollover[t], Wire(p)).last # None
  BY <1>3, RolledLast
<1>5. ASSUME rollover[t].last = None
      PROVE  Rolled(rollover[t], Wire(p)) \in Counters /\ Number(Rolled(rollover[t], Wire(p))) = p
  <2>1. rollover[t].count = 0 /\ p < SeqMod
    BY <1>1, <1>2, <1>3, <1>5 DEF Near
  <2> QED BY <1>1, <1>3, <1>5, <2>1, FirstRound
<1>6. ASSUME rollover[t].last # None
      PROVE  Rolled(rollover[t], Wire(p)) \in Counters /\ Number(Rolled(rollover[t], Wire(p))) = p
  <2>1. q \in Nat /\ q <= newest[t] /\ q >= newest[t] - MaxLate - (MaxSkip + 1)
    BY <1>1, <1>6 DEF Near
  <2>2. p - q < Half /\ q - p < Half
    BY <1>2, <1>3, <2>1
  <2> QED BY <1>1, <1>3, <1>6, <2>1, <2>2, RolledRight
<1> QED BY <1>4, <1>5, <1>6

LEMMA HandlePacketStep ==
  ASSUME IInv, HandlePacket
  PROVE  IInv'
<1>1. /\ pc = "handle" /\ pc' = "merge" /\ msg' = Handled /\ WritePacket(msg.track, msg.at)
      /\ UNCHANGED <<newest, arrived, open, alive, at, eosSent, event, givenUp>>
  BY DEF HandlePacket, netVars
<1>2. PICK t \in Tracks : t = msg.track /\ Pending(t)
  <2>1. msg \in Messages /\ msg.kind = "rtp"
    BY <1>1 DEF IInv, Types, MsgOrder
  <2> QED BY <2>1 DEF Messages, NoEvent, Timeout, Closed, Handled, Pending
<1>3. PICK p : p = msg.at
  OBVIOUS
<1>r. PICK r \in Counters : r = Rolled(rollover[t], Wire(p)) /\ Number(r) = p /\ r.last # None
  BY <1>1, <1>2, <1>3, NumberIsPosition
<1>4. Near(t) /\ newest[t] \in {First - 1} \cup Positions /\ newest[t] \in Int
  BY <1>1, <1>2, NewestIsInt DEF IInv, Types, TrackInv
<1>5. First \in Nat /\ p \in arrived[t] /\ p \in First .. newest[t] /\ p \in Nat /\ p >= newest[t] - MaxLate - 0
  BY <1>2, <1>3, <1>4, HalfARound DEF Near
<1>6. /\ rollover' = [rollover EXCEPT ![t] = r] /\ nextSeq' = nextSeq /\ ssrcKnown' = ssrcKnown \cup {t}
      /\ \/ packets' = packets /\ nextSeq[t] # None /\ nextSeq[t] > p
         \/ /\ nextSeq[t] = None \/ ~(nextSeq[t] > p)
            /\ packets' = [packets EXCEPT ![t] = [m \in Buffered(t) \cup {p} |-> IF m = p THEN p ELSE @[m]]]
  BY <1>1, <1>2, <1>3, <1>r DEF WritePacket, TooOld
<1>7. /\ rollover \in [Tracks -> Counters] /\ DOMAIN packets = Tracks /\ nextSeq \in [Tracks -> Nat \cup {None}]
      /\ \A u \in Tracks : StoredAt(u) /\ ReadBehind(u) /\ Overtaken(u) /\ Near(u) /\ Kept(u)
  BY <1>1 DEF IInv, Types, TrackInv
<1>8. /\ rollover' \in [Tracks -> Counters] /\ rollover'[t] = r
      /\ \A u \in Tracks \ {t} : rollover'[u] = rollover[u]
  BY <1>2, <1>r, <1>6, <1>7
<1>9. DOMAIN packets' = Tracks
  BY <1>6, <1>7
<1>10. Types' /\ MsgOrder'
  <2>1. Handled \in Messages /\ Handled # NoEvent
    BY DEF Messages, Handled, NoEvent
  <2> QED BY <1>1, <1>2, <1>6, <1>8, <1>9, <2>1 DEF IInv, Types, MsgOrder
<1>11. Drained' /\ ReadOut'
  BY <1>1 DEF Drained, ReadOut
<1>12. \A u \in Tracks : StoredAt(u)' /\ ReadBehind(u)'
  <2>1. ASSUME packets' = packets PROVE \A u \in Tracks : StoredAt(u)' /\ ReadBehind(u)'
    BY <1>1, <1>6, <1>7, <2>1 DEF StoredAt, ReadBehind, Buffered
  <2>2. ASSUME nextSeq[t] = None \/ ~(nextSeq[t] > p),
               packets' = [packets EXCEPT ![t] = [m \in Buffered(t) \cup {p} |-> IF m = p THEN p ELSE @[m]]]
        PROVE  \A u \in Tracks : StoredAt(u)' /\ ReadBehind(u)'
    <3>1. /\ packets'[t] = [m \in Buffered(t) \cup {p} |-> IF m = p THEN p ELSE packets[t][m]]
          /\ \A u \in Tracks \ {t} : packets'[u] = packets[u]
      BY <1>2, <1>7, <2>2
    <3>2. Buffered(t)' = Buffered(t) \cup {p} /\ \A u \in Tracks \ {t} : Buffered(u)' = Buffered(u)
      BY <3>1 DEF Buffered
    <3>3. packets[t] = [m \in Buffered(t) |-> m] /\ Buffered(t) \subseteq arrived[t]
      BY <1>2, <1>7 DEF StoredAt
    <3>4. packets'[t] = [m \in Buffered(t) \cup {p} |-> m]
      BY <3>1, <3>3
    <3>5. \A u \in Tracks : StoredAt(u)'
      BY <1>1, <1>5, <1>7, <3>1, <3>2, <3>3, <3>4 DEF StoredAt
    <3>6. nextSeq[t] # None => nextSeq[t] <= p
      BY <1>2, <1>5, <1>7, <2>2
    <3>7. \A u \in Tracks : ReadBehind(u)'
      BY <1>6, <1>7, <3>2, <3>6 DEF ReadBehind
    <3> QED BY <3>5, <3>7
  <2> QED BY <1>6, <2>1, <2>2
<1>13. \A u \in Tracks : Overtaken(u)'
  BY <1>1, <1>7 DEF Overtaken
<1>14. \A u \in Tracks : ~Pending(u)'
  BY <1>1 DEF Pending, Handled
<1>15. Near(t)'
  <2>1. Number(r) \in Nat /\ Number(r) <= newest[t] /\ Number(r) >= newest[t] - MaxLate - 0
    BY <1>r, <1>4, <1>5
  <2> QED BY <1>1, <1>r, <1>8, <1>14, <1>2, <2>1 DEF Near
<1>16. ASSUME NEW u \in Tracks \ {t} PROVE Near(u)'
  <2>1. ~Pending(u)
    BY <1>2 DEF Pending
  <2> QED BY <1>1, <1>7, <1>8, <1>14, <2>1 DEF Near
<1>17. ASSUME NEW u \in Tracks, NEW q \in arrived[u], q >= nextSeq[u] PROVE q \in Buffered(u)'
  <2>1. q \in Buffered(u) \/ (u = t /\ q = p)
    BY <1>2, <1>3, <1>7, <1>17 DEF Kept, Pending
  <2>2. CASE packets' = packets /\ nextSeq[t] # None /\ nextSeq[t] > p
    <3>1. Buffered(u)' = Buffered(u)
      BY <2>2 DEF Buffered
    <3>2. ~(u = t /\ q = p)
      BY <1>5, <1>7, <1>17, <2>2
    <3> QED BY <2>1, <3>1, <3>2
  <2>3. CASE packets' = [packets EXCEPT ![t] = [m \in Buffered(t) \cup {p} |-> IF m = p THEN p ELSE @[m]]]
    <3>1. Buffered(t)' = Buffered(t) \cup {p} /\ \A v \in Tracks \ {t} : Buffered(v)' = Buffered(v)
      BY <1>2, <1>7, <2>3 DEF Buffered
    <3> QED BY <2>1, <3>1
  <2> QED BY <1>6, <2>2, <2>3
<1>18. \A u \in Tracks : Kept(u)'
  BY <1>1, <1>6, <1>17 DEF Kept
<1>19. \A u \in Tracks : TrackInv(u)'
  BY <1>12, <1>13, <1>15, <1>16, <1>18 DEF TrackInv
<1> QED BY <1>10, <1>11, <1>19 DEF IInv

LEMMA HandleGoodbyeStep ==
  ASSUME IInv, HandleGoodbye
  PROVE  IInv'
<1>1. pc = "flush" /\ UNCHANGED <<newest, arrived, open, alive, at, rollover, ssrcKnown, givenUp>>
  BY DEF HandleGoodbye, netVars
<1>2. \A u \in Tracks : StoredAt(u) /\ ReadBehind(u) /\ Overtaken(u) /\ Near(u) /\ Kept(u)
  BY <1>1 DEF IInv, TrackInv
<1>3. ASSUME Holding # {}, ReadPacket(Lowest), UNCHANGED <<pc, msg>>
      PROVE  IInv'
  <2>1. Lowest \in Tracks /\ Buffered(Lowest) # {}
    BY <1>3, LowestHolds DEF Holding
  <2>2. /\ DOMAIN packets' = Tracks /\ nextSeq' \in [Tracks -> Nat \cup {None}] /\ eosSent' \subseteq Tracks
        /\ \A u \in Tracks : StoredAt(u)' /\ ReadBehind(u)'
    BY <1>1, <1>3, <2>1, ReadPacketBuffers
  <2>3. Types' /\ MsgOrder'
    BY <1>1, <1>3, <2>2 DEF IInv, Types, MsgOrder
  <2>4. Drained' /\ ReadOut'
    BY <1>1, <1>3 DEF Drained, ReadOut
  <2>5. \A u \in Tracks : Overtaken(u)' /\ Near(u)' /\ Kept(u)'
    BY <1>1, <1>2, <1>3, <2>1, NearSame, ReadKeeps DEF Overtaken
  <2>6. \A u \in Tracks : TrackInv(u)'
    BY <2>2, <2>5 DEF TrackInv
  <2> QED BY <2>3, <2>4, <2>6 DEF IInv
<1>4. ASSUME pc' = "merge", msg' = Handled, eosSent' = eosSent \cup (msg.of \cap ssrcKnown),
             UNCHANGED <<packets, nextSeq, event>>
      PROVE  IInv'
  <2>1. Handled \in Messages /\ Handled # NoEvent
    BY DEF Messages, Handled, NoEvent
  <2>2. Types' /\ MsgOrder'
    BY <1>1, <1>4, <2>1 DEF IInv, Types, MsgOrder
  <2>3. Drained' /\ ReadOut'
    BY <1>4 DEF Drained, ReadOut
  <2>4. msg.kind = "bye"
    BY <1>1 DEF IInv, MsgOrder
  <2>5. ASSUME NEW u \in Tracks PROVE TrackInv(u)'
    <3>1. ~Pending(u) /\ ~Pending(u)'
      BY <1>4, <2>4 DEF Pending, Handled
    <3>2. Near(u)' /\ Kept(u)'
      BY <1>1, <1>2, <1>4, <3>1 DEF Near, Kept, Buffered
    <3> QED BY <1>1, <1>2, <1>4, <3>2, BuffersSame DEF TrackInv, bufVars
  <2> QED BY <2>2, <2>3, <2>5 DEF IInv
<1> QED BY <1>3, <1>4 DEF HandleGoodbye

\* The end of the thread, of the connection, of a decoder.
LEMMA OtherSteps ==
  ASSUME IInv, Finish \/ Disconnect \/ (\E t \in Tracks : DecoderEnds(t)) \/ UNCHANGED vars
  PROVE  IInv'
<1>1. UNCHANGED <<newest, arrived, at, msg, bufVars, ssrcKnown, givenUp>>
  BY DEF Finish, Disconnect, DecoderEnds, vars, netVars
<1>2. (pc' = pc \/ pc' = "done") /\ open' \in BOOLEAN /\ alive' \subseteq Tracks /\ eosSent' \subseteq Tracks
  BY DEF Finish, Disconnect, DecoderEnds, vars, netVars, IInv, Types
<1>3. Types' /\ MsgOrder'
  BY <1>1, <1>2 DEF IInv, Types, MsgOrder, bufVars
<1>4. \A t \in Tracks : (Readable(t)' <=> Readable(t)) /\ StoredAt(t)' /\ ReadBehind(t)' /\ Overtaken(t)'
  BY <1>1, BuffersSame DEF IInv, TrackInv
<1>5. Drained' /\ ReadOut'
  BY <1>1, <1>2, <1>4 DEF IInv, Drained, ReadOut
<1>6. \A t \in Tracks : TrackInv(t)'
  BY <1>1, <1>2, <1>4, NearSame, KeptSame DEF IInv, TrackInv, bufVars
<1> QED BY <1>3, <1>5, <1>6 DEF IInv

LEMMA NextIInv ==
  ASSUME IInv, [Next]_vars
  PROVE  IInv'
BY ReceiveStep, MergeStep, DrainStep, HandlePacketStep, HandleGoodbyeStep, OtherSteps DEF Next, Thread

LEMMA InitIInv == Init => IInv
<1> SUFFICES ASSUME Init PROVE IInv
  OBVIOUS
<1>1. First \in Nat /\ MaxSkip \in Nat /\ 1 \in Tracks
  BY HalfARound, StreamAssumption DEF Tracks
<1>2. Types
  <2>1. NoEvent \in Messages
    BY DEF Messages
  <2>2. rollover \in [Tracks -> Counters]
    BY DEF Init, Counters
  <2> QED BY <1>1, <2>1, <2>2 DEF Init, Types
<1>3. \A t \in Tracks : Buffered(t) = {} /\ packets[t] = <<>>
  BY DEF Init, Buffered
<1>4. ASSUME NEW t \in Tracks PROVE TrackInv(t)
  <2>1. StoredAt(t) /\ ReadBehind(t)
    BY <1>3 DEF Init, StoredAt, ReadBehind
  <2>2. Overtaken(t)
    BY DEF Init, Overtaken
  <2>3. Near(t) /\ Kept(t)
    BY <1>1 DEF Init, Near, Kept, Pending, NoEvent
  <2> QED BY <2>1, <2>2, <2>3 DEF TrackInv
<1>5. MsgOrder /\ Drained /\ ReadOut
  BY <1>3 DEF Init, MsgOrder, Drained, ReadOut, Readable
<1> QED BY <1>2, <1>4, <1>5 DEF IInv

-----------------------------------------------------------------------------
(* The theorems *)

LEMMA SpecIInv == Spec => []IInv
BY InitIInv, NextIInv, PTL DEF Spec

\* Every variable of the demuxer keeps its type.
THEOREM TypeCorrect == Spec => []TypeOK
<1>1. IInv => TypeOK
  <2> SUFFICES ASSUME IInv PROVE TypeOK
    OBVIOUS
  <2>1. ASSUME NEW t \in Tracks PROVE packets[t] \in [Buffered(t) -> Positions] /\ Buffered(t) \subseteq Nat
    <3>1. packets[t] = [n \in Buffered(t) |-> n]
      BY DEF IInv, TrackInv, StoredAt
    <3>2. \A n \in Buffered(t) : n \in Positions /\ n \in Nat
      BY BufferedPositions
    <3> QED BY <3>1, <3>2
  <2> QED BY <2>1 DEF IInv, Types, TypeOK, Counters
<1> QED BY SpecIInv, <1>1, PTL

(* Without a goodbye a position is only given up for two packets behind it *)
(* that are a window apart, and what is ready never waits for the network. *)
(* Nothing is assumed of the order of the PTS in the stream.               *)
THEOREM LeavesInTimeCorrect == Spec => []LeavesInTime
<1>1. IInv => NotGivenUpEarly
  BY DEF IInv, TrackInv, Overtaken, NotGivenUpEarly
<1>2. ASSUME IInv, pc = "recv", NEW t \in Tracks
      PROVE  /\ nextSeq[t] \notin arrived[t]
             /\ \A a, b \in arrived[t] :
                  a >= nextSeq[t] /\ b >= nextSeq[t] => Pts[t][a] < Pts[t][b] + Window
  <2>1. ~Readable(t) /\ Kept(t) /\ ReadBehind(t) /\ ~Pending(t)
    BY <1>2 DEF IInv, ReadOut, TrackInv, MsgOrder, Pending, NoEvent
  <2>2. nextSeq[t] \in Nat \cup {None} /\ arrived[t] \subseteq Positions
    BY <1>2 DEF IInv, Types
  <2>3. \A p \in arrived[t] : p >= nextSeq[t] => p \in Buffered(t)
    BY <2>1 DEF Kept
  <2>4. ASSUME nextSeq[t] \in arrived[t] PROVE FALSE
    <3>1. nextSeq[t] \in Nat /\ nextSeq[t] # None /\ nextSeq[t] \in Buffered(t)
      BY <2>2, <2>3, <2>4, PositionsDown DEF None
    <3>2. FirstOf(t) \in Buffered(t) /\ FirstOf(t) <= nextSeq[t] /\ FirstOf(t) \in Nat
      BY <1>2, <3>1, FirstOfIsLeast, BufferedPositions
    <3>3. FirstOf(t) = nextSeq[t]
      BY <2>1, <3>1, <3>2 DEF ReadBehind
    <3> QED BY <2>1, <3>1, <3>3 DEF Readable
  <2>5. ASSUME NEW a \in arrived[t], NEW b \in arrived[t], a >= nextSeq[t], b >= nextSeq[t]
        PROVE  Pts[t][a] < Pts[t][b] + Window
    <3>1. a \in Buffered(t) /\ b \in Buffered(t) /\ packets[t][a] = a /\ packets[t][b] = b
      BY <1>2, <2>3, <2>5, BufferedPositions
    <3>2. ~(Pts[t][a] >= Pts[t][b] + Window)
      BY <2>1, <3>1 DEF Readable, WindowFull, PtsAt
    <3>3. Pts[t][a] \in Nat /\ Pts[t][b] \in Nat
      BY <2>2, PtsIsNat
    <3> QED BY <3>2, <3>3, HalfARound
  <2> QED BY <2>4, <2>5
<1>3. IInv => LeavesInTime
  BY <1>1, <1>2 DEF LeavesInTime, NothingReadyWaits
<1> QED BY SpecIInv, <1>3, PTL

\* A read tells the decoder of the position that is next.
LEMMA ReadPacketTells ==
  ASSUME IInv, NEW t \in Tracks, Buffered(t) # {}, ReadPacket(t)
  PROVE  Stream!Begin(t) \/ Stream!Continue(t)
<1> DEFINE n == FirstOf(t)
<1>1. n \in Positions /\ packets[t][n] = n
  BY FirstOfIsLeast, BufferedPositions
<1> HIDE DEF n
<1>2. ASSUME nextSeq[t] \notin {None, n} PROVE Stream!Continue(t)
  <2>1. Send(t, [kind |-> "lost"]) /\ nextSeq' = [nextSeq EXCEPT ![t] = nextSeq[t] + 1]
    BY <1>2 DEF ReadPacket, n
  <2>2. Stream!Tell(t, Stream!Lost, nextSeq[t])
    BY <2>1 DEF Stream!Tell, Stream!Lost, Send
  <2> QED BY <1>2, <2>2 DEF Stream!Continue
<1>3. ASSUME nextSeq[t] \in {None, n} PROVE Stream!Begin(t) \/ Stream!Continue(t)
  <2>1. Send(t, [kind |-> "packet", at |-> n]) /\ nextSeq' = [nextSeq EXCEPT ![t] = n + 1]
    BY <1>1, <1>3 DEF ReadPacket, n
  <2>2. Stream!Tell(t, Stream!Packet(n), n)
    BY <2>1 DEF Stream!Tell, Stream!Packet, Send
  <2> QED BY <1>1, <1>3, <2>2 DEF Stream!Begin, Stream!Continue
<1> QED BY <1>2, <1>3

LEMMA StepTells ==
  ASSUME IInv, [Next]_vars
  PROVE  [Stream!Next]_(Stream!vars)
<1>1. ASSUME UNCHANGED <<nextSeq, event, eosSent>> PROVE UNCHANGED Stream!vars
  BY <1>1 DEF Stream!vars
<1>2. ASSUME NEW over \in SUBSET Tracks, eosSent' = eosSent \cup over, UNCHANGED <<nextSeq, event>>
      PROVE  Stream!Next
  BY <1>2 DEF Stream!Next, Stream!End
<1>3. ASSUME NEW t \in Tracks, Buffered(t) # {}, ReadPacket(t) PROVE Stream!Next
  BY <1>3, ReadPacketTells DEF Stream!Next
<1>4. ASSUME Merge PROVE [Stream!Next]_(Stream!vars)
  <2>1. ASSUME Holding # {}, Readable(Lowest), ReadInWindow(Lowest) PROVE Stream!Next
    BY <1>3, <2>1, LowestHolds DEF ReadInWindow, Holding
  <2> QED BY <1>1, <1>4, <2>1 DEF Merge
<1>5. ASSUME Drain PROVE [Stream!Next]_(Stream!vars)
  <2>1. ASSUME Readable(at), ReadInWindow(at) PROVE Stream!Next
    <3>1. at \in Tracks /\ Buffered(at) # {}
      BY <2>1 DEF IInv, Types, Readable
    <3> QED BY <1>3, <2>1, <3>1 DEF ReadInWindow
  <2> QED BY <1>1, <1>5, <2>1 DEF Drain
<1>6. ASSUME HandleGoodbye PROVE [Stream!Next]_(Stream!vars)
  <2>1. ASSUME Holding # {}, ReadPacket(Lowest) PROVE Stream!Next
    BY <1>3, <2>1, LowestHolds DEF Holding
  <2>2. msg.of \cap ssrcKnown \in SUBSET Tracks
    BY DEF IInv, Types
  <2> QED BY <1>2, <1>6, <2>1, <2>2 DEF HandleGoodbye
<1>7. ASSUME Finish PROVE Stream!Next
  <2>1. eosSent' = eosSent \cup Tracks
    BY <1>7 DEF Finish, IInv, Types
  <2> QED BY <1>2, <1>7, <2>1 DEF Finish, bufVars
<1>8. ASSUME Receive \/ HandlePacket \/ Disconnect \/ (\E t \in Tracks : DecoderEnds(t)) \/ UNCHANGED vars
      PROVE  UNCHANGED Stream!vars
  BY <1>1, <1>8 DEF Receive, HandlePacket, WritePacket, Disconnect, DecoderEnds, vars, bufVars
<1> QED BY <1>4, <1>5, <1>6, <1>7, <1>8 DEF Next, Thread

(* Whatever the network loses, repeats and reorders, a decoder learns of   *)
(* every position of its stream once and in order, through every wrap of   *)
(* the sequence numbers.                                                   *)
THEOREM Implements == Spec => ImplementsOrderedStream
<1>1. Init => Stream!Init
  BY DEF Init, Stream!Init, Stream!NoEvent, NoEvent
<1> QED BY <1>1, SpecIInv, StepTells, PTL DEF Spec, Stream!Spec, ImplementsOrderedStream
=============================================================================
