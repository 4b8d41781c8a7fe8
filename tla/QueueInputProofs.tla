-------------------------- MODULE QueueInputProofs --------------------------
(***************************************************************************)
(* Safety of one input of the queue, for any tracks, any distances of      *)
(* items and batches and any sizes of the buffers.                         *)
(*                                                                         *)
(* A visit of the thread reads the channel several times, and every read   *)
(* has many outcomes.  The lemmas of the first three parts say what all    *)
(* outcomes of an operator have in common; the steps after them expand no  *)
(* operator on receivers.                                                  *)
(***************************************************************************)
EXTENDS QueueInput, FiniteSetTheorems, WellFoundedInduction, TLAPS

-----------------------------------------------------------------------------
(* Numbers. *)

\* Items of a stream are ordered by their number, and begin at 0.
LEMMA PtsOrder ==
  ASSUME NEW s \in Sides
  PROVE  /\ \A k \in Int : Pts(s, k) \in Int
         /\ \A k, l \in Int : k < l => Pts(s, k) < Pts(s, l)
         /\ \A k, l \in Int : k <= l => Pts(s, k) <= Pts(s, l)
         /\ Pts(s, 1) = 0
<1>1. ItemLength[s] \in Nat \ {0}
  BY ConstAssumption
<1>2. \A a, b \in Int, d \in Nat \ {0} : a < b => a * d < b * d
  BY SMT
<1>3. \A k \in Int : Pts(s, k) \in Int
  BY <1>1 DEF Pts
<1>4. \A k, l \in Int : k < l => Pts(s, k) < Pts(s, l)
  <2>1. ASSUME NEW k \in Int, NEW l \in Int, k < l
        PROVE  (k - 1) * ItemLength[s] < (l - 1) * ItemLength[s]
    <3>1. k - 1 \in Int /\ l - 1 \in Int /\ k - 1 < l - 1
      BY <2>1
    <3> QED BY <1>1, <1>2, <3>1
  <2> QED BY <2>1 DEF Pts
<1>5. Pts(s, 1) = 0
  BY <1>1, SMT DEF Pts
<1>6. \A k, l \in Int : k <= l => Pts(s, k) <= Pts(s, l)
  <2>1. ASSUME NEW k \in Int, NEW l \in Int, k <= l
        PROVE  Pts(s, k) <= Pts(s, l)
    <3>1. CASE k = l
      BY <1>3, <3>1
    <3>2. CASE k < l
      BY <1>3, <1>4, <3>2
    <3> QED BY <2>1, <3>1, <3>2
  <2> QED BY <2>1
<1> QED BY <1>3, <1>4, <1>5, <1>6

\* What prepare_for_pts and pop_before_pts look for exists: a set of numbers
\* with an upper bound has a largest one.
LEMMA MaxOfBounded ==
  ASSUME NEW S \in SUBSET Nat, NEW n \in Nat, n \in S,
         NEW m \in Nat, \A x \in S : x <= m
  PROVE  Max(S) \in S /\ \A x \in S : x <= Max(S)
<1> DEFINE Less == {ss \in Nat \X Nat : ss[1] < ss[2]}
<1> DEFINE Below == {m - x : x \in S}
<1>1. IsWellFoundedOn(Less, Nat)
  BY NatLessThanWellFounded, Zenon DEF OpToRel
<1>2. Below \subseteq Nat /\ Below # {}
  OBVIOUS
<1>3. PICK d \in Below : \A x \in Below : ~(<<x, d>> \in Less)
  <2> HIDE DEF Less, Below
  <2> QED BY <1>1, <1>2, WFMin, Zenon
<1>4. PICK y \in S : d = m - y
  OBVIOUS
<1>5. ASSUME NEW x \in S
      PROVE  x <= y
  <2>1. m - x \in Below /\ m - x \in Nat /\ d \in Nat
    BY <1>2
  <2>2. ~(m - x < d)
    BY <1>3, <2>1
  <2> QED BY <1>4, <2>1, <2>2
<1>6. y \in S /\ \A x \in S : y >= x
  BY <1>5
<1>7. Max(S) \in S /\ \A x \in S : Max(S) >= x
  BY <1>6 DEF Max
<1> QED BY <1>7
-----------------------------------------------------------------------------
(* The receivers. *)

ReceiverType ==
  [side : Sides, track : Nat, lo : Nat, hi : Nat, closed : BOOLEAN,
   st : {"absent", "new", "running", "done"}]

\* A receiver whose buffer, state and stream agree: Done is reached when the
\* sender is gone and the buffer empty, the sender goes after the last item, and
\* the last frame in the buffer stays until the sender is gone.
Sound(r) ==
  /\ r \in ReceiverType
  /\ r.lo <= r.hi
  /\ r.st = "done" <=> r.closed /\ r.lo = r.hi
  /\ r.st # "absent" => /\ r.track \in Tracks
                        /\ Count(r) \in Nat
                        /\ r.hi <= Count(r)
                        /\ r.closed => r.hi = Count(r)
  /\ r.side = "video" /\ r.lo = r.hi /\ r.hi > 0 => r.closed

\* What a visit does to a receiver: it receives, and drops or hands out.
Grown(r, q) ==
  /\ Sound(q) /\ q.st # "absent"
  /\ q.side = r.side /\ q.track = r.track
  /\ r.lo <= q.lo /\ r.hi <= q.hi
  /\ r.closed => q.closed /\ q.hi = r.hi

\* Two visits are one.
LEMMA GrownTwice ==
  ASSUME NEW r, NEW q, NEW z, r \in ReceiverType, Grown(r, q), Grown(q, z)
  PROVE  Grown(r, z)
BY DEF Grown, Sound, ReceiverType

\* The receiver of a stream nobody has read yet.
LEMMA StreamSound ==
  ASSUME NEW s \in Sides, NEW t \in Tracks \cup {0}
  PROVE  /\ Sound(Stream(t, s)) /\ Stream(t, s).side = s /\ Stream(t, s).track = t
         /\ Stream(t, s).lo = 0 /\ Stream(t, s).hi = 0 /\ ~Stream(t, s).closed
<1>1. Stream(t, s) \in ReceiverType
  BY ConstAssumption DEF Stream, ReceiverType, Tracks
<1>2. t # 0 => Items[t][s] \in Nat \cup {None}
  BY ConstAssumption
<1> QED BY <1>1, <1>2 DEF Sound, Stream, Count

Received(r, h) == [r EXCEPT !.hi = h, !.st = IF h > r.hi THEN "running" ELSE @]
Trimmed(r, p)  == IF r.side = "video" THEN DropOlder(r, p) ELSE r

\* The outcomes of reading the channel: nothing more can come, some items came,
\* or all that were left and the end of the stream.
LEMMA FetchCases ==
  ASSUME NEW r \in ReceiverType, NEW p, NEW q \in Fetch(r, p)
  PROVE  \/ r.closed /\ q = Settled(Trimmed(r, p))
         \/ /\ ~r.closed
            /\ \E h \in r.hi .. Count(r) :
                 \/ q = Trimmed(Received(r, h), p)
                 \/ /\ h = Count(r)
                    /\ q = Settled([Trimmed(Received(r, h), p) EXCEPT !.closed = TRUE])
<1> DEFINE With(h) == IF r.side = "video" THEN DropOlder(Received(r, h), p)
                      ELSE Received(r, h)
<1> DEFINE reached == {h \in r.hi .. Count(r) :
                         \A j \in r.hi .. h - 1 : ~IsFull(With(j), p)}
<1> DEFINE ends == {h \in reached : h = Count(r) /\ ~IsFull(With(h), p)}
<1>1. \A h : With(h) = Trimmed(Received(r, h), p)
  BY DEF Received, Trimmed, ReceiverType
<1>2. Fetch(r, p) = IF r.closed THEN {Settled(Trimmed(r, p))}
                    ELSE {With(h) : h \in reached}
                           \cup {Settled([With(h) EXCEPT !.closed = TRUE]) : h \in ends}
  BY DEF Fetch, Trimmed, Received
<1> HIDE DEF With
<1>3. CASE r.closed
  BY <1>2, <1>3
<1>4. CASE ~r.closed
  BY <1>1, <1>2, <1>4
<1> QED BY <1>3, <1>4

\* The frames the trim leaves: the first one is due unless none was dropped, the
\* second is not, and the last one received stays.
TrimmedAt(r, p, n) ==
  /\ n \in r.lo .. r.hi
  /\ n = r.lo \/ (n < r.hi /\ Pts("video", n + 1) <= p)
  /\ \A k \in n + 1 .. r.hi - 1 : Pts("video", k + 1) > p

LEMMA DropOlderTrims ==
  ASSUME NEW r \in ReceiverType, r.lo <= r.hi, NEW p \in Int
  PROVE  \E n \in Nat : TrimmedAt(r, p, n) /\ DropOlder(r, p) = [r EXCEPT !.lo = n]
<1> DEFINE S == {r.lo} \cup {k \in r.lo + 1 .. r.hi - 1 : Pts("video", k + 1) <= p}
<1>1. r.lo \in Nat /\ r.hi \in Nat
  BY DEF ReceiverType
<1>2. S \in SUBSET Nat /\ r.lo \in S /\ \A x \in S : x <= r.hi
  BY <1>1
<1>3. Max(S) \in S /\ \A x \in S : x <= Max(S)
  <2> HIDE DEF S
  <2> QED BY <1>1, <1>2, MaxOfBounded
<1>4. ASSUME NEW k \in Max(S) + 1 .. r.hi - 1
      PROVE  Pts("video", k + 1) > p
  <2>1. k \in Int /\ k > Max(S) /\ Max(S) >= r.lo /\ Max(S) \in Nat
    BY <1>1, <1>2, <1>3
  <2>2. k \notin S
    BY <1>3, <2>1
  <2>3. k \in r.lo + 1 .. r.hi - 1
    BY <1>1, <2>1
  <2>4. Pts("video", k + 1) \in Int
    BY <2>1, PtsOrder DEF Sides
  <2> QED BY <2>2, <2>3, <2>4
<1>5. TrimmedAt(r, p, Max(S))
  BY <1>1, <1>2, <1>3, <1>4 DEF TrimmedAt
<1>6. DropOlder(r, p) = [r EXCEPT !.lo = Max(S)]
  BY DEF DropOlder
<1> QED BY <1>2, <1>3, <1>5, <1>6

\* The same for either side: audio is not trimmed.
LEMMA TrimmedEffect ==
  ASSUME NEW r \in ReceiverType, r.lo <= r.hi, NEW p \in Int
  PROVE  \E n \in Nat : /\ Trimmed(r, p) = [r EXCEPT !.lo = n]
                        /\ n \in r.lo .. r.hi
                        /\ r.side = "audio" => n = r.lo
                        /\ r.side = "video" => TrimmedAt(r, p, n)
<1>1. CASE r.side = "video"
  BY <1>1, DropOlderTrims DEF Trimmed, TrimmedAt
<1>2. CASE r.side = "audio"
  <2>1. r = [r EXCEPT !.lo = r.lo] /\ r.lo \in Nat /\ r.lo \in r.lo .. r.hi
    BY DEF ReceiverType
  <2> QED BY <1>2, <2>1 DEF Trimmed
<1> QED BY <1>1, <1>2 DEF ReceiverType, Sides

\* What every outcome of a read has in common.
LEMMA FetchEffect ==
  ASSUME NEW r, Sound(r), r.st # "absent", NEW p \in Int, NEW q \in Fetch(r, p)
  PROVE  /\ Grown(r, q)
         /\ r.side = "audio" => q.lo = r.lo
         /\ r.side = "video" =>
              /\ q.lo = r.lo \/ (q.lo < q.hi /\ Pts("video", q.lo + 1) <= p)
              /\ \A k \in q.lo + 1 .. q.hi - 1 : Pts("video", k + 1) > p
<1> USE DEF Sound
<1>1. r \in ReceiverType /\ r.lo <= r.hi /\ r.lo \in Nat /\ r.hi \in Nat /\ Count(r) \in Nat
  BY DEF ReceiverType
<1>2. CASE r.closed /\ q = Settled(Trimmed(r, p))
  <2>1. PICK n \in Nat : /\ Trimmed(r, p) = [r EXCEPT !.lo = n]
                         /\ n \in r.lo .. r.hi
                         /\ r.side = "audio" => n = r.lo
                         /\ r.side = "video" => TrimmedAt(r, p, n)
    BY <1>1, TrimmedEffect
  <2>2. /\ q \in ReceiverType /\ q.lo = n /\ q.hi = r.hi /\ q.closed
        /\ q.side = r.side /\ q.track = r.track
        /\ q.st = IF n = r.hi THEN "done" ELSE r.st
    BY <1>1, <1>2, <2>1 DEF Settled, ReceiverType
  <2>3. Sound(q) /\ q.st # "absent"
    BY <1>1, <1>2, <2>1, <2>2 DEF Count
  <2> QED BY <1>1, <2>1, <2>2, <2>3 DEF Grown, TrimmedAt
<1>3. ASSUME ~r.closed, NEW h \in r.hi .. Count(r),
             \/ q = Trimmed(Received(r, h), p)
             \/ /\ h = Count(r)
                /\ q = Settled([Trimmed(Received(r, h), p) EXCEPT !.closed = TRUE])
      PROVE  /\ Grown(r, q)
             /\ r.side = "audio" => q.lo = r.lo
             /\ r.side = "video" =>
                  /\ q.lo = r.lo \/ (q.lo < q.hi /\ Pts("video", q.lo + 1) <= p)
                  /\ \A k \in q.lo + 1 .. q.hi - 1 : Pts("video", k + 1) > p
  <2> DEFINE z == Received(r, h)
  <2>1. /\ z \in ReceiverType /\ z.lo = r.lo /\ z.hi = h /\ z.side = r.side
        /\ z.track = r.track /\ ~z.closed /\ h \in Nat /\ r.lo <= h /\ r.hi <= h
        /\ z.st \in {"new", "running"}
    <3>1. h \in Nat /\ r.lo <= h /\ r.hi <= h
      BY <1>1, <1>3
    <3>2. r.st \in {"new", "running"}
      BY <1>1, <1>3 DEF ReceiverType
    <3>3. PICK st \in {"new", "running"} : z = [r EXCEPT !.hi = h, !.st = st]
      <4>1. CASE h > r.hi
        BY <4>1 DEF Received
      <4>2. CASE ~(h > r.hi)
        BY <3>2, <4>2 DEF Received
      <4> QED BY <4>1, <4>2
    <3> HIDE DEF z
    <3> QED BY <1>1, <1>3, <3>1, <3>3 DEF ReceiverType
  <2> HIDE DEF z
  <2>2. PICK n \in Nat : /\ Trimmed(z, p) = [z EXCEPT !.lo = n]
                         /\ n \in z.lo .. z.hi
                         /\ z.side = "audio" => n = z.lo
                         /\ z.side = "video" => TrimmedAt(z, p, n)
    BY <2>1, TrimmedEffect
  <2>3. \/ q = [z EXCEPT !.lo = n]
        \/ h = Count(r) /\ q = Settled([[z EXCEPT !.lo = n] EXCEPT !.closed = TRUE])
    BY <1>3, <2>2 DEF z
  <2>4. /\ q \in ReceiverType /\ q.lo = n /\ q.hi = h
        /\ q.side = r.side /\ q.track = r.track
        /\ \/ ~q.closed /\ q.st = z.st
           \/ q.closed /\ h = Count(r) /\ q.st = IF n = h THEN "done" ELSE z.st
    <3> DEFINE w == [z EXCEPT !.lo = n]
    <3>1. /\ w \in ReceiverType /\ w.lo = n /\ w.hi = h /\ w.side = r.side
          /\ w.track = r.track /\ ~w.closed /\ w.st = z.st
      BY <2>1, <2>2 DEF ReceiverType
    <3> HIDE DEF w
    <3>2. CASE q = w
      BY <3>1, <3>2
    <3>3. CASE h = Count(r) /\ q = Settled([w EXCEPT !.closed = TRUE])
      <4>1. q = IF n = h THEN [w EXCEPT !.closed = TRUE, !.st = "done"]
                         ELSE [w EXCEPT !.closed = TRUE]
        BY <3>1, <3>3 DEF Settled, ReceiverType
      <4>2. CASE n = h
        BY <3>1, <3>3, <4>1, <4>2 DEF ReceiverType
      <4>3. CASE n # h
        BY <3>1, <3>3, <4>1, <4>3 DEF ReceiverType
      <4> QED BY <4>2, <4>3
    <3> QED BY <2>3, <3>2, <3>3 DEF w
  <2>5. Sound(q) /\ q.st # "absent"
    <3>1. r.side = "video" => n = r.lo \/ n < h
      BY <2>1, <2>2 DEF TrimmedAt
    <3> QED BY <1>1, <1>3, <2>1, <2>2, <2>4, <3>1 DEF Count
  <2> QED BY <1>1, <1>3, <2>1, <2>2, <2>4, <2>5 DEF Grown, TrimmedAt
<1> QED BY <1>1, <1>2, <1>3, FetchCases

\* Asking for the state only receives: no item lies before None.
LEMMA PollEffect ==
  ASSUME NEW r, Sound(r), r.st # "absent", NEW q \in Poll(r)
  PROVE  Grown(r, q) /\ q.lo = r.lo
<1>1. PICK p \in {None, 0} : q \in Fetch(r, p) /\ (r.side = "video" => p = None)
  BY DEF Poll
<1>2. p \in Int
  BY <1>1 DEF None
<1>3. r.lo \in Nat /\ r.side \in Sides
  BY DEF Sound, ReceiverType
<1>4. CASE r.side = "audio"
  BY <1>1, <1>2, <1>4, FetchEffect
<1>5. CASE r.side = "video"
  <2>1. /\ Grown(r, q) /\ q.lo \in Nat
        /\ q.lo = r.lo \/ Pts("video", q.lo + 1) <= None
    <3>1. Grown(r, q) /\ (q.lo = r.lo \/ Pts("video", q.lo + 1) <= p)
      BY <1>1, <1>2, <1>5, FetchEffect
    <3> QED BY <1>1, <1>5, <3>1 DEF Grown, Sound, ReceiverType
  <2>2. Pts("video", 1) <= Pts("video", q.lo + 1) /\ Pts("video", 1) = 0
        /\ Pts("video", q.lo + 1) \in Int
    BY <2>1, PtsOrder DEF Sides
  <2> QED BY <2>1, <2>2 DEF None
<1> QED BY <1>3, <1>4, <1>5 DEF Sides

\* What the check of an open stream, or its end, tells about PTS p.
ReadyFor(r, p) == r.closed \/ HasData(r, p)

\* Data that was enough stays enough when only more arrives.
LEMMA ReadyStays ==
  ASSUME NEW r, NEW q, Sound(r), r.st # "absent", NEW p \in Int, Grown(r, q), q.lo = r.lo,
         ReadyFor(r, p)
  PROVE  ReadyFor(q, p)
<1>1. r.side \in Sides /\ q.side = r.side /\ \A k \in {r.lo, r.hi, q.hi} : k \in Nat
  BY DEF Grown, Sound, ReceiverType
<1>2. r.lo <= r.hi /\ r.hi <= q.hi /\ (r.closed => q.closed)
  BY DEF Grown, Sound
<1>3. CASE r.closed
  BY <1>2, <1>3 DEF ReadyFor
<1>4. CASE r.side = "video" /\ HasData(r, p)
  BY <1>1, <1>2, <1>4 DEF ReadyFor, HasData
<1>5. CASE r.side = "audio" /\ HasData(r, p)
  <2>1. Pts("audio", r.hi + 1) <= Pts("audio", q.hi + 1)
        /\ Pts("audio", r.hi + 1) \in Int /\ Pts("audio", q.hi + 1) \in Int
    <3>1. "audio" \in Sides /\ r.hi + 1 \in Nat /\ q.hi + 1 \in Nat /\ r.hi + 1 <= q.hi + 1
      BY <1>1, <1>2 DEF Sides
    <3> QED BY <3>1, PtsOrder
  <2> QED BY <1>1, <1>2, <1>5, <2>1 DEF ReadyFor, HasData, EndPts
<1> QED BY <1>1, <1>3, <1>4, <1>5 DEF ReadyFor, Sides

\* is_ready_for_pts reads, trims the video, and tells the truth.
LEMMA ReceiverReadyEffect ==
  ASSUME NEW r, Sound(r), r.st # "absent", NEW p \in Int, NEW y \in ReceiverReady(r, p)
  PROVE  /\ Grown(r, y.r)
         /\ \/ y.r.lo = r.lo
            \/ r.side = "video" /\ y.r.lo < y.r.hi /\ Pts("video", y.r.lo + 1) <= p
         /\ y.ready => ReadyFor(y.r, p)
<1>0. r.side \in Sides /\ r \in ReceiverType
  BY DEF Sound, ReceiverType
<1>1. PICK q \in IF r.side = "video" THEN {r} ELSE Poll(r) :
        \/ q.closed /\ y = [r |-> q, ready |-> TRUE]
        \/ \E f \in Fetch(q, p) :
             y = [r |-> f, ready |-> HasData(f, p) \/ (f.side = "audio" /\ f.st = "done")]
  BY DEF ReceiverReady
<1>2. Grown(r, q) /\ q.lo = r.lo /\ Sound(q) /\ q.st # "absent"
  <2>1. CASE r.side = "video"
    BY <1>1, <2>1 DEF Grown, Sound, ReceiverType
  <2>2. CASE r.side # "video"
    BY <1>1, <2>2, PollEffect DEF Grown
  <2> QED BY <2>1, <2>2
<1>3. CASE q.closed /\ y = [r |-> q, ready |-> TRUE]
  BY <1>2, <1>3 DEF ReadyFor
<1>4. ASSUME NEW f \in Fetch(q, p),
             y = [r |-> f, ready |-> HasData(f, p) \/ (f.side = "audio" /\ f.st = "done")]
      PROVE  /\ Grown(r, y.r)
             /\ \/ y.r.lo = r.lo
                \/ r.side = "video" /\ y.r.lo < y.r.hi /\ Pts("video", y.r.lo + 1) <= p
             /\ y.ready => ReadyFor(y.r, p)
  <2>1. /\ Grown(q, f)
        /\ q.side = "audio" => f.lo = q.lo
        /\ q.side = "video" => f.lo = q.lo \/ (f.lo < f.hi /\ Pts("video", f.lo + 1) <= p)
    BY <1>2, FetchEffect
  <2>2. Grown(r, f)
    BY <1>0, <1>2, <2>1, GrownTwice
  <2>3. f.st = "done" => f.closed
    BY <2>2 DEF Grown, Sound
  <2>4. q.side = r.side
    BY <1>2 DEF Grown
  <2> QED BY <1>0, <1>2, <1>4, <2>1, <2>2, <2>3, <2>4 DEF ReadyFor, Sides
<1> QED BY <1>1, <1>3, <1>4

\* The outcomes of the lookup of a frame.
LEMMA FrameForCases ==
  ASSUME NEW r, NEW p, NEW y \in FrameFor(r, p)
  PROVE  \/ r.st = "done" /\ y = [r |-> r, items |-> {}]
         \/ /\ r.st # "done"
            /\ \E q \in Fetch(r, p) :
                 \/ /\ q.lo = q.hi \/ Pts("video", q.lo + 1) > p
                    /\ y = [r |-> q, items |-> {}]
                 \/ /\ ~(q.lo = q.hi \/ Pts("video", q.lo + 1) > p)
                    /\ y = [r |-> IF q.closed /\ q.hi = q.lo + 1
                                  THEN Settled([q EXCEPT !.lo = q.hi]) ELSE q,
                            items |-> IF p - Pts("video", q.lo + 1) > StaleTimeout THEN {}
                                      ELSE {q.lo + 1}]
<1>1. CASE r.st = "done"
  BY <1>1 DEF FrameFor
<1>2. CASE r.st # "done"
  BY <1>2 DEF FrameFor
<1> QED BY <1>1, <1>2

\* The frame ShowsNewest asks for at p, of a stream of n frames.
Newest(n, p) ==
  {k \in 1 .. n : /\ Pts("video", k) <= p
                  /\ k < n => Pts("video", k + 1) > p
                  /\ p - Pts("video", k) <= StaleTimeout}

\* Taking out the last frame of a closed stream ends it.
LEMMA PopLast ==
  ASSUME NEW q, Sound(q), q.st # "absent", q.closed
  PROVE  /\ Grown(q, Settled([q EXCEPT !.lo = q.hi]))
         /\ Settled([q EXCEPT !.lo = q.hi]).lo = q.hi
         /\ Settled([q EXCEPT !.lo = q.hi]).hi = q.hi
<1> DEFINE z == [q EXCEPT !.lo = q.hi]
<1>1. /\ z \in ReceiverType /\ z.lo = q.hi /\ z.hi = q.hi /\ z.closed
      /\ z.side = q.side /\ z.track = q.track
  BY DEF Sound, ReceiverType
<1>2. Settled(z) = [z EXCEPT !.st = "done"]
  BY <1>1 DEF Settled
<1> HIDE DEF z
<1>3. /\ Settled(z) \in ReceiverType /\ Settled(z).lo = q.hi /\ Settled(z).hi = q.hi
      /\ Settled(z).closed /\ Settled(z).side = q.side /\ Settled(z).track = q.track
      /\ Settled(z).st = "done"
  BY <1>1, <1>2 DEF ReceiverType
<1>4. Grown(q, Settled(z))
  BY <1>3 DEF Grown, Sound, Count, ReceiverType
<1> QED BY <1>3, <1>4 DEF z

\* Where the lookup of a frame leaves the receiver.
LEMMA FrameForEffect ==
  ASSUME NEW r, Sound(r), r.st # "absent", r.side = "video", NEW p \in Int,
         NEW y \in FrameFor(r, p)
  PROVE  /\ Grown(r, y.r)
         /\ y.items = {} \/ \E k : y.items = {k}
         /\ \/ y.r.lo = r.lo
            \/ y.r.lo < y.r.hi /\ Pts("video", y.r.lo + 1) <= p
            \/ y.r.lo = y.r.hi /\ y.r.closed /\ Pts("video", y.r.hi) <= p
<1>0. r \in ReceiverType
  BY DEF Sound
<1>1. CASE r.st = "done" /\ y = [r |-> r, items |-> {}]
  BY <1>0, <1>1 DEF Grown, Sound, ReceiverType
<1>2. ASSUME NEW q \in Fetch(r, p), y = [r |-> q, items |-> {}]
      PROVE  /\ Grown(r, y.r)
             /\ y.items = {}
             /\ y.r.lo = r.lo \/ (y.r.lo < y.r.hi /\ Pts("video", y.r.lo + 1) <= p)
  BY <1>2, FetchEffect
<1>3. ASSUME NEW q \in Fetch(r, p), ~(q.lo = q.hi \/ Pts("video", q.lo + 1) > p),
             y = [r |-> IF q.closed /\ q.hi = q.lo + 1
                        THEN Settled([q EXCEPT !.lo = q.hi]) ELSE q,
                  items |-> IF p - Pts("video", q.lo + 1) > StaleTimeout THEN {}
                            ELSE {q.lo + 1}]
      PROVE  /\ Grown(r, y.r)
             /\ y.items = {} \/ \E k : y.items = {k}
             /\ \/ y.r.lo = r.lo
                \/ y.r.lo < y.r.hi /\ Pts("video", y.r.lo + 1) <= p
                \/ y.r.lo = y.r.hi /\ y.r.closed /\ Pts("video", y.r.hi) <= p
  <2>1. Grown(r, q) /\ (q.lo = r.lo \/ (q.lo < q.hi /\ Pts("video", q.lo + 1) <= p))
    BY FetchEffect
  <2>2. y.items = {} \/ y.items = {q.lo + 1}
    BY <1>3
  <2>3. CASE q.closed /\ q.hi = q.lo + 1
    <3>1. /\ y.r = Settled([q EXCEPT !.lo = q.hi])
          /\ Grown(q, y.r) /\ y.r.lo = q.hi /\ y.r.hi = q.hi /\ y.r.closed
      BY <1>3, <2>1, <2>3, PopLast DEF Grown
    <3>2. Pts("video", y.r.hi) <= p
      BY <3>1, <1>3, <2>1, <2>3, PtsOrder DEF Grown, Sound, ReceiverType, Sides
    <3>3. Grown(r, y.r)
      BY <1>0, <2>1, <3>1, GrownTwice
    <3> QED BY <2>2, <3>1, <3>2, <3>3
  <2>4. CASE ~(q.closed /\ q.hi = q.lo + 1)
    BY <1>3, <2>1, <2>2, <2>4
  <2> QED BY <2>3, <2>4
<1> QED BY <1>1, <1>2, <1>3, FrameForCases

\* A lookup for which there was enough data finds the frame ShowsNewest asks for,
\* if the frame at the front is the first one or due.
LEMMA FrameForNewest ==
  ASSUME NEW r, Sound(r), r.st \notin {"absent", "done"}, r.side = "video", NEW p \in Int,
         NEW y \in FrameFor(r, p), ReadyFor(r, p),
         r.lo > 0 => Pts("video", r.lo + 1) <= p
  PROVE  y.items = Newest(Count(r), p)
<1> DEFINE P(k) == Pts("video", k)
<1>0. /\ \A k \in Int : P(k) \in Int
      /\ \A k, l \in Int : k < l => P(k) < P(l)
      /\ \A k, l \in Int : k <= l => P(k) <= P(l)
  BY PtsOrder DEF Sides
<1>1. /\ r.lo \in Nat /\ r.hi \in Nat /\ r.lo < r.hi /\ Count(r) \in Nat
      /\ r.closed => r.hi = Count(r)
      /\ r.closed \/ P(r.lo + 1) > p \/ (r.lo + 1 < r.hi /\ P(r.lo + 2) > p)
  BY DEF Sound, ReceiverType, ReadyFor, HasData
<1>2. PICK q \in Fetch(r, p) :
        \/ /\ q.lo = q.hi \/ P(q.lo + 1) > p
           /\ y.items = {}
        \/ /\ ~(q.lo = q.hi \/ P(q.lo + 1) > p)
           /\ y.items = IF p - P(q.lo + 1) > StaleTimeout THEN {} ELSE {q.lo + 1}
  <2>1. PICK q \in Fetch(r, p) :
          \/ /\ q.lo = q.hi \/ Pts("video", q.lo + 1) > p
             /\ y = [r |-> q, items |-> {}]
          \/ /\ ~(q.lo = q.hi \/ Pts("video", q.lo + 1) > p)
             /\ y = [r |-> IF q.closed /\ q.hi = q.lo + 1
                           THEN Settled([q EXCEPT !.lo = q.hi]) ELSE q,
                     items |-> IF p - Pts("video", q.lo + 1) > StaleTimeout THEN {}
                               ELSE {q.lo + 1}]
    BY FrameForCases
  <2>2. \/ /\ q.lo = q.hi \/ P(q.lo + 1) > p
           /\ y.items = {}
        \/ /\ ~(q.lo = q.hi \/ P(q.lo + 1) > p)
           /\ y.items = IF p - P(q.lo + 1) > StaleTimeout THEN {} ELSE {q.lo + 1}
    <3>1. ASSUME NEW a, NEW b, y = [r |-> a, items |-> b]
          PROVE  y.items = b
      BY <3>1
    <3>2. CASE y = [r |-> q, items |-> {}]
      BY <2>1, <3>2
    <3>3. CASE ~(q.lo = q.hi \/ P(q.lo + 1) > p)
      BY <2>1, <3>1, <3>3, Zenon
    <3> QED BY <2>1, <3>2, <3>3, Zenon
  <2> QED BY <2>2
<1>3. /\ Grown(r, q)
      /\ q.lo = r.lo \/ (q.lo < q.hi /\ P(q.lo + 1) <= p)
      /\ \A k \in q.lo + 1 .. q.hi - 1 : P(k + 1) > p
  BY FetchEffect
<1>4. /\ q.lo \in Nat /\ q.hi \in Nat /\ q.hi <= Count(r) /\ r.lo <= q.lo /\ r.hi <= q.hi
      /\ r.closed => q.hi = r.hi
  BY <1>3 DEF Grown, Sound, ReceiverType, Count
<1>5. q.lo < q.hi
  BY <1>1, <1>3, <1>4
<1>6. CASE P(q.lo + 1) > p
  <2>1. q.lo = r.lo
    BY <1>0, <1>3, <1>4, <1>6
  <2>2. ASSUME NEW k \in 1 .. Count(r), P(k) <= p, k < Count(r) => P(k + 1) > p
        PROVE  FALSE
    <3>1. CASE k > q.lo
      <4>1. P(q.lo + 1) <= P(k)
        BY <1>0, <1>4, <3>1
      <4> QED BY <1>0, <1>4, <1>6, <2>2, <4>1
    <3>2. CASE k <= q.lo
      <4>1. k < Count(r) /\ P(k + 1) <= P(q.lo + 1) /\ P(q.lo + 1) <= p /\ P(k + 1) \in Int
        BY <1>0, <1>1, <1>4, <1>5, <2>1, <3>2
      <4> QED BY <1>0, <1>4, <2>2, <4>1
    <3> QED BY <1>4, <3>1, <3>2
  <2>3. Newest(Count(r), p) = {}
    BY <2>2 DEF Newest
  <2> QED BY <1>2, <1>6, <2>3
<1>7. CASE ~(P(q.lo + 1) > p)
  <2> DEFINE f == q.lo + 1
  <2>1. f \in 1 .. Count(r) /\ f \in Int /\ P(f) <= p /\ f <= q.hi
    BY <1>0, <1>1, <1>4, <1>5, <1>7
  <2>2. f < Count(r) => P(f + 1) > p
    <3>1. CASE f < q.hi
      BY <1>3, <1>4, <3>1
    <3>2. CASE f = q.hi /\ ~r.closed
      <4>1. CASE P(r.lo + 1) > p
        <5>1. P(r.lo + 1) <= P(f)
          BY <1>0, <1>1, <1>4
        <5> QED BY <1>0, <1>1, <2>1, <4>1, <5>1
      <4>2. CASE r.lo + 1 < r.hi /\ P(r.lo + 2) > p
        <5>1. r.lo + 2 <= f
          BY <1>1, <1>4, <3>2, <4>2
        <5>2. P(r.lo + 2) <= P(f)
          BY <1>0, <1>1, <2>1, <5>1
        <5> QED BY <1>0, <1>1, <2>1, <4>2, <5>2
      <4> QED BY <1>1, <3>2, <4>1, <4>2
    <3>3. CASE f = q.hi /\ r.closed
      BY <1>1, <1>4, <3>3
    <3> QED BY <1>4, <2>1, <3>1, <3>2, <3>3
  <2>3. ASSUME NEW k \in 1 .. Count(r), P(k) <= p, k < Count(r) => P(k + 1) > p
        PROVE  k = f
    <3>1. CASE k < f
      <4>1. k < Count(r) /\ P(k + 1) <= P(f) /\ P(k + 1) \in Int
        BY <1>0, <1>1, <2>1, <3>1
      <4> QED BY <1>0, <2>1, <2>3, <4>1
    <3>2. CASE f < k
      <4>1. f < Count(r) /\ P(f + 1) <= P(k) /\ P(f + 1) > p /\ P(f + 1) \in Int
        BY <1>0, <1>1, <2>1, <2>2, <3>2
      <4> QED BY <1>0, <2>3, <4>1
    <3> QED BY <2>1, <3>1, <3>2
  <2>4. y.items = IF p - P(f) > StaleTimeout THEN {} ELSE {f}
    <3>1. ~(q.lo = q.hi)
      BY <1>4, <1>5
    <3> QED BY <1>2, <1>7, <3>1
  <2>5. p - P(f) <= StaleTimeout <=> ~(p - P(f) > StaleTimeout)
    BY <1>0, <2>1, ConstAssumption
  <2> HIDE DEF f, P
  <2>6. Newest(Count(r), p) = IF p - P(f) > StaleTimeout THEN {} ELSE {f}
    <3>1. ASSUME NEW k
          PROVE  k \in Newest(Count(r), p) <=> k = f /\ p - P(f) <= StaleTimeout
      BY <2>1, <2>2, <2>3 DEF Newest, P
    <3> QED BY <2>5, <3>1
  <2> QED BY <2>4, <2>6
<1> QED BY <1>6, <1>7

\* The outcomes of the lookup of samples.
LEMMA SamplesBeforeCases ==
  ASSUME NEW r, NEW p, NEW y \in SamplesBefore(r, p)
  PROVE  \/ r.st = "done" /\ y = [r |-> r, items |-> {}]
         \/ /\ r.st # "done"
            /\ \E q \in Fetch(r, p) :
                 LET popped == {k \in q.lo + 1 .. q.hi : Pts("audio", k) < p}
                 IN  y = [r |-> Settled([q EXCEPT !.lo = Max({q.lo} \cup popped)]),
                          items |-> popped]
<1>1. CASE r.st = "done"
  BY <1>1 DEF SamplesBefore
<1>2. CASE r.st # "done"
  BY <1>2 DEF SamplesBefore
<1> QED BY <1>1, <1>2

\* pop_before_pts takes everything that begins before p and nothing else; if
\* there was enough data, nothing that begins before p comes later.
LEMMA SamplesBeforeEffect ==
  ASSUME NEW r, Sound(r), r.st # "absent", r.side = "audio", NEW p \in Int,
         NEW y \in SamplesBefore(r, p)
  PROVE  /\ Grown(r, y.r)
         /\ y.r.lo = r.lo \/ Pts("audio", y.r.lo) < p
         /\ ReadyFor(r, p) =>
              \A k \in 1 .. Count(r) : Pts("audio", k) < p => k <= y.r.lo
<1>0. /\ \A k \in Int : Pts("audio", k) \in Int
      /\ \A k, l \in Int : k <= l => Pts("audio", k) <= Pts("audio", l)
      /\ r \in ReceiverType /\ Count(r) \in Nat
  BY PtsOrder DEF Sides, Sound
<1>1. CASE r.st = "done" /\ y = [r |-> r, items |-> {}]
  BY <1>0, <1>1 DEF Grown, Sound, ReceiverType
<1>2. ASSUME NEW q \in Fetch(r, p), r.st # "done",
             y.r = Settled([q EXCEPT !.lo =
                     Max({q.lo} \cup {k \in q.lo + 1 .. q.hi : Pts("audio", k) < p})])
      PROVE  /\ Grown(r, y.r)
             /\ y.r.lo = r.lo \/ Pts("audio", y.r.lo) < p
             /\ ReadyFor(r, p) =>
                  \A k \in 1 .. Count(r) : Pts("audio", k) < p => k <= y.r.lo
  <2> DEFINE S == {q.lo} \cup {k \in q.lo + 1 .. q.hi : Pts("audio", k) < p}
  <2> DEFINE n == Max(S)
  <2>1. Grown(r, q) /\ q.lo = r.lo
    BY FetchEffect
  <2>2. /\ q \in ReceiverType /\ q.lo \in Nat /\ q.hi \in Nat /\ q.lo <= q.hi
        /\ Sound(q) /\ q.st # "absent" /\ q.side = "audio"
    BY <2>1 DEF Grown, Sound, ReceiverType
  <2>3. n \in S /\ \A x \in S : x <= n
    <3>1. S \in SUBSET Nat /\ q.lo \in S /\ \A x \in S : x <= q.hi
      BY <2>2
    <3> HIDE DEF S
    <3> QED BY <2>2, <3>1, MaxOfBounded
  <2>4. n \in Nat /\ q.lo <= n /\ n <= q.hi /\ (n = q.lo \/ Pts("audio", n) < p)
    BY <2>2, <2>3
  <2>5. ASSUME NEW k \in 1 .. q.hi, Pts("audio", k) < p
        PROVE  k <= n
    <3>1. CASE k <= q.lo
      BY <2>2, <2>4, <3>1
    <3>2. CASE k > q.lo
      <4>1. k \in S
        BY <2>2, <2>5, <3>2
      <4> QED BY <2>3, <4>1
    <3> QED BY <2>2, <3>1, <3>2
  <2>6. y.r = Settled([q EXCEPT !.lo = n])
    BY <1>2
  <2> HIDE DEF n, S
  <2>7. /\ y.r \in ReceiverType /\ y.r.lo = n /\ y.r.hi = q.hi /\ y.r.closed = q.closed
        /\ y.r.side = q.side /\ y.r.track = q.track
        /\ y.r.st = IF q.closed /\ n = q.hi THEN "done" ELSE q.st
    BY <2>2, <2>4, <2>6 DEF Settled, ReceiverType
  <2>8. Grown(q, y.r)
    <3>1. q.st = "done" => q.closed /\ n = q.hi
      BY <2>2, <2>4 DEF Sound
    <3> QED BY <2>2, <2>4, <2>7, <3>1 DEF Grown, Sound, Count
  <2>9. Grown(r, y.r)
    BY <1>0, <2>1, <2>8, GrownTwice
  <2>10. ASSUME ReadyFor(r, p), NEW k \in 1 .. Count(r), Pts("audio", k) < p
         PROVE  k <= n
    <3>1. r.hi \in Nat /\ r.hi <= q.hi /\ (q.closed => q.hi = Count(r)) /\ (r.closed => q.closed)
      BY <2>1 DEF Grown, Sound, ReceiverType, Count
    <3>2. CASE k <= q.hi
      BY <2>2, <2>5, <2>10, <3>2
    <3>3. CASE k > q.hi
      <4>1. ~r.closed
        BY <1>0, <2>2, <3>1, <3>3
      <4>2. Pts("audio", r.hi + 1) >= p
        BY <2>10, <4>1 DEF ReadyFor, HasData, EndPts
      <4>3. Pts("audio", r.hi + 1) <= Pts("audio", k) /\ Pts("audio", r.hi + 1) \in Int
            /\ Pts("audio", k) \in Int
        BY <1>0, <2>2, <3>1, <3>3
      <4> QED BY <2>10, <4>2, <4>3
    <3> QED BY <2>2, <3>2, <3>3
  <2> QED BY <2>1, <2>4, <2>7, <2>9, <2>10
<1>3. \/ r.st = "done" /\ y = [r |-> r, items |-> {}]
      \/ /\ r.st # "done"
         /\ \E q \in Fetch(r, p) :
              y.r = Settled([q EXCEPT !.lo =
                      Max({q.lo} \cup {k \in q.lo + 1 .. q.hi : Pts("audio", k) < p})])
  BY SamplesBeforeCases
<1> QED BY <1>1, <1>2, <1>3
-----------------------------------------------------------------------------
(* The input: the receivers with the offset of the track. *)

\* What a visit for PTS p may do to the offset of the track of r: it stays, or
\* the first item found fixes it.
Fixes(r, cell, p, c) == c = cell \/ (cell = None /\ c = InitialOffset(r, p))

LEMMA InitialOffsetType ==
  ASSUME NEW r, Sound(r), r.st # "absent", startPts \in Int, NEW p \in Int
  PROVE  /\ InitialOffset(r, p) \in Int
         /\ \A q : Grown(r, q) => InitialOffset(q, p) = InitialOffset(r, p)
<1>1. Placed[r.track].at \in Nat
  BY ConstAssumption DEF Sound
<1>2. \A q : Grown(r, q) => InitialOffset(q, p) = InitialOffset(r, p)
  BY DEF Grown, InitialOffset
<1> QED BY <1>1, <1>2 DEF InitialOffset

LEMMA ResolveEffect ==
  ASSUME NEW r, Sound(r), r.st # "absent", startPts \in Int, NEW cell \in Int,
         NEW p \in Int, NEW x \in Resolve(r, cell, p)
  PROVE  Grown(r, x.r) /\ x.r.lo = r.lo /\ x.cell \in Int /\ Fixes(r, cell, p, x.cell)
<1>1. PICK q \in Poll(r) :
        x = [r |-> q, cell |-> IF q.st = "running" /\ cell = None THEN InitialOffset(q, p)
                               ELSE cell]
  BY DEF Resolve
<1>2. Grown(r, q) /\ q.lo = r.lo
  BY PollEffect
<1>3. InitialOffset(q, p) = InitialOffset(r, p) /\ InitialOffset(r, p) \in Int
  BY <1>2, InitialOffsetType
<1> QED BY <1>1, <1>2, <1>3 DEF Fixes

\* A batch needs data for a PTS that is a number.
LEMMA NeededType ==
  ASSUME NEW s \in Sides, NEW p \in Int
  PROVE  Needed(s, p) \in Int /\ (s = "video" => Needed(s, p) = p)
                              /\ (s = "audio" => Needed(s, p) >= p)
BY ConstAssumption DEF Needed, Sides

\* The check of readiness drops video that is old by p, and keeps audio.
LEMMA ReadinessEffect ==
  ASSUME NEW r, Sound(r), r.st # "absent", startPts \in Int, NEW cell \in Int,
         NEW p \in Int, NEW x \in Readiness(r, cell, p)
  PROVE  /\ Grown(r, x.r) /\ x.cell \in Int /\ Fixes(r, cell, p, x.cell)
         /\ \/ x.r.lo = r.lo
            \/ /\ r.side = "video" /\ x.cell # None
               /\ x.r.lo < x.r.hi /\ Pts("video", x.r.lo + 1) <= p - x.cell
         /\ x.ready /\ x.cell # None => ReadyFor(x.r, Needed(r.side, p) - x.cell)
<1>0. r.side \in Sides /\ r \in ReceiverType
  BY DEF Sound, ReceiverType
<1>1. PICK z \in Resolve(r, cell, p) :
        \/ /\ z.cell = None
           /\ \E f \in Poll(z.r) : x.r = f /\ x.cell = None
        \/ /\ z.cell # None
           /\ \E y \in ReceiverReady(z.r, Needed(r.side, p) - z.cell) :
                x = [r |-> y.r, cell |-> z.cell, ready |-> y.ready]
  BY DEF Readiness
<1>2. /\ Grown(r, z.r) /\ z.r.lo = r.lo /\ z.cell \in Int /\ Fixes(r, cell, p, z.cell)
      /\ Sound(z.r) /\ z.r.st # "absent" /\ z.r.side = r.side
  <2>1. Grown(r, z.r) /\ z.r.lo = r.lo /\ z.cell \in Int /\ Fixes(r, cell, p, z.cell)
    BY ResolveEffect
  <2>2. Sound(z.r) /\ z.r.st # "absent" /\ z.r.side = r.side
    BY <2>1 DEF Grown
  <2> QED BY <2>1, <2>2
<1>3. ASSUME z.cell = None, NEW f \in Poll(z.r), x.r = f /\ x.cell = None
      PROVE  Grown(r, x.r) /\ x.cell = z.cell /\ x.r.lo = r.lo
  BY <1>0, <1>2, <1>3, PollEffect, GrownTwice
<1>4. ASSUME z.cell # None, NEW y \in ReceiverReady(z.r, Needed(r.side, p) - z.cell),
             x = [r |-> y.r, cell |-> z.cell, ready |-> y.ready]
      PROVE  /\ Grown(r, x.r) /\ x.cell = z.cell
             /\ \/ x.r.lo = r.lo
                \/ /\ r.side = "video" /\ x.r.lo < x.r.hi
                   /\ Pts("video", x.r.lo + 1) <= p - x.cell
             /\ x.ready => ReadyFor(x.r, Needed(r.side, p) - x.cell)
  <2>1. Needed(r.side, p) - z.cell \in Int /\ (r.side = "video" => Needed(r.side, p) = p)
    BY <1>0, <1>2, NeededType
  <2>2. /\ Grown(z.r, y.r)
        /\ \/ y.r.lo = z.r.lo
           \/ /\ z.r.side = "video" /\ y.r.lo < y.r.hi
              /\ Pts("video", y.r.lo + 1) <= Needed(r.side, p) - z.cell
        /\ y.ready => ReadyFor(y.r, Needed(r.side, p) - z.cell)
    BY <1>2, <2>1, ReceiverReadyEffect
  <2>3. Grown(r, y.r)
    BY <1>0, <1>2, <2>2, GrownTwice
  <2> QED BY <1>2, <1>4, <2>1, <2>2, <2>3
<1> QED BY <1>1, <1>2, <1>3, <1>4

\* What get_frame and pop_samples do for the batch at p, when they look at PTS
\* `at` of the track: the receiver and what the batch gets.
Takes(r, q, items, at) ==
  /\ Grown(r, q)
  /\ r.side = "video" =>
       /\ \/ q.lo = r.lo
          \/ q.lo < q.hi /\ Pts("video", q.lo + 1) <= at
          \/ q.lo = q.hi /\ q.closed /\ Pts("video", q.hi) <= at
       /\ r.st # "done" /\ ReadyFor(r, at) /\ (r.lo > 0 => Pts("video", r.lo + 1) <= at)
            => items = Newest(Count(r), at)
  /\ r.side = "audio" =>
       /\ q.lo = r.lo \/ Pts("audio", q.lo) < at
       /\ ReadyFor(r, at) => \A k \in 1 .. Count(r) : Pts("audio", k) < at => k <= q.lo

LEMMA ContentsEffect ==
  ASSUME NEW r, Sound(r), r.st # "absent", startPts \in Int, NEW cell \in Int,
         NEW p \in Int, NEW x \in Contents(r, cell, p)
  PROVE  /\ Grown(r, x.r) /\ x.cell \in Int /\ Fixes(r, cell, p, x.cell)
         /\ \/ x.at = None /\ x.r.lo = r.lo /\ (r.side = "video" => x.cell = None)
            \/ /\ x.cell # None /\ x.at = Needed(r.side, p) - x.cell
               /\ Takes(r, x.r, x.items, x.at)
<1>0. r.side \in Sides /\ r \in ReceiverType
  BY DEF Sound, ReceiverType
<1>1. PICK z \in Resolve(r, cell, p) :
        \/ /\ x = [r |-> z.r, cell |-> z.cell, items |-> {}, at |-> None]
           /\ r.side = "video" => z.cell = None
        \/ /\ z.cell # None
           /\ \E y \in IF r.side = "video" THEN FrameFor(z.r, p - z.cell)
                       ELSE SamplesBefore(z.r, Needed("audio", p) - z.cell) :
                x = [r |-> y.r, cell |-> z.cell, items |-> y.items,
                     at |-> Needed(r.side, p) - z.cell]
  BY DEF Contents
<1>2. /\ Grown(r, z.r) /\ z.r.lo = r.lo /\ z.cell \in Int /\ Fixes(r, cell, p, z.cell)
      /\ Sound(z.r) /\ z.r.st # "absent" /\ z.r.side = r.side /\ z.r.track = r.track
  BY ResolveEffect DEF Grown
<1>3. CASE /\ x = [r |-> z.r, cell |-> z.cell, items |-> {}, at |-> None]
           /\ r.side = "video" => z.cell = None
  BY <1>2, <1>3
<1>4. ASSUME z.cell # None,
             NEW y \in IF r.side = "video" THEN FrameFor(z.r, p - z.cell)
                       ELSE SamplesBefore(z.r, Needed("audio", p) - z.cell),
             x = [r |-> y.r, cell |-> z.cell, items |-> y.items,
                  at |-> Needed(r.side, p) - z.cell]
      PROVE  /\ Grown(r, x.r) /\ x.cell \in Int /\ Fixes(r, cell, p, x.cell)
             /\ x.cell # None /\ x.at = Needed(r.side, p) - x.cell
             /\ Takes(r, x.r, x.items, x.at)
  <2> DEFINE at == Needed(r.side, p) - z.cell
  <2>1. at \in Int /\ (r.side = "video" => at = p - z.cell) /\ Count(z.r) = Count(r)
    BY <1>0, <1>2, NeededType DEF Count
  <2>2. x.r = y.r /\ x.cell = z.cell /\ x.items = y.items /\ x.at = at
    BY <1>4
  <2>3. ReadyFor(r, at) => ReadyFor(z.r, at)
    BY <1>2, <2>1, ReadyStays
  <2> HIDE DEF at
  <2>4. CASE r.side = "video"
    <3>1. y \in FrameFor(z.r, at)
      BY <1>4, <2>1, <2>4
    <3>2. /\ Grown(z.r, y.r)
          /\ \/ y.r.lo = z.r.lo
             \/ y.r.lo < y.r.hi /\ Pts("video", y.r.lo + 1) <= at
             \/ y.r.lo = y.r.hi /\ y.r.closed /\ Pts("video", y.r.hi) <= at
      BY <1>2, <2>1, <2>4, <3>1, FrameForEffect
    <3>3. Grown(r, y.r)
      BY <1>0, <1>2, <3>2, GrownTwice
    <3>4. ASSUME r.st # "done", ReadyFor(r, at), r.lo > 0 => Pts("video", r.lo + 1) <= at
          PROVE  y.items = Newest(Count(r), at)
      <4>1. r.lo < r.hi /\ r.lo \in Nat /\ r.hi \in Nat
        BY <2>4, <3>4 DEF Sound, ReceiverType, ReadyFor, HasData
      <4>2. z.r.st # "done"
        BY <1>2, <4>1 DEF Grown, Sound, ReceiverType
      <4> QED BY <1>2, <2>1, <2>3, <2>4, <3>1, <3>4, <4>2, FrameForNewest
    <3> QED BY <1>2, <1>4, <2>2, <2>4, <3>2, <3>3, <3>4 DEF Takes, at
  <2>5. CASE r.side = "audio"
    <3>1. y \in SamplesBefore(z.r, at)
      BY <1>4, <2>5 DEF at
    <3>2. /\ Grown(z.r, y.r)
          /\ y.r.lo = z.r.lo \/ Pts("audio", y.r.lo) < at
          /\ ReadyFor(z.r, at) =>
               \A k \in 1 .. Count(r) : Pts("audio", k) < at => k <= y.r.lo
      BY <1>2, <2>1, <2>5, <3>1, SamplesBeforeEffect
    <3>3. Grown(r, y.r)
      BY <1>0, <1>2, <3>2, GrownTwice
    <3> QED BY <1>2, <1>4, <2>2, <2>3, <2>5, <3>2, <3>3 DEF Takes, at
  <2> QED BY <1>0, <2>4, <2>5 DEF Sides
<1> QED BY <1>1, <1>3, <1>4

\* check_eos asks for the state once more.
LEMMA TakesThenPolls ==
  ASSUME NEW r, NEW z, NEW q, NEW items, NEW at, r \in ReceiverType,
         Takes(r, z, items, at), q \in Poll(z)
  PROVE  Takes(r, q, items, at) /\ q.lo = z.lo
<1>1. Sound(z) /\ z.st # "absent" /\ Grown(r, z)
  BY DEF Takes, Grown
<1>2. Grown(z, q) /\ q.lo = z.lo
  BY <1>1, PollEffect
<1>3. Grown(r, q)
  BY <1>1, <1>2, GrownTwice
<1>4. q.lo \in Nat /\ q.hi \in Nat /\ z.hi \in Nat /\ z.hi <= q.hi
      /\ (z.closed => q.hi = z.hi /\ q.closed)
  BY <1>1, <1>2 DEF Grown, Sound, ReceiverType
<1> QED BY <1>2, <1>3, <1>4 DEF Takes

LEMMA TakenEffect ==
  ASSUME NEW s \in Sides, Sound(recv[s]), Present(s), recv[s].side = s, startPts \in Int,
         offset \in Int, next[s] \in Int, pausedAt = None, NEW x \in Taken(s)
  PROVE  /\ Grown(recv[s], x.r) /\ x.cell \in Int
         /\ Fixes(recv[s], offset, next[s], x.cell)
         /\ \/ x.at = None /\ x.r.lo = recv[s].lo /\ (s = "video" => x.cell = None)
            \/ /\ x.cell # None /\ x.at = Needed(s, next[s]) - x.cell
               /\ Takes(recv[s], x.r, x.items, x.at)
         /\ x.eos \in BOOLEAN /\ (x.eos => x.r.st = "done")
<1>1. PICK z \in Contents(recv[s], offset, next[s]) : \E q \in Poll(z.r) :
        x = [r |-> q, cell |-> z.cell, items |-> z.items, at |-> z.at,
             eos |-> q.st = "done" /\ ~eosSent[s]]
  BY DEF Taken
<1>2. PICK q \in Poll(z.r) :
        x = [r |-> q, cell |-> z.cell, items |-> z.items, at |-> z.at,
             eos |-> q.st = "done" /\ ~eosSent[s]]
  BY <1>1
<1>3. recv[s].st # "absent" /\ recv[s] \in ReceiverType
  BY DEF Present, Sound
<1>4. /\ Grown(recv[s], z.r) /\ z.cell \in Int /\ Fixes(recv[s], offset, next[s], z.cell)
      /\ \/ z.at = None /\ z.r.lo = recv[s].lo /\ (s = "video" => z.cell = None)
         \/ /\ z.cell # None /\ z.at = Needed(s, next[s]) - z.cell
            /\ Takes(recv[s], z.r, z.items, z.at)
  BY <1>3, ContentsEffect
<1>5. Grown(z.r, q) /\ q.lo = z.r.lo
  BY <1>4, PollEffect DEF Grown
<1>6. Grown(recv[s], q)
  BY <1>3, <1>4, <1>5, GrownTwice
<1>7. Takes(recv[s], z.r, z.items, z.at) => Takes(recv[s], q, z.items, z.at)
  BY <1>3, TakesThenPolls
<1> QED BY <1>2, <1>4, <1>5, <1>6, <1>7

\* Before the start old data goes, up to the present.
LEMMA CleanedEffect ==
  ASSUME NEW r, Sound(r), r.st # "absent", now \in Nat, NEW cell \in Int,
         NEW x \in Cleaned(r, cell)
  PROVE  /\ Grown(r, x.r) /\ x.cell \in Int
         /\ \/ x.cell = cell
            \/ cell = None /\ x.cell = now /\ Placed[r.track].by # "start"
         /\ \/ x.r.lo = r.lo
            \/ /\ x.cell # None /\ r.side = "video" /\ x.r.lo < x.r.hi
               /\ Pts("video", x.r.lo + 1) <= now - x.cell
            \/ /\ x.cell # None /\ r.side = "audio"
               /\ Pts("audio", x.r.lo) < now - x.cell
<1> DEFINE off == IF cell = None THEN now ELSE cell
<1>0. r.side \in Sides /\ r \in ReceiverType /\ off \in Int /\ off # None
      /\ now - off \in Int
  BY DEF Sound, ReceiverType, None
<1>1. PICK q \in Poll(r) :
        \/ x = [r |-> q, cell |-> cell]
        \/ /\ Placed[q.track].by # "start"
           /\ \E y \in IF r.side = "video" THEN ReceiverReady(q, now - off)
                       ELSE SamplesBefore(q, now - off) : x = [r |-> y.r, cell |-> off]
  BY DEF Cleaned
<1>2. Grown(r, q) /\ q.lo = r.lo /\ Sound(q) /\ q.st # "absent"
      /\ q.side = r.side /\ q.track = r.track
  BY PollEffect DEF Grown
<1> HIDE DEF off
<1>3. CASE x = [r |-> q, cell |-> cell]
  BY <1>2, <1>3
<1>4. ASSUME Placed[q.track].by # "start",
             NEW y \in IF r.side = "video" THEN ReceiverReady(q, now - off)
                       ELSE SamplesBefore(q, now - off),
             x = [r |-> y.r, cell |-> off]
      PROVE  /\ Grown(r, x.r) /\ x.cell = off
             /\ \/ x.r.lo = r.lo
                \/ /\ r.side = "video" /\ x.r.lo < x.r.hi
                   /\ Pts("video", x.r.lo + 1) <= now - x.cell
                \/ /\ r.side = "audio"
                   /\ Pts("audio", x.r.lo) < now - x.cell
  <2>1. CASE r.side = "video"
    <3>1. y \in ReceiverReady(q, now - off)
      BY <1>4, <2>1
    <3>2. /\ Grown(q, y.r)
          /\ \/ y.r.lo = q.lo
             \/ y.r.lo < y.r.hi /\ Pts("video", y.r.lo + 1) <= now - off
      BY <1>0, <1>2, <3>1, ReceiverReadyEffect
    <3> QED BY <1>0, <1>2, <1>4, <2>1, <3>2, GrownTwice
  <2>2. CASE r.side = "audio"
    <3>1. y \in SamplesBefore(q, now - off)
      BY <1>4, <2>2
    <3>2. /\ Grown(q, y.r)
          /\ y.r.lo = q.lo \/ Pts("audio", y.r.lo) < now - off
      BY <1>0, <1>2, <2>2, <3>1, SamplesBeforeEffect
    <3> QED BY <1>0, <1>2, <1>4, <2>2, <3>2, GrownTwice
  <2> QED BY <1>0, <2>1, <2>2 DEF Sides
<1>5. off = cell \/ (cell = None /\ off = now)
  BY DEF off
<1> QED BY <1>0, <1>1, <1>2, <1>3, <1>4, <1>5

\* The PTS a paused video stream is looked up for.
PausePts == IF lastPts = None THEN 0 ELSE lastPts

\* What pause leaves of a video stream: as it was before the start, advanced to
\* PausePts after it.
LEMMA FrozenEffect ==
  ASSUME NEW r, Sound(r), r.side = "video", startPts \in Int, lastPts \in Int,
         NEW cell \in Int, NEW x \in Frozen(r, cell)
  PROVE  /\ x.items = {} \/ \E k : x.items = {k}
         /\ x.cell \in Int
         /\ \/ x.r = r /\ x.cell = cell
            \/ /\ r.st # "absent" /\ Started
               /\ Grown(r, x.r) /\ Fixes(r, cell, PausePts, x.cell)
               /\ \/ x.r.lo = r.lo
                  \/ x.cell # None /\ x.r.lo < x.r.hi
                       /\ Pts("video", x.r.lo + 1) <= PausePts - x.cell
                  \/ x.cell # None /\ x.r.lo = x.r.hi
                       /\ Pts("video", x.r.hi) <= PausePts - x.cell
<1>0. PausePts \in Int /\ r \in ReceiverType
  BY DEF PausePts, Sound
<1>1. CASE r.st = "absent" \/ ~Started
  <2>1. x = [r |-> r, cell |-> cell, items |-> {}]
    BY <1>1 DEF Frozen
  <2> QED BY <2>1
<1>2. CASE ~(r.st = "absent" \/ ~Started)
  <2>1. PICK z \in Resolve(r, cell, PausePts) :
          \/ x = [r |-> z.r, cell |-> z.cell, items |-> {}]
          \/ /\ z.cell # None
             /\ \E y \in FrameFor(z.r, PausePts - z.cell) :
                  x = [r |-> y.r, cell |-> z.cell, items |-> y.items]
    BY <1>2 DEF Frozen, PausePts
  <2>2. /\ Grown(r, z.r) /\ z.r.lo = r.lo /\ z.cell \in Int
        /\ Fixes(r, cell, PausePts, z.cell)
        /\ Sound(z.r) /\ z.r.st # "absent" /\ z.r.side = "video"
    BY <1>0, <1>2, ResolveEffect DEF Grown
  <2>3. CASE x = [r |-> z.r, cell |-> z.cell, items |-> {}]
    BY <1>2, <2>2, <2>3
  <2>4. ASSUME z.cell # None, NEW y \in FrameFor(z.r, PausePts - z.cell),
               x = [r |-> y.r, cell |-> z.cell, items |-> y.items]
        PROVE  /\ x.items = {} \/ \E k : x.items = {k}
               /\ x.cell = z.cell /\ Grown(r, x.r)
               /\ \/ x.r.lo = r.lo
                  \/ x.r.lo < x.r.hi /\ Pts("video", x.r.lo + 1) <= PausePts - x.cell
                  \/ x.r.lo = x.r.hi /\ Pts("video", x.r.hi) <= PausePts - x.cell
    <3>1. PausePts - z.cell \in Int
      BY <1>0, <2>2
    <3>2. /\ Grown(z.r, y.r)
          /\ y.items = {} \/ \E k : y.items = {k}
          /\ \/ y.r.lo = z.r.lo
             \/ y.r.lo < y.r.hi /\ Pts("video", y.r.lo + 1) <= PausePts - z.cell
             \/ y.r.lo = y.r.hi /\ y.r.closed /\ Pts("video", y.r.hi) <= PausePts - z.cell
      BY <2>2, <3>1, FrameForEffect
    <3>3. Grown(r, y.r)
      BY <1>0, <2>2, <3>2, GrownTwice
    <3> QED BY <2>2, <2>4, <3>2, <3>3
  <2> QED BY <1>2, <2>1, <2>2, <2>3, <2>4
<1> QED BY <1>1, <1>2

\* A track that replaces another while the input is paused is advanced to the
\* pause; only the clean-up before the start can fix its offset to the clock.
LEMMA ReplacedFrozenEffect ==
  ASSUME NEW t \in Tracks, now \in Nat, startPts \in Int, lastPts \in Int,
         NEW cell \in Int, NEW x \in ReplacedFrozen(Stream(t, "video"), cell)
  PROVE  /\ x.items = {} \/ \E k : x.items = {k}
         /\ Sound(x.r) /\ x.r.side = "video" /\ x.r.track = t
         /\ x.cell \in Int
         /\ \/ x.cell = cell
            \/ /\ cell = None /\ Started
               /\ \E p \in {EffectiveLastPts, PausePts} :
                    x.cell = InitialOffset(Stream(t, "video"), p)
            \/ cell = None /\ ~Started /\ x.cell = now /\ Placed[t].by # "start"
         /\ x.r.lo = x.r.hi /\ x.r.hi > 0 =>
              x.cell # None /\ Pts("video", x.r.hi) <= PausePts - x.cell
<1> DEFINE r == Stream(t, "video")
<1>0. /\ Sound(r) /\ r.side = "video" /\ r.track = t /\ r.lo = 0 /\ r.hi = 0
      /\ r \in ReceiverType /\ EffectiveLastPts \in Int
  <2>1. /\ Sound(r) /\ r.side = "video" /\ r.track = t /\ r.lo = 0 /\ r.hi = 0
    BY StreamSound DEF Sides
  <2> QED BY <2>1 DEF Sound, EffectiveLastPts
<1>1. PICK z \in (IF r.st = "absent" THEN {[r |-> r, cell |-> cell]}
                  ELSE IF Started THEN Readiness(r, cell, EffectiveLastPts)
                  ELSE Cleaned(r, cell)) : x \in Frozen(z.r, z.cell)
  BY DEF ReplacedFrozen
<1> HIDE DEF r
<1>2. /\ z.cell \in Int /\ Sound(z.r) /\ z.r.side = "video" /\ z.r.track = t
      /\ z.r.lo = 0 \/ z.r.lo < z.r.hi
      /\ \/ z.cell = cell
         \/ cell = None /\ Started /\ z.cell = InitialOffset(r, EffectiveLastPts)
         \/ cell = None /\ ~Started /\ z.cell = now /\ Placed[t].by # "start"
  <2>1. CASE r.st = "absent"
    <3>1. z = [r |-> r, cell |-> cell]
      BY <1>1, <2>1
    <3> QED BY <1>0, <3>1
  <2>2. CASE r.st # "absent" /\ Started
    <3>1. z \in Readiness(r, cell, EffectiveLastPts)
      BY <1>1, <2>2
    <3>2. /\ Grown(r, z.r) /\ z.cell \in Int /\ Fixes(r, cell, EffectiveLastPts, z.cell)
          /\ z.r.lo = r.lo \/ z.r.lo < z.r.hi
      BY <1>0, <2>2, <3>1, ReadinessEffect
    <3> QED BY <1>0, <2>2, <3>2 DEF Grown, Fixes
  <2>3. CASE r.st # "absent" /\ ~Started
    <3>1. z \in Cleaned(r, cell)
      BY <1>1, <2>3
    <3>2. /\ Grown(r, z.r) /\ z.cell \in Int
          /\ \/ z.cell = cell
             \/ cell = None /\ z.cell = now /\ Placed[r.track].by # "start"
          /\ z.r.lo = r.lo \/ z.r.lo < z.r.hi
      BY <1>0, <2>3, <3>1, CleanedEffect
    <3> QED BY <1>0, <2>3, <3>2 DEF Grown
  <2> QED BY <2>1, <2>2, <2>3
<1>3. /\ x.items = {} \/ \E k : x.items = {k}
      /\ x.cell \in Int
      /\ \/ x.r = z.r /\ x.cell = z.cell
         \/ /\ Started /\ z.r.st # "absent"
            /\ Grown(z.r, x.r) /\ Fixes(z.r, z.cell, PausePts, x.cell)
            /\ \/ x.r.lo = z.r.lo
               \/ x.r.lo < x.r.hi
               \/ x.cell # None /\ x.r.lo = x.r.hi
                    /\ Pts("video", x.r.hi) <= PausePts - x.cell
  BY <1>1, <1>2, FrozenEffect
<1>4. Sound(x.r) /\ x.r.side = "video" /\ x.r.track = t
  BY <1>2, <1>3 DEF Grown
<1>5. InitialOffset(z.r, PausePts) = InitialOffset(r, PausePts)
  BY <1>0, <1>2 DEF InitialOffset
<1>6. /\ z.r.lo \in Nat /\ z.r.hi \in Nat /\ x.r.lo \in Nat /\ x.r.hi \in Nat
      /\ Grown(z.r, x.r) => z.r.lo <= x.r.lo /\ z.r.hi <= x.r.hi
  BY <1>2, <1>4 DEF Sound, ReceiverType, Grown
<1>7. ASSUME x.r.lo = x.r.hi, x.r.hi > 0
      PROVE  x.cell # None /\ Pts("video", x.r.hi) <= PausePts - x.cell
  BY <1>2, <1>3, <1>6, <1>7
<1>8. \/ x.cell = cell
      \/ /\ cell = None /\ Started
         /\ \E p \in {EffectiveLastPts, PausePts} : x.cell = InitialOffset(r, p)
      \/ cell = None /\ ~Started /\ x.cell = now /\ Placed[t].by # "start"
  BY <1>2, <1>3, <1>5 DEF Fixes
<1> QED BY <1>3, <1>4, <1>7, <1>8 DEF r
-----------------------------------------------------------------------------
(* The inductive invariant. *)

Phases == {"track", "clean", "ready", "choose", "retrack", "check", "take"}

Numbers ==
  /\ now \in Nat /\ startPts \in Nat \cup {None} /\ lastPts \in Nat \cup {None}
  /\ pausedAt \in Nat \cup {None} /\ offset \in Int /\ cleaned \in Int
  /\ next \in [Sides -> Nat \cup {None}]
  /\ pc \in Phases \X Sides
  /\ cur \in Nat /\ queued \in Nat /\ cur <= queued /\ queued <= NumTracks
  /\ queued - cur <= MaxPending
  /\ eosSent \in [Sides -> BOOLEAN] /\ sure \in BOOLEAN
  /\ calls \in [pause : Nat, abort : Nat]

\* Both receivers belong to the current track.
Receivers ==
  /\ recv \in [Sides -> ReceiverType]
  /\ \A s \in Sides : Sound(recv[s]) /\ recv[s].side = s /\ recv[s].track = cur

\* One frame at most is repeated in a pause, and one batch is remembered.
OneFrame == pausedFrame = {} \/ \E k : pausedFrame = {k}
OneBatch ==
  /\ out = {} \/ \E o : out = {o}
  /\ out # {} => pc = <<"track", "video">>
  /\ \A o \in out : o.pts \in Nat

\* How the phases of the thread, the start, the two sides and last_pts depend on
\* each other.
Timeline ==
  /\ Started => startPts <= now
  /\ next["video"] = None <=> next["audio"] = None
  /\ \A s \in Sides : next[s] # None => Started /\ startPts <= next[s]
  /\ pc[1] \in {"ready", "choose", "retrack", "check", "take"} => next["video"] # None
  /\ pc[1] = "clean" => next["video"] = None
  /\ lastPts # None => /\ next["video"] # None /\ startPts <= lastPts
                       /\ \A s \in Sides : lastPts <= next[s]
  /\ pc[1] \in {"retrack", "check", "take"} => lastPts = next[pc[2]]
  /\ calls.pause = 0 => pausedAt = None

Base == Numbers /\ Receivers /\ OneFrame /\ OneBatch /\ Timeline

\* What Base says in the form the steps use it.
LEMMA BaseFacts ==
  ASSUME Base
  PROVE  /\ startPts \in Int /\ lastPts \in Int /\ offset \in Int /\ pausedAt \in Int
         /\ \A s \in Sides : next[s] \in Int /\ Needed(s, next[s]) \in Int
         /\ EffectiveLastPts \in Nat /\ PausePts \in Nat
         /\ Started => startPts \in Nat
         /\ pc[1] \in Phases /\ pc[2] \in Sides /\ pc = <<pc[1], pc[2]>>
<1>1. startPts \in Int /\ lastPts \in Int /\ offset \in Int /\ pausedAt \in Int
  BY DEF Base, Numbers, None
<1>2. \A s \in Sides : next[s] \in Int
  BY DEF Base, Numbers, None
<1>3. EffectiveLastPts \in Nat /\ PausePts \in Nat /\ (Started => startPts \in Nat)
  BY DEF Base, Numbers, EffectiveLastPts, PausePts, Started
<1>4. pc[1] \in Phases /\ pc[2] \in Sides /\ pc = <<pc[1], pc[2]>>
  BY DEF Base, Numbers
<1> QED BY <1>1, <1>2, <1>3, <1>4, NeededType

LEMMA InitBase == Init => Base
<1> SUFFICES ASSUME Init PROVE Base
  OBVIOUS
<1>1. Numbers
  <2>1. next \in [Sides -> Nat \cup {None}] /\ eosSent \in [Sides -> BOOLEAN]
    BY DEF Init
  <2>2. pc \in Phases \X Sides
    BY DEF Init, Phases, Sides
  <2>3. calls \in [pause : Nat, abort : Nat]
    BY DEF Init
  <2>4. 0 <= NumTracks /\ 0 - 0 <= MaxPending
    BY ConstAssumption
  <2>5. /\ now = 0 /\ startPts = None /\ lastPts = None /\ pausedAt = None /\ offset = None
        /\ cleaned = None /\ cur = 0 /\ queued = 0 /\ sure = FALSE /\ None \in Int
    BY DEF Init, None
  <2>6. /\ now \in Nat /\ startPts \in Nat \cup {None} /\ lastPts \in Nat \cup {None}
        /\ pausedAt \in Nat \cup {None} /\ offset \in Int /\ cleaned \in Int
    BY <2>5
  <2>7. /\ cur \in Nat /\ queued \in Nat /\ cur <= queued /\ queued <= NumTracks
        /\ queued - cur <= MaxPending
    BY <2>4, <2>5
  <2>8. sure \in BOOLEAN
    BY <2>5
  <2> QED BY <2>1, <2>2, <2>3, <2>6, <2>7, <2>8, Zenon DEF Numbers
<1>2. Receivers
  <2>1. \A s \in Sides : recv[s] = Stream(0, s) /\ Sound(recv[s]) /\ recv[s].side = s
                         /\ recv[s].track = 0
    BY StreamSound DEF Init
  <2>2. \A s \in Sides : recv[s] \in ReceiverType
    BY <2>1 DEF Sound
  <2> QED BY <2>1, <2>2 DEF Init, Receivers
<1>3. OneFrame /\ OneBatch
  BY DEF Init, OneFrame, OneBatch
<1>4. Timeline
  BY DEF Init, Timeline, Started, Sides
<1> QED BY <1>1, <1>2, <1>3, <1>4 DEF Base
-----------------------------------------------------------------------------
(* The steps. *)

LEMMA PcAfterCases ==
  ASSUME NEW s \in Sides
  PROVE  /\ PcAfter(s)["track"] = IF next[s] = None THEN <<"clean", s>> ELSE <<"ready", s>>
         /\ PcAfter(s)["clean"] = IF s = "video" THEN <<"track", "audio">>
                                  ELSE <<"track", "video">>
         /\ PcAfter(s)["ready"] = IF s = "video" THEN <<"track", "audio">>
                                  ELSE <<"choose", "video">>
         /\ PcAfter(s)["retrack"] = <<"check", s>>
         /\ PcAfter(s)["take"] = <<"track", "video">>
BY DEF PcAfter

\* A visit to one side leaves the other as it is.
LEMMA OneReceiver ==
  ASSUME Receivers, NEW s \in Sides, NEW q, Sound(q), q.side = s, q.track = cur,
         recv' = [recv EXCEPT ![s] = q], cur' = cur
  PROVE  /\ Receivers' /\ recv'[s] = q
         /\ \A z \in Sides : z # s => recv'[z] = recv[z]
<1>1. recv'[s] = q /\ \A z \in Sides : z # s => recv'[z] = recv[z]
  BY DEF Receivers
<1>2. q \in ReceiverType
  BY DEF Sound
<1>3. recv' \in [Sides -> ReceiverType]
  BY <1>2 DEF Receivers
<1>4. \A z \in Sides : Sound(recv'[z]) /\ recv'[z].side = z /\ recv'[z].track = cur'
  BY <1>1 DEF Receivers
<1> QED BY <1>1, <1>3, <1>4 DEF Receivers

\* What a probe finds: a paused or absent stream is left alone.
LEMMA ProbeEffect ==
  ASSUME Base, NEW s \in Sides, NEW x \in Probe(s)
  PROVE  /\ Sound(x.r) /\ x.r.side = s /\ x.r.track = cur /\ x.cell \in Int
         /\ \/ x.r = recv[s] /\ x.cell = offset /\ (~Present(s) \/ pausedAt # None)
            \/ /\ Present(s) /\ pausedAt = None
               /\ Grown(recv[s], x.r) /\ Fixes(recv[s], offset, next[s], x.cell)
               /\ \/ x.r.lo = recv[s].lo
                  \/ /\ s = "video" /\ x.cell # None
                     /\ x.r.lo < x.r.hi /\ Pts("video", x.r.lo + 1) <= next[s] - x.cell
               /\ x.ready /\ x.cell # None => ReadyFor(x.r, Needed(s, next[s]) - x.cell)
<1>1. Sound(recv[s]) /\ recv[s].side = s /\ recv[s].track = cur
  BY DEF Base, Receivers
<1>2. startPts \in Int /\ offset \in Int /\ next[s] \in Int
  BY BaseFacts
<1>3. CASE ~(Present(s) /\ pausedAt = None)
  <2>1. x = [r |-> recv[s], cell |-> offset, ready |-> TRUE]
    BY <1>3 DEF Probe
  <2> QED BY <1>1, <1>2, <1>3, <2>1
<1>4. CASE Present(s) /\ pausedAt = None
  <2>1. x \in Readiness(recv[s], offset, next[s])
    BY <1>4 DEF Probe
  <2>2. recv[s].st # "absent"
    BY <1>4 DEF Present
  <2>3. /\ Grown(recv[s], x.r) /\ x.cell \in Int /\ Fixes(recv[s], offset, next[s], x.cell)
        /\ \/ x.r.lo = recv[s].lo
           \/ /\ recv[s].side = "video" /\ x.cell # None
              /\ x.r.lo < x.r.hi /\ Pts("video", x.r.lo + 1) <= next[s] - x.cell
        /\ x.ready /\ x.cell # None =>
             ReadyFor(x.r, Needed(recv[s].side, next[s]) - x.cell)
    BY <1>1, <1>2, <2>1, <2>2, ReadinessEffect
  <2> QED BY <1>1, <1>4, <2>3 DEF Grown
<1> QED BY <1>3, <1>4

\* A track takes the place of the current one: unread, unless the input is
\* paused, and with the offset it was placed at or that its video fixed.
LEMMA ReplaceEffect ==
  ASSUME Base, ReplaceTrack
  PROVE  /\ cur' = cur + 1 /\ cur' \in Tracks /\ cur' <= queued
         /\ eosSent' \in [Sides -> BOOLEAN]
         /\ pausedAt' = IF pausedAt = None THEN None ELSE EffectiveLastPts
         /\ Receivers' /\ OneFrame' /\ offset' \in Int
         /\ recv'["audio"].lo = 0 /\ recv'["audio"].hi = 0
         /\ pausedAt = None => recv'["video"].lo = 0 /\ recv'["video"].hi = 0
         /\ recv'["video"].lo = recv'["video"].hi /\ recv'["video"].hi > 0 =>
              offset' # None /\ Pts("video", recv'["video"].hi) <= PausePts - offset'
         /\ IF Placed[cur'].by = "pts" THEN offset' = Placed[cur'].at
            ELSE pausedAt = None => offset' = None
         /\ offset' # None =>
              /\ Placed[cur'].by = "pts" => offset' = Placed[cur'].at
              /\ Placed[cur'].by = "start" => Started /\ offset' = startPts + Placed[cur'].at
              /\ Placed[cur'].by = "none" =>
                   \/ Started /\ offset' \in {EffectiveLastPts, PausePts}
                   \/ ~Started /\ offset' = now
<1> DEFINE t == cur + 1
<1> DEFINE cell == IF Placed[t].by = "pts" THEN Placed[t].at ELSE None
<1> DEFINE fresh == {[r |-> Stream(t, "video"), cell |-> cell, items |-> {}]}
<1>1. /\ cur' = t /\ t \in Tracks /\ t <= queued
      /\ pausedAt' = IF pausedAt = None THEN None ELSE EffectiveLastPts
  <2>1. cur < queued /\ cur \in Nat /\ queued \in Nat /\ queued <= NumTracks
        /\ NumTracks \in Nat
    BY ConstAssumption DEF ReplaceTrack, Base, Numbers
  <2>2. t \in Tracks /\ t <= queued
    BY <2>1 DEF Tracks
  <2> QED BY <2>2 DEF ReplaceTrack
<1>2. eosSent' \in [Sides -> BOOLEAN]
  BY DEF ReplaceTrack
<1>3. cell \in Int /\ Placed[t].by \in {"none", "pts", "start"} /\ Placed[t].at \in Nat
  BY <1>1, ConstAssumption DEF None
<1>4. PICK x \in IF pausedAt = None THEN fresh ELSE ReplacedFrozen(Stream(t, "video"), cell) :
        /\ recv' = [s \in Sides |-> IF s = "video" THEN x.r ELSE Stream(t, "audio")]
        /\ offset' = x.cell /\ pausedFrame' = x.items
  BY DEF ReplaceTrack
<1>5. startPts \in Int /\ lastPts \in Int /\ now \in Nat
  BY BaseFacts DEF Base, Numbers
<1> HIDE DEF cell
<1>6. /\ x.items = {} \/ \E k : x.items = {k}
      /\ Sound(x.r) /\ x.r.side = "video" /\ x.r.track = t /\ x.cell \in Int
      /\ pausedAt = None => x.r.lo = 0 /\ x.r.hi = 0 /\ x.cell = cell
      /\ \/ x.cell = cell
         \/ /\ cell = None /\ Started
            /\ \E p \in {EffectiveLastPts, PausePts} :
                 x.cell = InitialOffset(Stream(t, "video"), p)
         \/ cell = None /\ ~Started /\ x.cell = now /\ Placed[t].by # "start"
      /\ x.r.lo = x.r.hi /\ x.r.hi > 0 =>
           x.cell # None /\ Pts("video", x.r.hi) <= PausePts - x.cell
  <2>1. CASE pausedAt = None
    <3>1. x.r = Stream(t, "video") /\ x.cell = cell /\ x.items = {}
      BY <1>4, <2>1
    <3>2. /\ Sound(x.r) /\ x.r.side = "video" /\ x.r.track = t
          /\ x.r.lo = 0 /\ x.r.hi = 0
      BY <1>1, <3>1, StreamSound DEF Sides
    <3> QED BY <1>3, <3>1, <3>2
  <2>2. CASE pausedAt # None
    <3>1. x \in ReplacedFrozen(Stream(t, "video"), cell)
      BY <1>4, <2>2
    <3>2. /\ x.items = {} \/ \E k : x.items = {k}
          /\ Sound(x.r) /\ x.r.side = "video" /\ x.r.track = t
          /\ x.cell \in Int
          /\ \/ x.cell = cell
             \/ /\ cell = None /\ Started
                /\ \E p \in {EffectiveLastPts, PausePts} :
                     x.cell = InitialOffset(Stream(t, "video"), p)
             \/ cell = None /\ ~Started /\ x.cell = now /\ Placed[t].by # "start"
          /\ x.r.lo = x.r.hi /\ x.r.hi > 0 =>
               x.cell # None /\ Pts("video", x.r.hi) <= PausePts - x.cell
      BY <1>1, <1>3, <1>5, <3>1, ReplacedFrozenEffect
    <3> QED BY <2>2, <3>2
  <2> QED BY <2>1, <2>2
<1>7. /\ recv'["video"] = x.r /\ recv'["audio"] = Stream(t, "audio")
      /\ recv'["audio"].lo = 0 /\ recv'["audio"].hi = 0
  BY <1>1, <1>4, StreamSound DEF Sides
<1>8. Receivers'
  <2>1. /\ Sound(Stream(t, "audio")) /\ Stream(t, "audio").side = "audio"
        /\ Stream(t, "audio").track = t
    BY <1>1, StreamSound DEF Sides
  <2>2. \A s \in Sides : Sound(recv'[s]) /\ recv'[s].side = s /\ recv'[s].track = cur'
    BY <1>1, <1>6, <1>7, <2>1 DEF Sides
  <2>3. \A s \in Sides : recv'[s] \in ReceiverType
    BY <2>2 DEF Sound
  <2>4. recv' \in [Sides -> ReceiverType]
    BY <1>4, <2>3
  <2> QED BY <2>2, <2>4 DEF Receivers
<1>9. OneFrame'
  BY <1>4, <1>6 DEF OneFrame
<1>10. ASSUME offset' # None
       PROVE  /\ Placed[cur'].by = "pts" => offset' = Placed[cur'].at
              /\ Placed[cur'].by = "start" => Started /\ offset' = startPts + Placed[cur'].at
              /\ Placed[cur'].by = "none" =>
                   \/ Started /\ offset' \in {EffectiveLastPts, PausePts}
                   \/ ~Started /\ offset' = now
  <2>1. /\ Placed[t].by = "pts" => cell = Placed[t].at
        /\ Placed[t].by # "pts" => cell = None
        /\ Placed[t].at # None
    BY <1>3 DEF cell, None
  <2>2. Stream(t, "video").track = t
    BY DEF Stream
  <2>3. \A p : InitialOffset(Stream(t, "video"), p)
                 = IF Placed[t].by = "start" THEN startPts + Placed[t].at ELSE p
    BY <2>2 DEF InitialOffset
  <2>4. offset' = x.cell /\ cur' = t
    BY <1>1, <1>4
  <2>5. CASE Placed[t].by = "pts"
    BY <1>6, <1>10, <2>1, <2>4, <2>5
  <2>6. CASE Placed[t].by = "start"
    BY <1>6, <1>10, <2>1, <2>3, <2>4, <2>6
  <2>7. CASE Placed[t].by = "none"
    BY <1>6, <1>10, <2>1, <2>3, <2>4, <2>7
  <2> QED BY <1>3, <2>5, <2>6, <2>7
<1>11. IF Placed[cur'].by = "pts" THEN offset' = Placed[cur'].at
       ELSE pausedAt = None => offset' = None
  <2>1. cell = IF Placed[t].by = "pts" THEN Placed[t].at ELSE None
    BY DEF cell
  <2>2. Placed[t].at # None
    BY <1>3 DEF None
  <2> QED BY <1>1, <1>4, <1>6, <2>1, <2>2
<1> QED BY <1>1, <1>2, <1>4, <1>6, <1>7, <1>8, <1>9, <1>10, <1>11

LEMMA LessPending ==
  ASSUME NEW q \in Nat, NEW a \in Nat, NEW b \in Nat, NEW m \in Nat, q - a <= m, a <= b
  PROVE  q - b <= m
OBVIOUS

\* Base does not depend on when the thread looks at the input.
LEMMA BaseStep == Base /\ [Next]_vars => Base'
<1> SUFFICES ASSUME Base, [Next]_vars PROVE Base'
  OBVIOUS
<1>0. /\ Numbers /\ Receivers /\ OneFrame /\ OneBatch /\ Timeline
      /\ None \in Int /\ None \notin Nat
      /\ \A s \in Sides : Period[s] \in Nat
      /\ startPts \in Int /\ lastPts \in Int /\ offset \in Int /\ pausedAt \in Int
      /\ \A s \in Sides : next[s] \in Int
      /\ EffectiveLastPts \in Nat
      /\ pc[1] \in Phases /\ pc[2] \in Sides /\ pc = <<pc[1], pc[2]>>
  BY BaseFacts, ConstAssumption DEF Base, None
<1>1. ASSUME NEW s \in Sides, NEW phase \in {"track", "retrack"}, StartNextTrack(phase, s)
      PROVE  Base'
  <2>1. /\ pc = <<phase, s>> /\ pc' = PcAfter(s)[phase] /\ out' = {}
        /\ now' = now /\ startPts' = startPts /\ lastPts' = lastPts /\ next' = next
        /\ queued' = queued /\ calls' = calls /\ sure' = sure /\ cleaned' = cleaned
    BY <1>1 DEF StartNextTrack, Visit
  <2>2. pc' = IF phase = "retrack" THEN <<"check", s>>
              ELSE IF next[s] = None THEN <<"clean", s>> ELSE <<"ready", s>>
    BY <2>1, PcAfterCases
  <2>3. /\ cur' \in Nat /\ cur <= cur' /\ cur' <= queued
        /\ eosSent' \in [Sides -> BOOLEAN] /\ pausedAt' \in Nat \cup {None}
        /\ pausedAt = None => pausedAt' = None
        /\ offset' \in Int /\ Receivers' /\ OneFrame'
    <3>1. CASE ReplaceTrack
      BY <1>0, <3>1, ReplaceEffect DEF Numbers
    <3>2. CASE UNCHANGED trackVars
      <4>1. Receivers' /\ OneFrame'
        BY <1>0, <3>2 DEF trackVars, Receivers, OneFrame
      <4> QED BY <1>0, <3>2, <4>1 DEF trackVars, Numbers
    <3> QED BY <1>1, <3>1, <3>2 DEF StartNextTrack
  <2>4. Numbers'
    <3>1. pc' \in Phases \X Sides
      BY <1>1, <2>2 DEF Phases
    <3>2. queued' - cur' <= MaxPending /\ cur' <= queued'
      <4>1. /\ cur \in Nat /\ queued \in Nat /\ queued - cur <= MaxPending
            /\ queued' = queued /\ cur' \in Nat /\ cur <= cur' /\ cur' <= queued
        BY <1>0, <2>1, <2>3 DEF Numbers
      <4>2. MaxPending \in Nat
        BY ConstAssumption
      <4>3. queued - cur' <= MaxPending
        BY <4>1, <4>2, LessPending
      <4> QED BY <4>1, <4>3
    <3> QED BY <1>0, <2>1, <2>3, <3>1, <3>2 DEF Numbers
  <2>5. OneBatch'
    BY <2>1 DEF OneBatch
  <2>6. Timeline'
    <3>1. next["video"] = None <=> next[s] = None
      BY <1>0 DEF Timeline, Sides
    <3>2. phase = "retrack" => next["video"] # None /\ lastPts = next[s]
      BY <1>0, <2>1 DEF Timeline
    <3>3. /\ pc'[1] \in {"ready", "choose", "retrack", "check", "take"} => next["video"] # None
          /\ pc'[1] = "clean" => next["video"] = None
          /\ pc'[1] \in {"retrack", "check", "take"} => lastPts = next[pc'[2]]
      BY <1>1, <2>2, <3>1, <3>2
    <3> QED BY <1>0, <2>1, <2>3, <3>3 DEF Timeline, Started
  <2> QED BY <2>3, <2>4, <2>5, <2>6 DEF Base
<1>2. ASSUME NEW s \in Sides, CleanUp(s) PROVE Base'
  <2>1. /\ pc = <<"clean", s>> /\ pc' = PcAfter(s)["clean"]
        /\ UNCHANGED <<now, startPts, lastPts, next, cur, queued, eosSent, pausedAt,
                       pausedFrame, calls, sure, out>>
        /\ cleaned' = IF Started THEN now ELSE cleaned
    BY <1>2 DEF CleanUp, Visit
  <2>2. pc' = IF s = "video" THEN <<"track", "audio">> ELSE <<"track", "video">>
    BY <2>1, PcAfterCases
  <2>3. Receivers' /\ offset' \in Int
    <3>1. CASE Present(s)
      <4>1. PICK x \in Cleaned(recv[s], offset) :
              recv' = [recv EXCEPT ![s] = x.r] /\ offset' = x.cell
        BY <1>2, <3>1 DEF CleanUp
      <4>2. Sound(recv[s]) /\ recv[s].side = s /\ recv[s].track = cur /\ recv[s].st # "absent"
        BY <1>0, <3>1 DEF Receivers, Present
      <4>3. Grown(recv[s], x.r) /\ x.cell \in Int
        BY <1>0, <4>1, <4>2, CleanedEffect DEF Numbers
      <4>4. Sound(x.r) /\ x.r.side = s /\ x.r.track = cur
        BY <4>2, <4>3 DEF Grown
      <4> QED BY <1>0, <2>1, <4>1, <4>3, <4>4, OneReceiver
    <3>2. CASE ~Present(s)
      BY <1>0, <1>2, <2>1, <3>2 DEF CleanUp, Receivers
    <3> QED BY <3>1, <3>2
  <2>4. Numbers'
    <3>1. pc' \in Phases \X Sides
      BY <2>2 DEF Phases, Sides
    <3>2. cleaned' \in Int
      BY <1>0, <2>1 DEF Numbers
    <3> QED BY <1>0, <2>1, <2>3, <3>1, <3>2 DEF Numbers
  <2>5. OneFrame' /\ OneBatch'
    <3>1. out = {}
      BY <1>0, <2>1 DEF OneBatch
    <3> QED BY <1>0, <2>1, <3>1 DEF OneFrame, OneBatch
  <2>6. Timeline'
    BY <1>0, <2>1, <2>2 DEF Timeline, Started
  <2> QED BY <2>3, <2>4, <2>5, <2>6 DEF Base
<1>3. CASE ReceiveStart
  <2>1. /\ pc = <<"track", "video">> /\ Started /\ next["video"] = None
        /\ next' = [s \in Sides |-> startPts]
        /\ UNCHANGED <<now, startPts, lastPts, pc, trackVars, queued, calls, ghostVars>>
    BY <1>3 DEF ReceiveStart, Visit
  <2>2. \A s \in Sides : next'[s] = startPts
    BY <2>1
  <2>3. Numbers'
    <3>1. next' \in [Sides -> Nat \cup {None}]
      BY <1>0, <2>1 DEF Numbers
    <3> QED BY <1>0, <2>1, <3>1 DEF Numbers, trackVars, ghostVars
  <2>4. Receivers' /\ OneFrame' /\ OneBatch'
    BY <1>0, <2>1 DEF Receivers, OneFrame, OneBatch, trackVars, ghostVars
  <2>5. Timeline'
    <3>1. lastPts = None
      BY <1>0, <2>1 DEF Timeline
    <3> QED BY <1>0, <2>1, <2>2, <3>1 DEF Timeline, Started, trackVars, Sides
  <2> QED BY <2>3, <2>4, <2>5 DEF Base
<1>4. ASSUME NEW s \in Sides, ProbeReady(s) PROVE Base'
  <2>1. /\ pc = <<"ready", s>> /\ pc' = PcAfter(s)["ready"]
        /\ UNCHANGED <<now, startPts, lastPts, next, cur, queued, eosSent, pausedAt,
                       pausedFrame, calls, ghostVars>>
    BY <1>4 DEF ProbeReady, Visit
  <2>2. pc' = IF s = "video" THEN <<"track", "audio">> ELSE <<"choose", "video">>
    BY <2>1, PcAfterCases
  <2>3. PICK x \in Probe(s) : recv' = [recv EXCEPT ![s] = x.r] /\ offset' = x.cell
    BY <1>4 DEF ProbeReady
  <2>4. Sound(x.r) /\ x.r.side = s /\ x.r.track = cur /\ x.cell \in Int
    BY ProbeEffect
  <2>5. Receivers' /\ offset' \in Int
    BY <1>0, <2>1, <2>3, <2>4, OneReceiver
  <2>6. Numbers'
    <3>1. pc' \in Phases \X Sides
      BY <2>2 DEF Phases, Sides
    <3> QED BY <1>0, <2>1, <2>5, <3>1 DEF Numbers, ghostVars
  <2>7. OneFrame' /\ OneBatch'
    <3>1. out = {}
      BY <1>0, <2>1 DEF OneBatch
    <3> QED BY <1>0, <2>1, <3>1 DEF OneFrame, OneBatch, ghostVars
  <2>8. Timeline'
    <3>1. next["video"] # None
      BY <1>0, <2>1 DEF Timeline
    <3> QED BY <1>0, <2>1, <2>2, <3>1 DEF Timeline, Started
  <2> QED BY <2>5, <2>6, <2>7, <2>8 DEF Base
<1>5. CASE ChooseSide
  <2>1. PICK s \in Sides : /\ s = IF next["video"] > next["audio"] THEN "audio" ELSE "video"
                           /\ lastPts' = Larger(lastPts, next[s])
                           /\ pc' = <<"retrack", s>>
    BY <1>5 DEF ChooseSide, Sides
  <2>2. /\ pc = <<"choose", "video">>
        /\ UNCHANGED <<now, startPts, next, trackVars, queued, calls, ghostVars>>
    BY <1>5 DEF ChooseSide, Visit
  <2>3. /\ next["video"] # None /\ next["audio"] # None
        /\ next["video"] \in Nat /\ next["audio"] \in Nat
    <3>1. next["video"] # None /\ next["audio"] # None
      BY <1>0, <2>2 DEF Timeline
    <3> QED BY <3>1, <1>0 DEF Numbers, Sides
  <2>4. next[s] \in Nat /\ next[s] <= next["video"] /\ next[s] <= next["audio"]
    BY <2>1, <2>3
  <2>5. lastPts' = next[s]
    <3>1. lastPts # None => lastPts \in Nat /\ lastPts <= next[s]
      BY <1>0 DEF Timeline, Numbers
    <3>2. CASE lastPts = None
      BY <2>1, <2>4, <3>2 DEF Larger, None
    <3>3. CASE lastPts # None
      BY <2>1, <2>4, <3>1, <3>3 DEF Larger
    <3> QED BY <3>2, <3>3
  <2>6. Numbers'
    <3>1. pc' \in Phases \X Sides
      BY <2>1 DEF Phases
    <3>2. lastPts' \in Nat \cup {None}
      BY <2>4, <2>5
    <3> QED BY <1>0, <2>2, <3>1, <3>2 DEF Numbers, trackVars, ghostVars
  <2>7. Receivers' /\ OneFrame' /\ OneBatch'
    <3>1. out = {}
      BY <1>0, <2>2 DEF OneBatch
    <3> QED BY <1>0, <2>2, <3>1 DEF Receivers, OneFrame, OneBatch, trackVars, ghostVars
  <2>8. Timeline'
    <3>1. startPts <= next[s] /\ \A z \in Sides : next[s] <= next[z]
      BY <1>0, <2>1, <2>3, <2>4 DEF Timeline, Sides
    <3> QED BY <1>0, <2>1, <2>2, <2>3, <2>5, <3>1 DEF Timeline, Started, trackVars
  <2> QED BY <2>6, <2>7, <2>8 DEF Base
<1>6. ASSUME NEW s \in Sides, Check(s) PROVE Base'
  <2>1. /\ pc = <<"check", s>>
        /\ pc' = <<"take", s>> \/ pc' = <<"track", "video">>
        /\ sure' \in BOOLEAN
        /\ UNCHANGED <<now, startPts, lastPts, next, cur, queued, eosSent, pausedAt,
                       pausedFrame, calls, cleaned, out>>
    <3>1. pc = <<"check", s>>
          /\ UNCHANGED <<now, startPts, lastPts, next, cur, queued, eosSent, pausedAt,
                         pausedFrame, calls, cleaned, out>>
      BY <1>6 DEF Check, Visit
    <3>2. (pc' = <<"take", s>> \/ pc' = <<"track", "video">>) /\ sure' \in BOOLEAN
      BY <1>6 DEF Check
    <3> QED BY <3>1, <3>2
  <2>2. PICK x \in Probe(s) : recv' = [recv EXCEPT ![s] = x.r] /\ offset' = x.cell
    BY <1>6 DEF Check
  <2>3. Sound(x.r) /\ x.r.side = s /\ x.r.track = cur /\ x.cell \in Int
    BY ProbeEffect
  <2>4. Receivers' /\ offset' \in Int
    BY <1>0, <2>1, <2>2, <2>3, OneReceiver
  <2>5. Numbers'
    <3>1. pc' \in Phases \X Sides
      BY <2>1 DEF Phases, Sides
    <3> QED BY <1>0, <2>1, <2>4, <3>1 DEF Numbers
  <2>6. OneFrame' /\ OneBatch'
    <3>1. out = {}
      BY <1>0, <2>1 DEF OneBatch
    <3> QED BY <1>0, <2>1, <3>1 DEF OneFrame, OneBatch
  <2>7. Timeline'
    <3>1. next["video"] # None /\ lastPts = next[s]
      BY <1>0, <2>1 DEF Timeline
    <3> QED BY <1>0, <2>1, <3>1 DEF Timeline, Started
  <2> QED BY <2>4, <2>5, <2>6, <2>7 DEF Base
<1>7. ASSUME NEW s \in Sides, TakeBatch(s) PROVE Base'
  <2>1. /\ pc = <<"take", s>> /\ pc' = PcAfter(s)["take"] /\ sure' = FALSE
        /\ next' = [next EXCEPT ![s] = @ + Period[s]]
        /\ UNCHANGED <<now, startPts, lastPts, cur, queued, pausedAt, pausedFrame, calls,
                       cleaned>>
    BY <1>7 DEF TakeBatch, Visit
  <2>2. pc' = <<"track", "video">>
    BY <2>1, PcAfterCases
  <2>3. next[s] # None /\ next[s] \in Nat /\ next["video"] # None /\ next["audio"] # None
    <3>1. next["video"] # None /\ next["audio"] # None
      BY <1>0, <2>1 DEF Timeline
    <3> QED BY <3>1, <1>0 DEF Numbers, Sides
  <2>4. /\ next'[s] = next[s] + Period[s] /\ next'[s] \in Nat /\ next[s] <= next'[s]
        /\ \A z \in Sides : z # s => next'[z] = next[z]
        /\ next' \in [Sides -> Nat \cup {None}]
    <3>1. next[s] + Period[s] \in Nat /\ next[s] <= next[s] + Period[s]
      BY <1>0, <2>3
    <3> QED BY <1>0, <2>1, <3>1 DEF Numbers
  <2>5. /\ Receivers' /\ offset' \in Int /\ eosSent' \in [Sides -> BOOLEAN]
        /\ out' = {} \/ \E o : out' = {o} /\ o.pts = next[s]
    <3>1. CASE ~Present(s)
      BY <1>0, <1>7, <2>1, <3>1 DEF TakeBatch, Receivers, Numbers
    <3>2. CASE Present(s)
      <4>1. PICK x \in Taken(s) :
              /\ recv' = [recv EXCEPT ![s] = x.r] /\ offset' = x.cell
              /\ eosSent' = [eosSent EXCEPT ![s] = @ \/ x.eos]
              /\ out' = {[side |-> s, pts |-> next[s], at |-> x.at, items |-> x.items,
                          eos |-> x.eos, sure |-> sure, count |-> Count(x.r),
                          popped |-> x.r.lo, over |-> recv[s].st = "done"]}
        BY <1>7, <3>2 DEF TakeBatch
      <4>2. Sound(recv[s]) /\ recv[s].side = s /\ recv[s].track = cur
        BY <1>0 DEF Receivers
      <4>3. /\ Sound(x.r) /\ x.r.side = s /\ x.r.track = cur /\ x.cell \in Int
            /\ x.eos \in BOOLEAN
        <5>1. CASE pausedAt # None
          <6>1. x.r = recv[s] /\ x.cell = offset /\ x.eos = FALSE
            BY <4>1, <5>1 DEF Taken
          <6> QED BY <1>0, <4>2, <6>1
        <5>2. CASE pausedAt = None
          <6>1. Grown(recv[s], x.r) /\ x.cell \in Int /\ x.eos \in BOOLEAN
            BY <1>0, <3>2, <4>1, <4>2, <5>2, TakenEffect
          <6> QED BY <4>2, <6>1 DEF Grown
        <5> QED BY <5>1, <5>2
      <4>4. Receivers' /\ offset' \in Int
        BY <1>0, <2>1, <4>1, <4>3, OneReceiver
      <4>5. eosSent' \in [Sides -> BOOLEAN]
        BY <1>0, <4>1, <4>3 DEF Numbers
      <4> QED BY <4>1, <4>4, <4>5
    <3> QED BY <3>1, <3>2
  <2>6. Numbers'
    <3>1. pc' \in Phases \X Sides
      BY <2>2 DEF Phases, Sides
    <3> QED BY <1>0, <2>1, <2>4, <2>5, <3>1 DEF Numbers
  <2>7. OneFrame' /\ OneBatch'
    <3>1. \A o \in out' : o.pts \in Nat
      BY <2>3, <2>5
    <3>2. OneFrame'
      BY <1>0, <2>1 DEF OneFrame
    <3> QED BY <2>2, <2>5, <3>1, <3>2 DEF OneBatch
  <2>8. Timeline'
    <3>1. \A z \in Sides : next'[z] # None /\ next[z] # None /\ next[z] <= next'[z]
                           /\ next[z] \in Int /\ next'[z] \in Int
      BY <1>0, <2>3, <2>4 DEF Sides
    <3>2. \A z \in Sides : startPts <= next'[z] /\ (lastPts # None => lastPts <= next'[z])
      BY <1>0, <3>1 DEF Timeline
    <3>3. Started /\ (lastPts # None => startPts <= lastPts)
      BY <1>0, <2>3 DEF Timeline, Sides
    <3> QED BY <1>0, <2>1, <2>2, <3>1, <3>2, <3>3 DEF Timeline, Started, Sides
  <2> QED BY <2>5, <2>6, <2>7, <2>8 DEF Base
<1>8. CASE QueueNewTrack
  <2>1. /\ queued < NumTracks /\ queued - cur < MaxPending /\ queued' = queued + 1
        /\ UNCHANGED <<now, startPts, lastPts, pc, next, trackVars, calls, ghostVars>>
    BY <1>8 DEF QueueNewTrack
  <2>2. /\ queued' \in Nat /\ cur <= queued' /\ queued' <= NumTracks
        /\ queued' - cur <= MaxPending
    BY <1>0, <2>1, ConstAssumption DEF Numbers
  <2>3. Numbers'
    BY <1>0, <2>1, <2>2 DEF Numbers, trackVars, ghostVars
  <2>4. Receivers' /\ OneFrame' /\ OneBatch' /\ Timeline'
    BY <1>0, <2>1 DEF Receivers, OneFrame, OneBatch, Timeline, Started, trackVars, ghostVars
  <2> QED BY <2>3, <2>4 DEF Base
<1>9. CASE AbortOldTrack
  <2>1. /\ ReplaceTrack /\ calls' = [calls EXCEPT !.abort = @ + 1] /\ sure' = FALSE
        /\ UNCHANGED <<now, startPts, lastPts, pc, next, queued, cleaned, out>>
    BY <1>9 DEF AbortOldTrack
  <2>2. /\ cur' \in Nat /\ cur <= cur' /\ cur' <= queued
        /\ eosSent' \in [Sides -> BOOLEAN] /\ pausedAt' \in Nat \cup {None}
        /\ pausedAt = None => pausedAt' = None
        /\ offset' \in Int /\ Receivers' /\ OneFrame'
    BY <1>0, <2>1, ReplaceEffect DEF Numbers
  <2>3. calls' \in [pause : Nat, abort : Nat] /\ calls'.pause = calls.pause
    BY <1>0, <2>1 DEF Numbers
  <2>4. Numbers'
    <3>1. queued' - cur' <= MaxPending
      BY <1>0, <2>1, <2>2, ConstAssumption DEF Numbers
    <3> QED BY <1>0, <2>1, <2>2, <2>3, <3>1 DEF Numbers
  <2>5. OneBatch'
    BY <1>0, <2>1 DEF OneBatch
  <2>6. Timeline'
    BY <1>0, <2>1, <2>2, <2>3 DEF Timeline, Started
  <2> QED BY <2>2, <2>4, <2>5, <2>6 DEF Base
<1>10. CASE Pause
  <2>1. /\ pausedAt' = EffectiveLastPts /\ sure' = FALSE
        /\ calls' = [calls EXCEPT !.pause = @ + 1]
        /\ UNCHANGED <<now, startPts, lastPts, pc, next, cur, queued, eosSent, cleaned, out>>
    BY <1>10 DEF Pause
  <2>2. PICK x \in Frozen(recv["video"], offset) :
          /\ recv' = [recv EXCEPT !["video"] = x.r]
          /\ offset' = x.cell /\ pausedFrame' = x.items
    BY <1>10 DEF Pause
  <2>3. Sound(recv["video"]) /\ recv["video"].side = "video" /\ recv["video"].track = cur
    BY <1>0 DEF Receivers, Sides
  <2>4. /\ x.items = {} \/ \E k : x.items = {k}
        /\ x.cell \in Int /\ (x.r = recv["video"] \/ Grown(recv["video"], x.r))
    <3>1. x \in Frozen(recv["video"], offset) /\ offset \in Int /\ startPts \in Int
          /\ lastPts \in Int
      BY <1>0, <2>2
    <3>2. /\ x.items = {} \/ \E k : x.items = {k}
          /\ x.cell \in Int
          /\ \/ x.r = recv["video"] /\ x.cell = offset
             \/ Grown(recv["video"], x.r)
      <4> DEFINE r == recv["video"]
      <4>1. Sound(r) /\ r.side = "video" /\ x \in Frozen(r, offset)
        BY <2>3, <3>1
      <4> HIDE DEF r
      <4>2. /\ x.items = {} \/ \E k : x.items = {k}
            /\ x.cell \in Int
            /\ (x.r = r /\ x.cell = offset) \/ Grown(r, x.r)
        BY <3>1, <4>1, FrozenEffect
      <4> QED BY <4>2 DEF r
    <3> QED BY <3>2
  <2>5. Sound(x.r) /\ x.r.side = "video" /\ x.r.track = cur
    BY <2>3, <2>4 DEF Grown
  <2>6. Receivers' /\ offset' \in Int
    BY <1>0, <2>1, <2>2, <2>4, <2>5, OneReceiver DEF Sides
  <2>7. calls' \in [pause : Nat, abort : Nat] /\ calls'.pause # 0
    BY <1>0, <2>1 DEF Numbers
  <2>8. Numbers'
    <3>1. pausedAt' \in Nat \cup {None}
      BY <1>0, <2>1
    <3> QED BY <1>0, <2>1, <2>6, <2>7, <3>1 DEF Numbers
  <2>9. OneFrame' /\ OneBatch'
    BY <1>0, <2>1, <2>2, <2>4 DEF OneFrame, OneBatch
  <2>10. Timeline'
    BY <1>0, <2>1, <2>7 DEF Timeline, Started
  <2> QED BY <2>6, <2>8, <2>9, <2>10 DEF Base
<1>11. CASE Resume
  <2>1. /\ offset' = Shifted /\ pausedAt' = None /\ pausedFrame' = {} /\ sure' = FALSE
        /\ cleaned' = IF cleaned = None THEN None ELSE cleaned + (EffectiveLastPts - pausedAt)
        /\ UNCHANGED <<now, startPts, lastPts, pc, next, cur, recv, eosSent, queued, calls,
                       out>>
    BY <1>11 DEF Resume
  <2>2. offset' \in Int /\ cleaned' \in Int
    BY <1>0, <2>1 DEF Shifted, Numbers
  <2>3. Numbers'
    BY <1>0, <2>1, <2>2 DEF Numbers
  <2>4. Receivers' /\ OneFrame' /\ OneBatch' /\ Timeline'
    BY <1>0, <2>1 DEF Receivers, OneFrame, OneBatch, Timeline, Started
  <2> QED BY <2>3, <2>4 DEF Base
<1>12. CASE Start
  <2>1. /\ startPts = None /\ startPts' = now
        /\ UNCHANGED <<now, lastPts, pc, next, trackVars, queued, calls, ghostVars>>
    BY <1>12 DEF Start, Started
  <2>2. Numbers'
    BY <1>0, <2>1 DEF Numbers, trackVars, ghostVars
  <2>3. Receivers' /\ OneFrame' /\ OneBatch'
    BY <1>0, <2>1 DEF Receivers, OneFrame, OneBatch, trackVars, ghostVars
  <2>4. Timeline'
    <3>1. \A s \in Sides : next[s] = None
      BY <1>0, <2>1 DEF Timeline, Started
    <3>2. now \in Nat /\ lastPts = None
      BY <1>0, <2>1, <3>1 DEF Timeline, Numbers, Sides
    <3> QED BY <1>0, <2>1, <3>1, <3>2 DEF Timeline, Started, trackVars
  <2> QED BY <2>2, <2>3, <2>4 DEF Base
<1>13. CASE Elapse
  <2>1. /\ now' = now + 1
        /\ UNCHANGED <<startPts, lastPts, pc, next, trackVars, queued, calls, ghostVars>>
    BY <1>13 DEF Elapse
  <2>2. Numbers' /\ now <= now'
    BY <1>0, <2>1 DEF Numbers, trackVars, ghostVars
  <2>3. Receivers' /\ OneFrame' /\ OneBatch'
    BY <1>0, <2>1 DEF Receivers, OneFrame, OneBatch, trackVars, ghostVars
  <2>4. Timeline'
    <3>1. Started => startPts <= now'
      BY <1>0, <2>1 DEF Timeline, Numbers, Started
    <3> QED BY <1>0, <2>1, <3>1 DEF Timeline, Started, trackVars
  <2> QED BY <2>2, <2>3, <2>4 DEF Base
<1>14. CASE UNCHANGED vars
  BY <1>0, <1>14 DEF Base, Numbers, Receivers, OneFrame, OneBatch, Timeline, Started, vars,
                     trackVars, ghostVars
<1> QED BY <1>1, <1>2, <1>3, <1>4, <1>5, <1>6, <1>7, <1>8, <1>9, <1>10, <1>11, <1>12, <1>13,
           <1>14 DEF Next, QueueThread

\* The type invariant of every run.
LEMMA BaseImpliesType == Base => TypeOK
<1> SUFFICES ASSUME Base PROVE TypeOK
  OBVIOUS
<1>0. Numbers /\ Receivers /\ OneFrame /\ OneBatch
  BY DEF Base
<1>1. now \in Nat /\ {startPts, lastPts, pausedAt} \subseteq Nat \cup {None}
  BY <1>0 DEF Numbers
<1>2. {offset, cleaned} \subseteq Int /\ next \in [Sides -> Nat \cup {None}]
  BY <1>0 DEF Numbers
<1>3. /\ pc[1] \in {"track", "clean", "ready", "choose", "retrack", "check", "take"}
      /\ pc[2] \in Sides
  BY <1>0 DEF Numbers, Phases
<1>4. cur \in 0 .. queued /\ queued \in 0 .. NumTracks /\ queued - cur <= MaxPending
  BY <1>0, ConstAssumption DEF Numbers
<1>5. ASSUME NEW s \in Sides
      PROVE  /\ recv[s].side = s /\ recv[s].track = cur
             /\ recv[s].st \in {"absent", "new", "running", "done"}
             /\ 0 <= recv[s].lo /\ recv[s].lo <= recv[s].hi
             /\ Present(s) => recv[s].hi <= Count(recv[s])
             /\ recv[s].st = "done" <=> recv[s].closed /\ recv[s].lo = recv[s].hi
  BY <1>0 DEF Receivers, Sound, ReceiverType, Present
<1>6. eosSent \in [Sides -> BOOLEAN] /\ sure \in BOOLEAN
  BY <1>0 DEF Numbers
<1>7. ASSUME NEW S, S = {} \/ \E k : S = {k}
      PROVE  Cardinality(S) <= 1
  <2>1. S = {} => Cardinality(S) = 0
    BY FS_EmptySet
  <2>2. \A k : Cardinality({k}) = 1
    BY FS_Singleton
  <2> QED BY <1>7, <2>1, <2>2
<1>8. Cardinality(pausedFrame) <= 1 /\ Cardinality(out) <= 1
  BY <1>0, <1>7 DEF OneFrame, OneBatch
<1> QED BY <1>1, <1>2, <1>3, <1>4, <1>5, <1>6, <1>8 DEF TypeOK

LEMMA BaseCorrect == Spec => []Base
<1>1. Init => Base
  BY InitBase
<1>2. Base /\ [Next]_vars => Base'
  BY BaseStep
<1> QED BY <1>1, <1>2, PTL DEF Spec

\* Whatever the callers do, both receivers stay those of the current track, a
\* stream is over exactly when its sender is gone and its buffer empty, and one
\* frame at most is repeated while the input is paused.
THEOREM TypeOKCorrect == Spec => []TypeOK
<1>1. Base => TypeOK
  BY BaseImpliesType
<1> QED BY <1>1, BaseCorrect, PTL
-----------------------------------------------------------------------------
(* Pause and offset. *)

\* After the thread has received the start, a paused input is left as it is until
\* it is resumed or another track takes its place.
LEMMA PausedStep ==
  ASSUME Base, [Next]_vars, pausedAt # None, next["video"] # None,
         pausedAt' = pausedAt, cur' = cur
  PROVE  recv' = recv /\ offset' = offset
<1>0. Receivers /\ Timeline /\ Numbers
  BY DEF Base
<1>1. ASSUME ReplaceTrack PROVE FALSE
  BY <1>0, <1>1, ReplaceEffect DEF Numbers
<1>2. ASSUME NEW s \in Sides, NEW x \in Probe(s), recv' = [recv EXCEPT ![s] = x.r],
             offset' = x.cell
      PROVE  recv' = recv /\ offset' = offset
  <2>1. x = [r |-> recv[s], cell |-> offset, ready |-> TRUE]
    BY <1>2 DEF Probe
  <2> QED BY <1>0, <1>2, <2>1 DEF Receivers
<1>3. ASSUME NEW s \in Sides, StartNextTrack("track", s) \/ StartNextTrack("retrack", s)
      PROVE  recv' = recv /\ offset' = offset
  BY <1>1, <1>3 DEF StartNextTrack, trackVars
<1>4. ASSUME NEW s \in Sides, CleanUp(s) PROVE FALSE
  <2>1. pc[1] = "clean"
    BY <1>4 DEF CleanUp, Visit
  <2> QED BY <1>0, <2>1 DEF Timeline
<1>5. ASSUME NEW s \in Sides, ProbeReady(s) PROVE recv' = recv /\ offset' = offset
  BY <1>2, <1>5 DEF ProbeReady
<1>6. ASSUME NEW s \in Sides, Check(s) PROVE recv' = recv /\ offset' = offset
  <2>1. PICK x \in Probe(s) : recv' = [recv EXCEPT ![s] = x.r] /\ offset' = x.cell
    BY <1>6 DEF Check
  <2> QED BY <1>2, <2>1
<1>7. ASSUME NEW s \in Sides, TakeBatch(s) PROVE recv' = recv /\ offset' = offset
  <2>1. CASE Present(s)
    <3>1. PICK x \in Taken(s) : recv' = [recv EXCEPT ![s] = x.r] /\ offset' = x.cell
      BY <1>7, <2>1 DEF TakeBatch
    <3>2. x.r = recv[s] /\ x.cell = offset
      BY <3>1 DEF Taken
    <3> QED BY <1>0, <3>1, <3>2 DEF Receivers
  <2>2. CASE ~Present(s)
    BY <1>7, <2>2 DEF TakeBatch
  <2> QED BY <2>1, <2>2
<1>8. CASE ReceiveStart \/ ChooseSide \/ QueueNewTrack \/ Start \/ Elapse \/ UNCHANGED vars
  BY <1>8 DEF ReceiveStart, ChooseSide, QueueNewTrack, Start, Elapse, vars, trackVars
<1>9. CASE AbortOldTrack
  BY <1>1, <1>9 DEF AbortOldTrack
<1>10. CASE Pause \/ Resume
  BY <1>10 DEF Pause, Resume
<1> QED BY <1>3, <1>4, <1>5, <1>6, <1>7, <1>8, <1>9, <1>10 DEF Next, QueueThread

\* While an input is paused the thread neither reads its channels nor drops its
\* data nor moves its offset, once it has received the start: the order of the
\* visits and the calls in between play no part.
THEOREM PauseFreezesInput ==
  Spec => [][pausedAt # None /\ next["video"] # None /\ pausedAt' = pausedAt /\ cur' = cur
               => recv' = recv /\ offset' = offset]_vars
<1>1. Base /\ [Next]_vars
        => [pausedAt # None /\ next["video"] # None /\ pausedAt' = pausedAt /\ cur' = cur
              => recv' = recv /\ offset' = offset]_vars
  BY PausedStep
<1> QED BY <1>1, BaseCorrect, PTL DEF Spec

\* What the bound PauseEarly = FALSE gives: a pause lies on the timeline of the
\* queue, so that the length of it is not negative.
PausedInRun ==
  ~PauseEarly =>
    /\ calls.pause > 0 => lastPts # None
    /\ pausedAt # None => pausedAt <= lastPts
    /\ offset # None => offset >= 0

\* Data that was dropped before the first tick is not of the future.
CleanedPast == calls.pause = 0 => cleaned <= now

\* Where a visit may put a track: relative to the start, or not before it.
Settles(t, c) ==
  /\ c \in Nat
  /\ Placed[t].by = "start" => c = startPts + Placed[t].at
  /\ Placed[t].by = "none"  => c >= IF Started THEN startPts ELSE now

LEMMA FixesSettles ==
  ASSUME Base, NEW s \in Sides, Present(s), Started, NEW p \in Nat, startPts <= p,
         NEW c, Fixes(recv[s], offset, p, c)
  PROVE  c = offset \/ (offset = None /\ Settles(cur, c))
<1>1. recv[s].track = cur /\ cur \in Tracks /\ startPts \in Nat
  BY BaseFacts DEF Base, Receivers, Sound, Present
<1>2. Placed[cur].at \in Nat
  BY <1>1, ConstAssumption
<1>3. InitialOffset(recv[s], p)
        = IF Placed[cur].by = "start" THEN startPts + Placed[cur].at ELSE p
  BY <1>1 DEF InitialOffset
<1>4. Settles(cur, InitialOffset(recv[s], p))
  <2>1. CASE Placed[cur].by = "start"
    BY <1>1, <1>2, <1>3, <2>1 DEF Settles
  <2>2. CASE Placed[cur].by # "start"
    BY <1>1, <1>2, <1>3, <2>2 DEF Settles
  <2> QED BY <2>1, <2>2
<1> QED BY <1>4 DEF Fixes

\* Every way an offset appears or changes.
LEMMA OffsetStep ==
  ASSUME Base, PausedInRun, ~PauseEarly, [Next]_vars
  PROVE  \/ offset' = offset
         \/ offset' = None /\ cur' # cur
         \/ (offset = None \/ cur' # cur) /\ Settles(cur', offset')
         \/ Resume
<1>0. /\ Receivers /\ Timeline /\ Numbers
      /\ startPts \in Int /\ lastPts \in Int /\ offset \in Int
      /\ \A s \in Sides : next[s] \in Int
      /\ Started => startPts \in Nat
  BY BaseFacts DEF Base
<1>1. ASSUME ReplaceTrack
      PROVE  cur' # cur /\ (offset' = None \/ Settles(cur', offset'))
  <2>1. /\ cur' = cur + 1 /\ cur' \in Tracks
        /\ offset' # None =>
             /\ Placed[cur'].by = "pts" => offset' = Placed[cur'].at
             /\ Placed[cur'].by = "start" => Started /\ offset' = startPts + Placed[cur'].at
             /\ Placed[cur'].by = "none" =>
                  \/ Started /\ offset' \in {EffectiveLastPts, PausePts}
                  \/ ~Started /\ offset' = now
    BY <1>1, ReplaceEffect
  <2>2. Placed[cur'].by \in {"none", "pts", "start"} /\ Placed[cur'].at \in Nat
    BY <2>1, ConstAssumption
  <2>3. cur' # cur
    BY <1>0, <2>1 DEF Numbers
  <2>4. CASE Placed[cur'].by = "pts" /\ offset' # None
    BY <2>1, <2>2, <2>3, <2>4 DEF Settles
  <2>5. CASE Placed[cur'].by = "start" /\ offset' # None
    BY <1>0, <2>1, <2>2, <2>5 DEF Settles
  <2>6. CASE Placed[cur'].by = "none" /\ offset' # None
    <3>1. CASE ~Started
      BY <1>0, <2>1, <2>6, <3>1 DEF Settles, Numbers
    <3>2. CASE Started /\ lastPts # None
      BY <1>0, <2>1, <2>6, <3>2 DEF Settles, EffectiveLastPts, PausePts, Numbers, Timeline
    <3>3. CASE Started /\ lastPts = None
      <4>1. pausedAt = None
        BY <1>0, <3>3 DEF PausedInRun, Numbers, Timeline
      <4>2. offset' = None
        BY <1>1, <2>6, <2>3, <4>1, <2>1 DEF ReplaceTrack
      <4> QED BY <2>6, <4>2
    <3> QED BY <3>1, <3>2, <3>3
  <2> QED BY <2>2, <2>3, <2>4, <2>5, <2>6
<1>2. ASSUME NEW s \in Sides, next["video"] # None, NEW c, Present(s),
             Fixes(recv[s], offset, next[s], c)
      PROVE  c = offset \/ (offset = None /\ Settles(cur, c))
  <2>1. Started /\ startPts <= next[s] /\ next[s] \in Nat
    BY <1>0, <1>2 DEF Timeline, Numbers, Sides
  <2> QED BY <1>2, <2>1, FixesSettles
<1>3. ASSUME NEW s \in Sides, next["video"] # None, NEW x \in Probe(s), offset' = x.cell,
             cur' = cur
      PROVE  offset' = offset \/ (offset = None /\ Settles(cur', offset'))
  <2>1. x.cell = offset \/ (Present(s) /\ Fixes(recv[s], offset, next[s], x.cell))
    BY ProbeEffect
  <2> QED BY <1>2, <1>3, <2>1
<1>4. ASSUME NEW s \in Sides, StartNextTrack("track", s) \/ StartNextTrack("retrack", s)
      PROVE  offset' = offset \/ (cur' # cur /\ (offset' = None \/ Settles(cur', offset')))
  BY <1>1, <1>4 DEF StartNextTrack, trackVars
<1>5. ASSUME NEW s \in Sides, CleanUp(s)
      PROVE  offset' = offset \/ (offset = None /\ Settles(cur', offset'))
  <2>1. CASE Present(s)
    <3>1. PICK x \in Cleaned(recv[s], offset) : offset' = x.cell
      BY <1>5, <2>1 DEF CleanUp
    <3>2. Sound(recv[s]) /\ recv[s].track = cur /\ recv[s].st # "absent" /\ now \in Nat
      BY <1>0, <2>1 DEF Receivers, Present, Numbers
    <3>3. \/ x.cell = offset
          \/ offset = None /\ x.cell = now /\ Placed[cur].by # "start"
      BY <1>0, <3>1, <3>2, CleanedEffect
    <3>4. cur' = cur
      BY <1>5 DEF CleanUp
    <3>5. ASSUME x.cell = now, Placed[cur].by # "start"
          PROVE  Settles(cur, x.cell)
      BY <1>0, <3>2, <3>5 DEF Settles, Timeline
    <3> QED BY <3>1, <3>3, <3>4, <3>5
  <2>2. CASE ~Present(s)
    BY <1>5, <2>2 DEF CleanUp
  <2> QED BY <2>1, <2>2
<1>6. ASSUME NEW s \in Sides, ProbeReady(s)
      PROVE  offset' = offset \/ (offset = None /\ Settles(cur', offset'))
  <2>1. next["video"] # None
    BY <1>0, <1>6 DEF Timeline, ProbeReady, Visit
  <2> QED BY <1>3, <1>6, <2>1 DEF ProbeReady
<1>7. ASSUME NEW s \in Sides, Check(s)
      PROVE  offset' = offset \/ (offset = None /\ Settles(cur', offset'))
  <2>1. next["video"] # None
    BY <1>0, <1>7 DEF Timeline, Check, Visit
  <2>2. PICK x \in Probe(s) : offset' = x.cell
    BY <1>7 DEF Check
  <2>3. cur' = cur
    BY <1>7 DEF Check
  <2> QED BY <1>3, <2>1, <2>2, <2>3
<1>8. ASSUME NEW s \in Sides, TakeBatch(s)
      PROVE  offset' = offset \/ (offset = None /\ Settles(cur', offset'))
  <2>1. next["video"] # None /\ cur' = cur
    BY <1>0, <1>8 DEF Timeline, TakeBatch, Visit
  <2>2. CASE Present(s)
    <3>1. PICK x \in Taken(s) : offset' = x.cell
      BY <1>8, <2>2 DEF TakeBatch
    <3>2. CASE pausedAt # None
      BY <3>1, <3>2 DEF Taken
    <3>3. CASE pausedAt = None
      <4>1. Sound(recv[s]) /\ recv[s].side = s
        BY <1>0 DEF Receivers
      <4>2. Fixes(recv[s], offset, next[s], x.cell)
        BY <1>0, <2>2, <3>1, <3>3, <4>1, TakenEffect
      <4> QED BY <1>2, <2>1, <2>2, <3>1, <4>2
    <3> QED BY <3>2, <3>3
  <2>3. CASE ~Present(s)
    BY <1>8, <2>3 DEF TakeBatch
  <2> QED BY <2>2, <2>3
<1>9. CASE Pause
  <2>1. PICK x \in Frozen(recv["video"], offset) : offset' = x.cell
    BY <1>9 DEF Pause
  <2>2. cur' = cur /\ lastPts # None
    BY <1>9 DEF Pause
  <2>3. Sound(recv["video"]) /\ recv["video"].side = "video"
    BY <1>0 DEF Receivers, Sides
  <2>4. \/ x.cell = offset
        \/ /\ recv["video"].st # "absent" /\ Started
           /\ Fixes(recv["video"], offset, PausePts, x.cell)
    BY <1>0, <2>1, <2>3, FrozenEffect
  <2>5. PausePts \in Nat /\ startPts <= PausePts
    BY <1>0, <2>2 DEF PausePts, Timeline, Numbers
  <2> QED BY <2>1, <2>2, <2>4, <2>5, FixesSettles DEF Present, Sides
<1>10. CASE AbortOldTrack
  BY <1>1, <1>10 DEF AbortOldTrack
<1>11. CASE ReceiveStart \/ ChooseSide \/ QueueNewTrack \/ Start \/ Elapse \/ UNCHANGED vars
  BY <1>11 DEF ReceiveStart, ChooseSide, QueueNewTrack, Start, Elapse, vars, trackVars
<1> QED BY <1>4, <1>5, <1>6, <1>7, <1>8, <1>9, <1>10, <1>11 DEF Next, QueueThread

LEMMA PausedInRunStep ==
  Base /\ PausedInRun /\ [Next]_vars => PausedInRun'
<1> SUFFICES ASSUME Base, PausedInRun, [Next]_vars, ~PauseEarly PROVE PausedInRun'
  BY DEF PausedInRun
<1>0. /\ Timeline /\ Numbers /\ EffectiveLastPts \in Nat
      /\ calls.pause > 0 => lastPts # None
      /\ pausedAt # None => calls.pause > 0 /\ lastPts # None /\ pausedAt <= lastPts
      /\ offset # None => offset >= 0
  BY BaseFacts DEF Base, PausedInRun, Timeline, Numbers
<1>1. lastPts' = lastPts \/ (lastPts' \in Nat /\ lastPts <= lastPts')
  <2>1. CASE ChooseSide
    <3>1. PICK s \in Sides : lastPts' = Larger(lastPts, next[s])
      BY <2>1 DEF ChooseSide, Sides
    <3>2. next[s] \in Nat
      BY <1>0, <2>1 DEF ChooseSide, Visit, Timeline, Numbers, Sides
    <3>3. lastPts \in Nat \cup {None} /\ None < 0
      BY <1>0 DEF Numbers, None
    <3> QED BY <3>1, <3>2, <3>3 DEF Larger
  <2>2. CASE ~ChooseSide
    BY <2>2 DEF Next, QueueThread, StartNextTrack, CleanUp, ReceiveStart, ProbeReady, Check,
                TakeBatch, QueueNewTrack, AbortOldTrack, Pause, Resume, Start, Elapse, vars
  <2> QED BY <2>1, <2>2
<1>2. lastPts # None => lastPts' # None
  BY <1>0, <1>1 DEF Numbers, None
<1>3. calls'.pause > 0 => lastPts' # None
  <2>1. CASE Pause
    BY <1>2, <2>1 DEF Pause
  <2>2. CASE ~Pause
    <3>1. calls'.pause = calls.pause
      BY <1>0, <2>2 DEF Next, QueueThread, StartNextTrack, CleanUp, ReceiveStart, ProbeReady,
                  Check, ChooseSide, TakeBatch, QueueNewTrack, AbortOldTrack, Resume, Start,
                  Elapse, vars, Numbers
    <3> QED BY <1>0, <1>2, <3>1
  <2> QED BY <2>1, <2>2
<1>4. pausedAt' # None => pausedAt' <= lastPts'
  <2>1. \/ pausedAt' = pausedAt \/ pausedAt' = None
        \/ /\ pausedAt' = EffectiveLastPts /\ lastPts' = lastPts /\ lastPts # None
    <3>1. ASSUME ReplaceTrack, lastPts' = lastPts
          PROVE  \/ pausedAt' = None
                 \/ pausedAt' = EffectiveLastPts /\ lastPts # None
      BY <1>0, <3>1, ReplaceEffect
    <3>2. ASSUME NEW s \in Sides, StartNextTrack("track", s) \/ StartNextTrack("retrack", s)
          PROVE  \/ pausedAt' = pausedAt \/ pausedAt' = None
                 \/ /\ pausedAt' = EffectiveLastPts /\ lastPts' = lastPts /\ lastPts # None
      BY <3>1, <3>2 DEF StartNextTrack, trackVars
    <3>3. CASE AbortOldTrack
      BY <3>1, <3>3 DEF AbortOldTrack
    <3>4. CASE Pause
      BY <3>4 DEF Pause
    <3>5. CASE \/ \E s \in Sides : CleanUp(s) \/ ProbeReady(s) \/ Check(s) \/ TakeBatch(s)
               \/ ReceiveStart \/ ChooseSide \/ QueueNewTrack \/ Resume \/ Start \/ Elapse
               \/ UNCHANGED vars
      BY <3>5 DEF CleanUp, ProbeReady, Check, TakeBatch, ReceiveStart, ChooseSide,
                  QueueNewTrack, Resume, Start, Elapse, vars, trackVars
    <3> QED BY <3>2, <3>3, <3>4, <3>5 DEF Next, QueueThread
  <2>2. CASE pausedAt' = pausedAt
    BY <1>0, <1>1, <2>2 DEF Numbers
  <2>3. CASE pausedAt' = EffectiveLastPts /\ lastPts' = lastPts /\ lastPts # None
    BY <1>0, <2>3 DEF EffectiveLastPts
  <2> QED BY <2>1, <2>2, <2>3
<1>5. offset' # None => offset' >= 0
  <2>1. CASE Resume
    <3>1. offset' = Shifted /\ pausedAt # None
      BY <2>1 DEF Resume
    <3>2. EffectiveLastPts = lastPts /\ pausedAt \in Nat /\ lastPts \in Nat
      BY <1>0, <3>1 DEF EffectiveLastPts, Numbers
    <3> QED BY <1>0, <3>1, <3>2 DEF Shifted, Numbers
  <2>2. CASE ~Resume
    BY <1>0, <2>2, OffsetStep DEF Settles
  <2> QED BY <2>1, <2>2
<1> QED BY <1>3, <1>4, <1>5 DEF PausedInRun

LEMMA CleanedPastStep ==
  Base /\ CleanedPast /\ [Next]_vars => CleanedPast'
<1> SUFFICES ASSUME Base, CleanedPast, [Next]_vars PROVE CleanedPast'
  OBVIOUS
<1>0. Timeline /\ Numbers
  BY DEF Base
<1>1. ASSUME NEW s \in Sides, CleanUp(s) PROVE CleanedPast'
  BY <1>0, <1>1 DEF CleanUp, CleanedPast, Numbers
<1>2. CASE Resume
  BY <1>0, <1>2 DEF Resume, Timeline, CleanedPast
<1>3. CASE Pause
  BY <1>0, <1>3 DEF Pause, CleanedPast, Numbers
<1>4. CASE Elapse
  BY <1>0, <1>4 DEF Elapse, CleanedPast, Numbers, ghostVars
<1>5. CASE AbortOldTrack
  <2>1. calls'.pause = calls.pause
    BY <1>0, <1>5 DEF AbortOldTrack, Numbers
  <2> QED BY <1>5, <2>1 DEF AbortOldTrack, CleanedPast
<1>6. CASE \/ \E s \in Sides : \/ StartNextTrack("track", s) \/ StartNextTrack("retrack", s)
                               \/ ProbeReady(s) \/ Check(s) \/ TakeBatch(s)
           \/ ReceiveStart \/ ChooseSide \/ QueueNewTrack \/ Start \/ UNCHANGED vars
  BY <1>6 DEF StartNextTrack, ProbeReady, Check, TakeBatch, ReceiveStart, ChooseSide,
              QueueNewTrack, Start, vars, ghostVars, CleanedPast
<1> QED BY <1>1, <1>2, <1>3, <1>4, <1>5, <1>6 DEF Next, QueueThread

LEMMA PauseCorrect == Spec => [](Base /\ PausedInRun /\ CleanedPast)
<1>1. Init => PausedInRun /\ CleanedPast
  BY DEF Init, PausedInRun, CleanedPast, None
<1> QED BY <1>1, InitBase, BaseStep, PausedInRunStep, CleanedPastStep, PTL DEF Spec

\* Once the thread knows of the start, the offset of a paused input does not
\* appear or change.
THEOREM PauseKeepsOffsetCorrect == Spec => PauseKeepsOffset
<1>1. Base /\ [Next]_vars
        => [pausedAt # None /\ pausedAt' = pausedAt /\ cur' = cur /\ next["video"] # None
              => offset' = offset]_vars
  BY PausedStep
<1> QED BY <1>1, BaseCorrect, PTL DEF Spec, PauseKeepsOffset

\* Once the thread knows of the start, a pause stops the consumption of the input.
THEOREM PauseStopsConsumptionCorrect == Spec => PauseStopsConsumption
<1>1. Base /\ [Next]_vars
        => [pausedAt # None /\ pausedAt' = pausedAt /\ cur' = cur /\ next["video"] # None
              => \A s \in Sides : recv'[s].lo = recv[s].lo]_vars
  BY PausedStep
<1> QED BY <1>1, BaseCorrect, PTL DEF Spec, PauseStopsConsumption

\* A step that leaves the track: what OffsetPlaced asks of it.
StaysPlaced ==
  /\ offset = None /\ offset' # None
       => AskedBeforeTick \/ Placed[cur].by = "pts" \/ offset' = Place(cur)
  /\ offset # None /\ offset' # offset
       => /\ pausedAt # None /\ pausedAt' = None
          /\ offset' = offset + (EffectiveLastPts - pausedAt)

\* A visit of the thread puts an open track where its first item is found.
LEMMA VisitPlaces ==
  ASSUME Base, NEW s \in Sides, pc[2] = s, pc' # pc, cur' = cur, next["video"] # None,
         offset' = offset \/ (Present(s) /\ Fixes(recv[s], offset, next[s], offset'))
  PROVE  StaysPlaced
<1>1. Present(s) => recv[s].track = cur /\ cur \in Tracks
  BY DEF Base, Receivers, Sound, Present
<1>2. Present(s) => Placed[cur].by \in {"none", "pts", "start"}
  BY <1>1, ConstAssumption
<1>3. Moment = next[s]
  BY DEF Moment
<1>4. ASSUME Present(s), Placed[cur].by # "pts"
      PROVE  InitialOffset(recv[s], next[s]) = Place(cur)
  <2>1. CASE Placed[cur].by = "start"
    BY <1>1, <1>4, <2>1 DEF InitialOffset, Place
  <2>2. CASE Placed[cur].by = "none"
    BY <1>1, <1>3, <1>4, <2>2 DEF InitialOffset, Place
  <2> QED BY <1>2, <1>4, <2>1, <2>2
<1> QED BY <1>4 DEF Fixes, StaysPlaced

\* A track that takes the place of another inherits nothing of its offset.
LEMMA ReplacePlaces ==
  ASSUME Base, ReplaceTrack
  PROVE  /\ cur' # cur
         /\ IF Placed[cur'].by = "pts" THEN offset' = Place(cur')
            ELSE \/ AskedBeforeTick \/ offset' = None
                 \/ pausedAt # None /\ offset' = Place(cur')
<1>0. /\ cur \in Nat /\ cur' = cur + 1 /\ cur' \in Tracks
      /\ pausedAt' = IF pausedAt = None THEN None ELSE EffectiveLastPts
      /\ IF Placed[cur'].by = "pts" THEN offset' = Placed[cur'].at
         ELSE pausedAt = None => offset' = None
      /\ offset' # None =>
           /\ Placed[cur'].by = "start" => Started /\ offset' = startPts + Placed[cur'].at
           /\ Placed[cur'].by = "none" =>
                \/ Started /\ offset' \in {EffectiveLastPts, PausePts}
                \/ ~Started /\ offset' = now
  BY ReplaceEffect DEF Base, Numbers
<1>1. cur' # cur
  BY <1>0
<1>2. Placed[cur'].by \in {"none", "pts", "start"}
  BY <1>0, ConstAssumption
<1>3. EffectiveLastPts # None /\ (~Started => lastPts = None)
  <2>1. EffectiveLastPts # None
    BY BaseFacts DEF None
  <2>2. lastPts # None => Started
    BY DEF Base, Timeline, Sides
  <2> QED BY <2>1, <2>2
<1>4. Moment = EffectiveLastPts
  BY <1>1 DEF Moment
<1>5. CASE Placed[cur'].by = "pts"
  BY <1>0, <1>1, <1>5 DEF Place
<1>6. ASSUME Placed[cur'].by # "pts", offset' # None, ~AskedBeforeTick
      PROVE  pausedAt # None /\ offset' = Place(cur')
  <2>1. pausedAt # None
    BY <1>0, <1>6
  <2>2. Started => lastPts # None
    BY <1>0, <1>1, <1>3, <1>6, <2>1 DEF AskedBeforeTick
  <2>3. CASE Placed[cur'].by = "start"
    BY <1>0, <1>6, <2>1, <2>3 DEF Place
  <2>4. CASE Placed[cur'].by = "none"
    <3>1. offset' = EffectiveLastPts
      BY <1>0, <1>3, <1>6, <2>2, <2>4 DEF EffectiveLastPts, PausePts
    <3> QED BY <1>4, <2>1, <2>4, <3>1 DEF Place
  <2> QED BY <1>2, <1>6, <2>3, <2>4
<1> QED BY <1>1, <1>2, <1>5, <1>6

LEMMA OffsetPlacedStep ==
  ASSUME Base, [Next]_vars
  PROVE  IF cur' = cur THEN StaysPlaced
         ELSE IF Placed[cur'].by = "pts" THEN offset' = Place(cur')
         ELSE \/ AskedBeforeTick \/ offset' = None
              \/ pausedAt # None /\ offset' = Place(cur')
<1> DEFINE Goal ==
      IF cur' = cur THEN StaysPlaced
      ELSE IF Placed[cur'].by = "pts" THEN offset' = Place(cur')
      ELSE \/ AskedBeforeTick \/ offset' = None
           \/ pausedAt # None /\ offset' = Place(cur')
<1> SUFFICES Goal
  OBVIOUS
<1>0. Receivers /\ Timeline /\ Numbers
  BY DEF Base
<1>1. ASSUME cur' = cur, offset' = offset PROVE Goal
  BY <1>1 DEF StaysPlaced
<1>2. ASSUME ReplaceTrack PROVE Goal
  BY <1>2, ReplacePlaces
<1> HIDE DEF Goal
<1>3. ASSUME cur' = cur, StaysPlaced PROVE Goal
  BY <1>3 DEF Goal
<1>4. ASSUME NEW s \in Sides, NEW x \in Probe(s), pc[2] = s, pc' # pc, cur' = cur,
             next["video"] # None, offset' = x.cell
      PROVE  Goal
  <2>1. x.cell = offset \/ (Present(s) /\ Fixes(recv[s], offset, next[s], x.cell))
    BY ProbeEffect
  <2> QED BY <1>3, <1>4, <2>1, VisitPlaces
<1>5. ASSUME NEW s \in Sides, StartNextTrack("track", s) \/ StartNextTrack("retrack", s)
      PROVE  Goal
  BY <1>1, <1>2, <1>5 DEF StartNextTrack, trackVars
<1>6. ASSUME NEW s \in Sides, CleanUp(s) PROVE Goal
  <2>1. CASE Present(s)
    <3>1. PICK x \in Cleaned(recv[s], offset) : offset' = x.cell
      BY <1>6, <2>1 DEF CleanUp
    <3>2. Sound(recv[s]) /\ recv[s].track = cur /\ recv[s].st # "absent" /\ now \in Nat
      BY <1>0, <2>1 DEF Receivers, Present, Numbers
    <3>3. \/ x.cell = offset
          \/ offset = None /\ x.cell = now /\ Placed[cur].by # "start"
      BY <1>0, <3>1, <3>2, CleanedEffect DEF Numbers
    <3>4. cur' = cur /\ pc[1] = "clean" /\ pc'[1] = "track"
      BY <1>6, PcAfterCases DEF CleanUp, Visit, PcAfter
    <3>5. Moment = now
      BY <1>0, <3>4 DEF Moment, Timeline
    <3>6. Placed[cur].by \in {"none", "pts", "start"}
      BY <3>2, ConstAssumption DEF Sound
    <3>7. offset' = now /\ Placed[cur].by = "none" => offset' = Place(cur)
      BY <3>5 DEF Place
    <3>8. StaysPlaced
      BY <3>1, <3>3, <3>6, <3>7 DEF StaysPlaced
    <3> QED BY <1>3, <3>4, <3>8
  <2>2. CASE ~Present(s)
    BY <1>1, <1>6, <2>2 DEF CleanUp
  <2> QED BY <2>1, <2>2
<1>7. ASSUME NEW s \in Sides, ProbeReady(s) PROVE Goal
  <2>1. pc[1] = "ready" /\ pc[2] = s /\ cur' = cur /\ next["video"] # None
    BY <1>0, <1>7 DEF Timeline, ProbeReady, Visit
  <2>2. pc'[1] # "ready"
    BY <1>7 DEF ProbeReady, PcAfter
  <2> QED BY <1>4, <1>7, <2>1, <2>2 DEF ProbeReady
<1>8. ASSUME NEW s \in Sides, Check(s) PROVE Goal
  <2>1. pc[1] = "check" /\ pc[2] = s /\ cur' = cur /\ next["video"] # None
    BY <1>0, <1>8 DEF Timeline, Check, Visit
  <2>2. pc'[1] # "check"
    BY <1>8 DEF Check
  <2>3. PICK x \in Probe(s) : offset' = x.cell
    BY <1>8 DEF Check
  <2> QED BY <1>4, <2>1, <2>2, <2>3
<1>9. ASSUME NEW s \in Sides, TakeBatch(s) PROVE Goal
  <2>1. pc[1] = "take" /\ pc[2] = s /\ cur' = cur /\ next["video"] # None
    BY <1>0, <1>9 DEF Timeline, TakeBatch, Visit
  <2>2. pc' # pc
    BY <1>9, <2>1 DEF TakeBatch, PcAfter
  <2>3. CASE Present(s) /\ pausedAt = None
    <3>1. PICK x \in Taken(s) : offset' = x.cell
      BY <1>9, <2>3 DEF TakeBatch
    <3>2. Fixes(recv[s], offset, next[s], x.cell)
      BY <1>0, <2>3, <3>1, BaseFacts, TakenEffect DEF Receivers
    <3> QED BY <1>3, <2>1, <2>2, <2>3, <3>1, <3>2, VisitPlaces
  <2>4. CASE ~(Present(s) /\ pausedAt = None)
    <3>1. offset' = offset
      BY <1>9, <2>4 DEF TakeBatch, Taken
    <3> QED BY <1>1, <2>1, <3>1
  <2> QED BY <2>3, <2>4
<1>10. CASE Pause
  <2>1. PICK x \in Frozen(recv["video"], offset) : offset' = x.cell
    BY <1>10 DEF Pause
  <2>2. cur' = cur /\ pc' = pc /\ pausedAt' = EffectiveLastPts /\ EffectiveLastPts # None
    BY <1>10, BaseFacts DEF Pause, None
  <2>3. Sound(recv["video"]) /\ recv["video"].side = "video" /\ recv["video"].track = cur
    BY <1>0 DEF Receivers, Sides
  <2>4. \/ x.cell = offset
        \/ /\ recv["video"].st # "absent" /\ Started
           /\ Fixes(recv["video"], offset, PausePts, x.cell)
    BY <2>1, <2>3, BaseFacts, FrozenEffect
  <2>5. ASSUME offset = None, offset' # None, ~AskedBeforeTick, Placed[cur].by # "pts"
        PROVE  offset' = Place(cur)
    <3>1. /\ Started /\ cur \in Tracks /\ lastPts # None
          /\ offset' = InitialOffset(recv["video"], PausePts)
      BY <2>1, <2>2, <2>3, <2>4, <2>5 DEF Sound, Fixes, AskedBeforeTick
    <3>2. Placed[cur].by \in {"none", "start"}
      BY <2>5, <3>1, ConstAssumption
    <3>3. Moment = lastPts /\ PausePts = lastPts
      BY <2>2, <3>1 DEF Moment, EffectiveLastPts, PausePts
    <3> QED BY <2>3, <3>1, <3>2, <3>3 DEF InitialOffset, Place
  <2>6. offset # None => offset' = offset
    BY <2>1, <2>4 DEF Fixes
  <2>7. StaysPlaced
    BY <2>5, <2>6 DEF StaysPlaced
  <2> QED BY <1>3, <2>2, <2>7
<1>11. CASE AbortOldTrack
  BY <1>2, <1>11 DEF AbortOldTrack
<1>12. CASE Resume
  <2>1. cur' = cur /\ StaysPlaced
    BY <1>12 DEF Resume, Shifted, StaysPlaced
  <2> QED BY <1>3, <2>1
<1>13. CASE ReceiveStart \/ ChooseSide \/ QueueNewTrack \/ Start \/ Elapse \/ UNCHANGED vars
  BY <1>1, <1>13 DEF ReceiveStart, ChooseSide, QueueNewTrack, Start, Elapse, vars, trackVars
<1> QED BY <1>5, <1>6, <1>7, <1>8, <1>9, <1>10, <1>11, <1>12, <1>13 DEF Next, QueueThread

\* A track is put exactly where the caller said or where its first item is found,
\* whichever visit or call finds it; it then moves by the pauses only, and another
\* track inherits nothing.
THEOREM OffsetPlacedCorrect == Spec => OffsetPlaced
<1> DEFINE A ==
      /\ offset = None /\ offset' # None /\ cur' = cur
           => AskedBeforeTick \/ Placed[cur].by = "pts" \/ offset' = Place(cur)
      /\ offset # None /\ offset' # offset /\ cur' = cur
           => /\ pausedAt # None /\ pausedAt' = None
              /\ offset' = offset + (EffectiveLastPts - pausedAt)
      /\ cur' # cur
           => IF Placed[cur'].by = "pts" THEN offset' = Place(cur')
              ELSE \/ AskedBeforeTick \/ offset' = None
                   \/ pausedAt # None /\ offset' = Place(cur')
<1>1. Base /\ [Next]_vars => [A]_vars
  BY OffsetPlacedStep DEF StaysPlaced
<1> QED BY <1>1, BaseCorrect, PTL DEF Spec, OffsetPlaced
-----------------------------------------------------------------------------
(* A check that said "ready" still holds when the batch is taken. *)

\* Between the check and the batch nobody took the data away or moved the offset,
\* unless a caller came in between.
SureReady ==
  pc[1] = "take" /\ sure =>
    /\ pausedAt = None /\ offset # None
    /\ recv[pc[2]].st # "absent" =>
         ReadyFor(recv[pc[2]], Needed(pc[2], next[pc[2]]) - offset)

LEMMA SureReadyStep ==
  Base /\ SureReady /\ [Next]_vars => SureReady'
<1> SUFFICES ASSUME Base, SureReady, [Next]_vars PROVE SureReady'
  OBVIOUS
<1>0. Receivers /\ Timeline /\ Numbers
  BY DEF Base
<1>1. ASSUME NEW s \in Sides, Check(s) PROVE SureReady'
  <2>1. PICK x \in Probe(s) :
          /\ recv' = [recv EXCEPT ![s] = x.r] /\ offset' = x.cell
          /\ pc' = <<"take", s>> \/ pc' = <<"track", "video">>
          /\ sure' => x.ready /\ x.cell # None /\ pausedAt = None
    BY <1>1 DEF Check
  <2>2. pausedAt' = pausedAt /\ next' = next
    BY <1>1 DEF Check
  <2>3. recv'[s] = x.r
    BY <1>0, <2>1 DEF Receivers
  <2>4. ASSUME pc' = <<"take", s>>, sure'
        PROVE  /\ pausedAt' = None /\ offset' # None
               /\ recv'[s].st # "absent" =>
                    ReadyFor(recv'[s], Needed(s, next'[s]) - offset')
    <3>1. x.ready /\ x.cell # None /\ pausedAt = None
      BY <2>1, <2>4
    <3>2. x.r.st # "absent" => ReadyFor(x.r, Needed(s, next[s]) - x.cell)
      BY <3>1, ProbeEffect DEF Present
    <3> QED BY <2>1, <2>2, <2>3, <3>1, <3>2
  <2>5. CASE pc' = <<"take", s>>
    BY <2>4, <2>5 DEF SureReady
  <2>6. CASE pc' = <<"track", "video">>
    BY <2>6 DEF SureReady
  <2> QED BY <2>1, <2>5, <2>6
<1>2. ASSUME NEW s \in Sides, TakeBatch(s) PROVE SureReady'
  BY <1>2 DEF TakeBatch, SureReady
<1>3. CASE AbortOldTrack \/ Pause \/ Resume
  BY <1>3 DEF AbortOldTrack, Pause, Resume, SureReady
<1>4. ASSUME NEW s \in Sides, StartNextTrack("track", s) \/ StartNextTrack("retrack", s)
      PROVE  SureReady'
  <2>1. \/ pc' = PcAfter(s)["track"]
        \/ pc' = PcAfter(s)["retrack"]
    BY <1>4 DEF StartNextTrack
  <2>2. pc' \in {<<"clean", s>>, <<"ready", s>>, <<"check", s>>}
    BY <2>1, PcAfterCases, Zenon
  <2> QED BY <2>2 DEF SureReady
<1>5. ASSUME NEW s \in Sides, CleanUp(s) \/ ProbeReady(s)
      PROVE  SureReady'
  <2>1. pc' = PcAfter(s)["clean"] \/ pc' = PcAfter(s)["ready"]
    BY <1>5 DEF CleanUp, ProbeReady
  <2>2. pc' \in {<<"track", "audio">>, <<"track", "video">>, <<"choose", "video">>}
    BY <2>1, PcAfterCases, Zenon
  <2> QED BY <2>2 DEF SureReady
<1>6. CASE ReceiveStart
  BY <1>6 DEF ReceiveStart, Visit, SureReady
<1>7. CASE ChooseSide
  <2>1. pc'[1] # "take"
    BY <1>7 DEF ChooseSide
  <2> QED BY <2>1 DEF SureReady
<1>8. CASE QueueNewTrack \/ Start \/ Elapse \/ UNCHANGED vars
  BY <1>8 DEF QueueNewTrack, Start, Elapse, vars, trackVars, ghostVars, SureReady
<1> QED BY <1>1, <1>2, <1>3, <1>4, <1>5, <1>6, <1>7, <1>8 DEF Next, QueueThread

\* When the batch remembered in `out` appears, stays and goes.
LEMMA OutStep ==
  ASSUME Base, [Next]_vars
  PROVE  \/ out' = {}
         \/ out' = out /\ (cleaned' = cleaned \/ Resume)
         \/ \E s \in Sides : TakeBatch(s) /\ Present(s)
<1>1. ASSUME NEW s \in Sides, TakeBatch(s)
      PROVE  out' = {} \/ \E z \in Sides : TakeBatch(z) /\ Present(z)
  <2>1. CASE Present(s)
    BY <1>1, <2>1
  <2>2. CASE ~Present(s)
    BY <1>1, <2>2 DEF TakeBatch
  <2> QED BY <2>1, <2>2
<1>2. ASSUME NEW s \in Sides, CleanUp(s) PROVE out' = {}
  <2>1. out = {}
    BY <1>2 DEF CleanUp, Visit, Base, OneBatch
  <2> QED BY <1>2, <2>1 DEF CleanUp
<1>3. ASSUME NEW s \in Sides, StartNextTrack("track", s) \/ StartNextTrack("retrack", s)
      PROVE  out' = {}
  BY <1>3 DEF StartNextTrack
<1>4. CASE \/ \E s \in Sides : ProbeReady(s) \/ Check(s)
           \/ ReceiveStart \/ ChooseSide \/ QueueNewTrack \/ AbortOldTrack \/ Pause
           \/ Start \/ Elapse \/ UNCHANGED vars
  BY <1>4 DEF ProbeReady, Check, ReceiveStart, ChooseSide, QueueNewTrack, AbortOldTrack,
              Pause, Start, Elapse, vars, ghostVars
<1>5. CASE Resume
  BY <1>5 DEF Resume
<1> QED BY <1>1, <1>2, <1>3, <1>4, <1>5 DEF Next, QueueThread

\* What a batch of side s is made of: either it takes nothing, or it looks at the
\* PTS that the offset gives, with the receiver Takes allows.
BatchOf(s, x, o) ==
  /\ recv' = [recv EXCEPT ![s] = x.r] /\ recv'[s] = x.r /\ offset' = x.cell
  /\ out' = {o} /\ o.side = s /\ o.pts = next[s] /\ o.at = x.at
  /\ o.items = x.items /\ o.eos = x.eos /\ o.sure = sure
  /\ o.count = Count(x.r) /\ o.popped = x.r.lo
  /\ o.over = (recv[s].st = "done")
  /\ Sound(x.r) /\ x.r.side = s /\ x.r.track = cur /\ x.cell \in Int
  /\ \/ pausedAt # None /\ x.r = recv[s] /\ x.cell = offset /\ x.at = None
          /\ x.eos = FALSE
     \/ /\ pausedAt = None
        /\ Grown(recv[s], x.r) /\ Fixes(recv[s], offset, next[s], x.cell)
        /\ \/ x.at = None /\ x.r.lo = recv[s].lo /\ (s = "video" => x.cell = None)
           \/ /\ x.cell # None /\ x.at = Needed(s, next[s]) - x.cell
              /\ Takes(recv[s], x.r, x.items, x.at)
        /\ x.eos => x.r.st = "done"

LEMMA BatchEffect ==
  ASSUME Base, NEW s \in Sides, TakeBatch(s), Present(s), NEW o \in out'
  PROVE  \E x : BatchOf(s, x, o)
<1>0. /\ Sound(recv[s]) /\ recv[s].side = s /\ recv[s].track = cur
      /\ startPts \in Int /\ offset \in Int /\ next[s] \in Int
      /\ recv \in [Sides -> ReceiverType]
  BY BaseFacts DEF Base, Receivers
<1>1. PICK x \in Taken(s) :
        /\ recv' = [recv EXCEPT ![s] = x.r] /\ offset' = x.cell
        /\ out' = {[side |-> s, pts |-> next[s], at |-> x.at, items |-> x.items,
                    eos |-> x.eos, sure |-> sure, count |-> Count(x.r),
                    popped |-> x.r.lo, over |-> recv[s].st = "done"]}
  BY DEF TakeBatch
<1>2. o = [side |-> s, pts |-> next[s], at |-> x.at, items |-> x.items,
           eos |-> x.eos, sure |-> sure, count |-> Count(x.r),
           popped |-> x.r.lo, over |-> recv[s].st = "done"]
  BY <1>1
<1>3. /\ out' = {o} /\ o.side = s /\ o.pts = next[s] /\ o.at = x.at
      /\ o.items = x.items /\ o.eos = x.eos /\ o.sure = sure
      /\ o.count = Count(x.r) /\ o.popped = x.r.lo
      /\ o.over = (recv[s].st = "done")
  BY <1>1, <1>2
<1>4. recv'[s] = x.r
  BY <1>0, <1>1
<1>5. CASE pausedAt # None
  <2>1. x.r = recv[s] /\ x.cell = offset /\ x.at = None /\ x.eos = FALSE
    BY <1>1, <1>5 DEF Taken
  <2>2. Sound(x.r) /\ x.r.side = s /\ x.r.track = cur /\ x.cell \in Int
    BY <1>0, <2>1
  <2> QED BY <1>1, <1>3, <1>4, <1>5, <2>1, <2>2 DEF BatchOf
<1>6. CASE pausedAt = None
  <2>1. /\ Grown(recv[s], x.r) /\ x.cell \in Int
        /\ Fixes(recv[s], offset, next[s], x.cell)
        /\ \/ x.at = None /\ x.r.lo = recv[s].lo /\ (s = "video" => x.cell = None)
           \/ /\ x.cell # None /\ x.at = Needed(s, next[s]) - x.cell
              /\ Takes(recv[s], x.r, x.items, x.at)
        /\ x.eos => x.r.st = "done"
    BY <1>0, <1>1, <1>6, TakenEffect
  <2>2. Sound(x.r) /\ x.r.side = s /\ x.r.track = cur
    BY <1>0, <2>1 DEF Grown
  <2> QED BY <1>1, <1>3, <1>4, <1>6, <2>1, <2>2 DEF BatchOf
<1> QED BY <1>5, <1>6

LEMMA TimelyAudioStep ==
  Base /\ SureReady /\ TimelyAudio /\ [Next]_vars => TimelyAudio'
<1> SUFFICES ASSUME Base, SureReady, TimelyAudio, [Next]_vars PROVE TimelyAudio'
  OBVIOUS
<1>1. CASE out' = {} \/ out' = out
  BY <1>1 DEF TimelyAudio
<1>2. ASSUME NEW s \in Sides, TakeBatch(s), Present(s), NEW o \in out',
             o.side = "audio", o.sure, o.at # None, NEW k \in 1 .. o.count,
             Pts("audio", k) < o.at
      PROVE  k <= o.popped
  <2>0. PICK x : BatchOf(s, x, o)
    BY <1>2, BatchEffect
  <2>1. /\ o.side = s /\ o.at = x.at /\ o.sure = sure
        /\ o.count = Count(x.r) /\ o.popped = x.r.lo
        /\ \/ x.at = None
           \/ /\ Grown(recv[s], x.r) /\ Fixes(recv[s], offset, next[s], x.cell)
              /\ x.cell # None /\ x.at = Needed(s, next[s]) - x.cell
              /\ Takes(recv[s], x.r, x.items, x.at)
    BY <2>0 DEF BatchOf
  <2>2. /\ Fixes(recv[s], offset, next[s], x.cell)
        /\ x.at = Needed(s, next[s]) - x.cell /\ Takes(recv[s], x.r, x.items, x.at)
        /\ Grown(recv[s], x.r) /\ s = "audio"
    BY <1>2, <2>1
  <2>3. pc = <<"take", s>> /\ sure
    BY <1>2, <2>1 DEF TakeBatch, Visit
  <2>4. offset # None /\ ReadyFor(recv[s], Needed(s, next[s]) - offset)
    BY <1>2, <2>3 DEF SureReady, Present
  <2>5. x.cell = offset
    BY <2>2, <2>4 DEF Fixes
  <2>6. recv[s].side = "audio" /\ Count(x.r) = Count(recv[s])
    BY <2>2 DEF Base, Receivers, Grown, Count
  <2>7. \A l \in 1 .. Count(recv[s]) : Pts("audio", l) < x.at => l <= x.r.lo
    BY <2>2, <2>4, <2>5, <2>6 DEF Takes
  <2> QED BY <1>2, <2>1, <2>6, <2>7
<1>3. CASE \E s \in Sides : TakeBatch(s) /\ Present(s)
  BY <1>2, <1>3 DEF TimelyAudio
<1> QED BY <1>1, <1>3, OutStep

\* When the thread found the input ready for a chunk, the chunk gets every sample
\* that begins before its end and the stretch buffer, whatever arrived when.
THEOREM TimelyAudioCorrect == Spec => []TimelyAudio
<1>1. Init => SureReady /\ TimelyAudio
  BY DEF Init, SureReady, TimelyAudio
<1>2. Base /\ SureReady /\ TimelyAudio /\ [Next]_vars => (SureReady /\ TimelyAudio)'
  BY SureReadyStep, TimelyAudioStep
<1> QED BY <1>1, <1>2, BaseCorrect, PTL DEF Spec
-----------------------------------------------------------------------------
(* How far a stream was used up. *)

\* The frame at the front, once frames were dropped before it, is due by p.
FrontBy(r, c, p) ==
  r.lo > 0 /\ r.lo < r.hi => c # None /\ Pts("video", r.lo + 1) <= p - c

\* The last frame went when it was due by p.
EndBy(r, c, p) ==
  r.lo = r.hi /\ r.hi > 0 => c # None /\ Pts("video", r.hi) <= p - c

\* The samples that went begin before p.
SamplesBy(r, c, p) ==
  r.lo > 0 => c # None /\ Pts("audio", r.lo) < p - c

\* Up to where the thread drops frames when it asks whether the input is ready.
Horizon == IF next["video"] # None THEN next["video"]
           ELSE IF Started THEN startPts ELSE now

\* Up to where the input was played: the last batch, or the pause.
Position == IF pausedAt # None THEN pausedAt
            ELSE IF lastPts # None THEN lastPts
            ELSE IF Started THEN startPts ELSE now

\* The two invariants.  The first is about an input nobody paused: resume moves the
\* offset by the length of the pause, though the frames were dropped up to Horizon,
\* which is ahead of last_pts.
FrontDue == calls.pause = 0 => FrontBy(recv["video"], offset, Larger(Horizon, cleaned))

Consumed ==
  ~PauseEarly =>
    /\ EndBy(recv["video"], offset, Position)
    /\ SamplesBy(recv["audio"], offset,
                 Larger(Position + Period["audio"] + Stretch, cleaned))

\* A visit to the video: nothing went, or frames went up to p.
LEMMA VideoMoves ==
  ASSUME NEW r, NEW q, Sound(r), r.side = "video", q = r \/ Grown(r, q),
         NEW c \in Int, NEW d \in Int, d = c \/ c = None,
         NEW p \in Int, NEW h \in Int, p <= h
  PROVE  /\ FrontBy(r, c, p)
              /\ \/ q.lo = r.lo \/ q.lo = q.hi
                 \/ d # None /\ Pts("video", q.lo + 1) <= h - d
            => FrontBy(q, d, h)
         /\ EndBy(r, c, p)
              /\ \/ q.lo = r.lo \/ q.lo < q.hi
                 \/ d # None /\ Pts("video", q.hi) <= h - d
            => EndBy(q, d, h)
<1>1. /\ r.lo \in Nat /\ r.hi \in Nat /\ q.lo \in Nat /\ q.hi \in Nat
      /\ r.lo <= r.hi /\ q.lo <= q.hi /\ r.lo <= q.lo /\ r.hi <= q.hi
      /\ r.lo = r.hi /\ r.hi > 0 => q.hi = r.hi
  BY DEF Sound, ReceiverType, Grown
<1>2. Pts("video", q.lo + 1) \in Int /\ Pts("video", q.hi) \in Int
  <2>1. "video" \in Sides /\ q.lo + 1 \in Nat /\ q.hi \in Nat
    BY <1>1 DEF Sides
  <2> QED BY <2>1, PtsOrder
<1>3. ASSUME q.lo = r.lo, FrontBy(r, c, p) PROVE FrontBy(q, d, h)
  BY <1>1, <1>2, <1>3 DEF FrontBy
<1>4. ASSUME q.lo = r.lo, EndBy(r, c, p) PROVE EndBy(q, d, h)
  <2>1. SUFFICES ASSUME q.lo = q.hi, q.hi > 0
                 PROVE  d # None /\ Pts("video", q.hi) <= h - d
    BY DEF EndBy
  <2>2. r.lo = r.hi /\ r.hi > 0 /\ q.hi = r.hi
    BY <1>1, <1>4, <2>1
  <2> QED BY <1>2, <1>4, <2>2 DEF EndBy
<1> QED BY <1>1, <1>3, <1>4 DEF FrontBy, EndBy

\* The same for audio.
LEMMA AudioMoves ==
  ASSUME NEW r, NEW q, Sound(r), q = r \/ Grown(r, q),
         NEW c \in Int, NEW d \in Int, d = c \/ c = None,
         NEW p \in Int, NEW h \in Int, p <= h
  PROVE  SamplesBy(r, c, p)
           /\ (q.lo = r.lo \/ (d # None /\ Pts("audio", q.lo) < h - d))
         => SamplesBy(q, d, h)
<1>1. r.lo \in Nat /\ Pts("audio", r.lo) \in Int
  BY PtsOrder DEF Sound, ReceiverType, Sides
<1> QED BY <1>1 DEF SamplesBy

\* A batch needs at most this: the chunk and the stretch buffer of the mixer.
LEMMA AudioNeed ==
  ASSUME NEW p \in Int
  PROVE  /\ Period["audio"] \in Nat /\ Stretch \in Nat
         /\ p + Period["audio"] + Stretch \in Int
         /\ Needed("audio", p) = p + Period["audio"] + Stretch
         /\ p <= p + Period["audio"] + Stretch
<1>1. Period["audio"] \in Nat /\ Stretch \in Nat
  BY ConstAssumption DEF Sides
<1> QED BY <1>1 DEF Needed

LEMMA TimesType ==
  ASSUME Base
  PROVE  /\ Horizon \in Nat /\ Position \in Nat /\ cleaned \in Int /\ now \in Nat
         /\ Larger(Horizon, cleaned) \in Int
         /\ Larger(Position + Period["audio"] + Stretch, cleaned) \in Int
<1>1. Horizon \in Nat /\ Position \in Nat /\ cleaned \in Int /\ now \in Nat
  BY DEF Base, Numbers, Horizon, Position, Started, Sides
<1>2. Position + Period["audio"] + Stretch \in Int
  BY <1>1, AudioNeed
<1> QED BY <1>1, <1>2 DEF Larger

\* No step goes back in time, except that resume moves what was cleaned up with
\* the offset.
LEMMA HorizonStep ==
  ASSUME Base, CleanedPast, [Next]_vars, calls'.pause = 0
  PROVE  Horizon <= Horizon' /\ cleaned <= cleaned' /\ calls.pause = 0
<1>0. Timeline /\ Numbers /\ (\A s \in Sides : Period[s] \in Nat)
  BY ConstAssumption DEF Base
<1>1. calls.pause = 0
  <2>1. CASE Pause
    BY <1>0, <2>1 DEF Pause, Numbers
  <2>2. CASE ~Pause
    BY <1>0, <2>2 DEF Next, QueueThread, StartNextTrack, CleanUp, ReceiveStart, ProbeReady,
                Check, ChooseSide, TakeBatch, QueueNewTrack, AbortOldTrack, Resume, Start,
                Elapse, vars, Numbers
  <2> QED BY <2>1, <2>2
<1>2. cleaned <= cleaned'
  <2>1. ASSUME NEW s \in Sides, CleanUp(s) PROVE cleaned <= cleaned'
    BY <1>0, <1>1, <2>1 DEF CleanUp, CleanedPast, Numbers
  <2>2. ~Resume
    BY <1>0, <1>1 DEF Resume, Timeline
  <2>3. CASE ~\E s \in Sides : CleanUp(s)
    <3>1. cleaned' = cleaned
      BY <2>2, <2>3 DEF Next, QueueThread, StartNextTrack, ReceiveStart, ProbeReady, Check,
                  ChooseSide, TakeBatch, QueueNewTrack, AbortOldTrack, Pause, Start, Elapse,
                  vars, ghostVars
    <3> QED BY <1>0, <3>1 DEF Numbers
  <2> QED BY <2>1, <2>3
<1>3. Horizon <= Horizon'
  <2>0. Horizon \in Nat
    BY TimesType
  <2>1. CASE ReceiveStart
    <3>1. next'["video"] = startPts /\ Started /\ next["video"] = None
      BY <2>1 DEF ReceiveStart, Sides
    <3>2. Horizon = startPts /\ Horizon' = startPts
      BY <1>0, <3>1 DEF Horizon, Started
    <3> QED BY <2>0, <3>2
  <2>2. ASSUME NEW s \in Sides, TakeBatch(s) PROVE Horizon <= Horizon'
    <3>1. next["video"] # None /\ next["video"] \in Nat
      BY <1>0, <2>2 DEF TakeBatch, Visit, Timeline, Numbers, Sides
    <3>2. next'["video"] = next["video"] \/ next'["video"] = next["video"] + Period["video"]
      BY <1>0, <2>2 DEF TakeBatch, Numbers, Sides
    <3>3. next'["video"] \in Nat /\ next["video"] <= next'["video"] /\ next'["video"] # None
      BY <1>0, <3>1, <3>2 DEF Sides, None
    <3> QED BY <3>1, <3>3 DEF Horizon
  <2>3. CASE Start
    <3>1. startPts = None /\ startPts' = now /\ now' = now /\ next' = next /\ now # None
      BY <1>0, <2>3 DEF Start, Started, Numbers, None
    <3>2. Horizon' = Horizon
      BY <3>1 DEF Horizon, Started
    <3> QED BY <2>0, <3>2
  <2>4. CASE Elapse
    <3>1. now' = now + 1 /\ startPts' = startPts /\ next' = next
      BY <2>4 DEF Elapse
    <3>2. Horizon' = Horizon \/ Horizon' = Horizon + 1
      BY <3>1 DEF Horizon, Started
    <3> QED BY <2>0, <3>2
  <2>5. CASE ~(ReceiveStart \/ Start \/ Elapse \/ \E s \in Sides : TakeBatch(s))
    <3>1. now' = now /\ startPts' = startPts /\ next' = next
      BY <2>5 DEF Next, QueueThread, StartNextTrack, CleanUp, ProbeReady, Check, ChooseSide,
                  QueueNewTrack, AbortOldTrack, Pause, Resume, vars
    <3>2. Horizon' = Horizon
      BY <3>1 DEF Horizon, Started
    <3> QED BY <2>0, <3>2
  <2> QED BY <2>1, <2>2, <2>3, <2>4, <2>5
<1> QED BY <1>1, <1>2, <1>3

LEMMA PositionStep ==
  ASSUME Base, CleanedPast, PausedInRun, ~PauseEarly, [Next]_vars, ~Resume
  PROVE  Position <= Position' /\ cleaned <= cleaned'
<1>0. /\ Timeline /\ Numbers /\ Position \in Nat /\ EffectiveLastPts \in Nat
      /\ calls.pause > 0 => lastPts # None
      /\ pausedAt # None => lastPts # None /\ pausedAt <= lastPts
  BY TimesType, BaseFacts DEF Base, PausedInRun, Timeline, Numbers
<1>1. cleaned <= cleaned'
  <2>1. ASSUME NEW s \in Sides, CleanUp(s) PROVE cleaned <= cleaned'
    <3>1. lastPts = None
      BY <1>0, <2>1 DEF CleanUp, Visit, Timeline
    <3>2. calls.pause = 0
      BY <1>0, <3>1 DEF Numbers
    <3> QED BY <1>0, <2>1, <3>2 DEF CleanUp, CleanedPast, Numbers
  <2>2. CASE ~\E s \in Sides : CleanUp(s)
    <3>1. cleaned' = cleaned
      BY <2>2 DEF Next, QueueThread, StartNextTrack, ReceiveStart, ProbeReady, Check,
                  ChooseSide, TakeBatch, QueueNewTrack, AbortOldTrack, Pause, Start, Elapse,
                  vars, ghostVars
    <3> QED BY <1>0, <3>1 DEF Numbers
  <2> QED BY <2>1, <2>2
<1> SUFFICES Position <= Position'
  BY <1>1
<1>2. ASSUME ReplaceTrack, lastPts' = lastPts, now' = now, startPts' = startPts
      PROVE  Position <= Position'
  <2>1. pausedAt' = IF pausedAt = None THEN None ELSE EffectiveLastPts
    BY <1>2, ReplaceEffect
  <2>2. CASE pausedAt = None
    <3>1. Position' = Position
      BY <1>2, <2>1, <2>2 DEF Position, Started
    <3> QED BY <1>0, <3>1
  <2>3. CASE pausedAt # None
    <3>1. pausedAt' = lastPts /\ lastPts # None
      BY <1>0, <2>1, <2>3 DEF EffectiveLastPts
    <3>2. Position' = lastPts /\ Position = pausedAt
      BY <2>3, <3>1 DEF Position
    <3> QED BY <1>0, <2>3, <3>2
  <2> QED BY <2>2, <2>3
<1>3. ASSUME NEW s \in Sides, StartNextTrack("track", s) \/ StartNextTrack("retrack", s)
      PROVE  Position <= Position'
  <2>1. CASE ReplaceTrack
    BY <1>2, <1>3, <2>1 DEF StartNextTrack
  <2>2. CASE UNCHANGED trackVars
    <3>1. Position' = Position
      BY <1>3, <2>2 DEF StartNextTrack, trackVars, Position, Started
    <3> QED BY <1>0, <3>1
  <2> QED BY <1>3, <2>1, <2>2 DEF StartNextTrack
<1>4. CASE AbortOldTrack
  BY <1>2, <1>4 DEF AbortOldTrack
<1>5. CASE Pause
  <2>1. pausedAt = None /\ lastPts # None /\ pausedAt' = lastPts
    BY <1>5 DEF Pause, EffectiveLastPts
  <2>2. Position' = Position
    BY <2>1 DEF Position
  <2> QED BY <1>0, <2>2
<1>6. CASE ChooseSide
  <2>1. PICK s \in Sides : lastPts' = Larger(lastPts, next[s])
    BY <1>6 DEF ChooseSide, Sides
  <2>2. /\ pausedAt' = pausedAt /\ startPts' = startPts /\ now' = now
        /\ next[s] \in Nat /\ Started /\ startPts <= next[s] /\ startPts \in Nat
    BY <1>0, <1>6 DEF ChooseSide, Visit, trackVars, Timeline, Numbers, Sides, Started
  <2>3. lastPts \in Nat \cup {None} /\ None < 0
    BY <1>0 DEF Numbers, None
  <2>4. lastPts' \in Nat /\ next[s] <= lastPts' /\ (lastPts # None => lastPts <= lastPts')
    BY <2>1, <2>2, <2>3 DEF Larger
  <2>5. lastPts' # None
    BY <2>3, <2>4
  <2>6. CASE pausedAt # None
    <3>1. Position' = Position
      BY <2>2, <2>6 DEF Position
    <3> QED BY <1>0, <3>1
  <2>7. CASE pausedAt = None
    <3>1. Position' = lastPts' /\ Position = IF lastPts # None THEN lastPts ELSE startPts
      BY <2>2, <2>5, <2>7 DEF Position
    <3> QED BY <2>2, <2>4, <3>1
  <2> QED BY <2>6, <2>7
<1>7. CASE Start
  <2>1. /\ startPts = None /\ startPts' = now /\ now # None
        /\ lastPts' = lastPts /\ pausedAt' = pausedAt /\ now' = now
    BY <1>0, <1>7 DEF Start, Started, trackVars, Numbers, None
  <2>2. Position' = Position
    BY <2>1 DEF Position, Started
  <2> QED BY <1>0, <2>2
<1>8. CASE Elapse
  <2>1. now' = now + 1 /\ startPts' = startPts /\ lastPts' = lastPts /\ pausedAt' = pausedAt
    BY <1>8 DEF Elapse, trackVars
  <2>2. Position' = Position \/ Position' = Position + 1
    BY <2>1 DEF Position, Started
  <2> QED BY <1>0, <2>2
<1>9. CASE \/ \E s \in Sides : CleanUp(s) \/ ProbeReady(s) \/ Check(s) \/ TakeBatch(s)
           \/ ReceiveStart \/ QueueNewTrack \/ UNCHANGED vars
  <2>1. now' = now /\ startPts' = startPts /\ lastPts' = lastPts /\ pausedAt' = pausedAt
    BY <1>9 DEF CleanUp, ProbeReady, Check, TakeBatch, ReceiveStart, QueueNewTrack, vars,
                trackVars
  <2>2. Position' = Position
    BY <2>1 DEF Position, Started
  <2> QED BY <1>0, <2>2
<1> QED BY <1>3, <1>4, <1>5, <1>6, <1>7, <1>8, <1>9 DEF Next, QueueThread

\* What a step does to the buffers, unless it replaces the track or resumes: frames
\* go up to Horizon or to the last batch, samples up to what the chunk needs.
Used ==
  /\ offset' \in Int /\ (offset' = offset \/ offset = None)
  /\ \A s \in Sides : recv'[s] = recv[s] \/ Grown(recv[s], recv'[s])
  /\ \/ recv'["video"].lo = recv["video"].lo
     \/ /\ offset' # None /\ recv'["video"].lo < recv'["video"].hi
        /\ calls'.pause = 0 =>
             Pts("video", recv'["video"].lo + 1) <= Larger(Horizon', cleaned') - offset'
     \/ /\ offset' # None /\ recv'["video"].lo = recv'["video"].hi
        /\ ~PauseEarly => Pts("video", recv'["video"].hi) <= Position' - offset'
  /\ \/ recv'["audio"].lo = recv["audio"].lo
     \/ /\ offset' # None
        /\ ~PauseEarly =>
             Pts("audio", recv'["audio"].lo)
               < Larger(Position' + Period["audio"] + Stretch, cleaned') - offset'

LEMMA UsedStep ==
  ASSUME Base, PausedInRun, [Next]_vars
  PROVE  Used \/ ReplaceTrack \/ Resume
<1>0. /\ Receivers /\ Timeline /\ Numbers
      /\ startPts \in Int /\ lastPts \in Int /\ offset \in Int /\ pausedAt \in Int
      /\ \A s \in Sides : next[s] \in Int
      /\ \A s \in Sides : Sound(recv[s]) /\ recv[s].side = s
      /\ recv \in [Sides -> ReceiverType]
  BY BaseFacts DEF Base, Receivers
<1>1. /\ Horizon' \in Nat /\ Position' \in Nat /\ cleaned' \in Int /\ offset' \in Int
      /\ recv' \in [Sides -> ReceiverType]
  <2>1. Base'
    BY BaseStep
  <2> QED BY <2>1 DEF Base, Numbers, Receivers, Horizon, Position, Started, Sides
<1>2. /\ Horizon' <= Larger(Horizon', cleaned') /\ cleaned' <= Larger(Horizon', cleaned')
      /\ Larger(Horizon', cleaned') \in Int
      /\ Position' + Period["audio"] + Stretch
           <= Larger(Position' + Period["audio"] + Stretch, cleaned')
      /\ cleaned' <= Larger(Position' + Period["audio"] + Stretch, cleaned')
      /\ Position' <= Position' + Period["audio"] + Stretch
      /\ Position' + Period["audio"] + Stretch \in Int
      /\ Larger(Position' + Period["audio"] + Stretch, cleaned') \in Int
  BY <1>1, AudioNeed DEF Larger
<1>3. \A s \in Sides : /\ Pts("video", recv'[s].lo + 1) \in Int
                       /\ Pts("video", recv'[s].hi) \in Int
                       /\ Pts("audio", recv'[s].lo) \in Int
  <2>1. \A s \in Sides : recv'[s].lo \in Int /\ recv'[s].lo + 1 \in Int /\ recv'[s].hi \in Int
    BY <1>1 DEF ReceiverType
  <2>2. \A k \in Int : Pts("video", k) \in Int /\ Pts("audio", k) \in Int
    BY PtsOrder DEF Sides
  <2> QED BY <2>1, <2>2
<1>4. ASSUME NEW s \in Sides, NEW x \in Probe(s), next["video"] # None, next' = next,
             recv' = [recv EXCEPT ![s] = x.r], offset' = x.cell
      PROVE  Used
  <2>1. recv'[s] = x.r /\ \A z \in Sides : z # s => recv'[z] = recv[z]
    BY <1>0, <1>4
  <2>2. \/ x.r = recv[s] /\ x.cell = offset
        \/ /\ Grown(recv[s], x.r) /\ Fixes(recv[s], offset, next[s], x.cell)
           /\ \/ x.r.lo = recv[s].lo
              \/ /\ s = "video" /\ x.cell # None
                 /\ x.r.lo < x.r.hi /\ Pts("video", x.r.lo + 1) <= next[s] - x.cell
    BY ProbeEffect
  <2>3. Horizon' = next["video"]
    BY <1>4 DEF Horizon
  <2>4. offset' = offset \/ offset = None
    BY <1>4, <2>2 DEF Fixes
  <2>5. \A z \in Sides : recv'[z] = recv[z] \/ Grown(recv[z], recv'[z])
    BY <2>1, <2>2
  <2>6. \/ recv'["video"].lo = recv["video"].lo
        \/ /\ offset' # None /\ recv'["video"].lo < recv'["video"].hi
           /\ Pts("video", recv'["video"].lo + 1) <= Larger(Horizon', cleaned') - offset'
    <3>1. CASE s = "video"
      BY <1>0, <1>1, <1>2, <1>3, <1>4, <2>1, <2>2, <2>3, <3>1 DEF Sides
    <3>2. CASE s # "video"
      BY <2>1, <3>2 DEF Sides
    <3> QED BY <3>1, <3>2
  <2>7. recv'["audio"].lo = recv["audio"].lo
    BY <2>1, <2>2 DEF Sides
  <2> QED BY <1>1, <2>4, <2>5, <2>6, <2>7 DEF Used
<1>5. ASSUME recv' = recv, offset' = offset PROVE Used
  BY <1>0, <1>5 DEF Used
<1>6. ASSUME NEW s \in Sides, StartNextTrack("track", s) \/ StartNextTrack("retrack", s)
      PROVE  Used \/ ReplaceTrack
  BY <1>5, <1>6 DEF StartNextTrack, trackVars
<1>7. ASSUME NEW s \in Sides, CleanUp(s) PROVE Used
  <2>1. CASE Present(s)
    <3>1. PICK x \in Cleaned(recv[s], offset) :
            recv' = [recv EXCEPT ![s] = x.r] /\ offset' = x.cell
      BY <1>7, <2>1 DEF CleanUp
    <3>2. recv[s].st # "absent" /\ now \in Nat
      BY <1>0, <2>1 DEF Present, Numbers
    <3>3. /\ Grown(recv[s], x.r) /\ (x.cell = offset \/ offset = None)
          /\ \/ x.r.lo = recv[s].lo
             \/ /\ x.cell # None /\ s = "video" /\ x.r.lo < x.r.hi
                /\ Pts("video", x.r.lo + 1) <= now - x.cell
             \/ /\ x.cell # None /\ s = "audio"
                /\ Pts("audio", x.r.lo) < now - x.cell
      BY <1>0, <3>1, <3>2, CleanedEffect
    <3>4. recv'[s] = x.r /\ \A z \in Sides : z # s => recv'[z] = recv[z]
      BY <1>0, <3>1
    <3>5. /\ next' = next /\ startPts' = startPts /\ now' = now /\ lastPts' = lastPts
          /\ pausedAt' = pausedAt /\ calls' = calls
          /\ cleaned' = IF Started THEN now ELSE cleaned
          /\ next["video"] = None /\ lastPts = None
      BY <1>0, <1>7 DEF CleanUp, Visit, Timeline
    <3>6. now <= Larger(Horizon', cleaned')
      <4>1. Started => cleaned' = now
        BY <3>5
      <4>2. ~Started => Horizon' = now
        BY <3>5 DEF Horizon, Started
      <4> QED BY <1>2, <4>1, <4>2
    <3>7. ~PauseEarly => now <= Larger(Position' + Period["audio"] + Stretch, cleaned')
      <4>1. Started => cleaned' = now
        BY <3>5
      <4>2. ~PauseEarly /\ ~Started => Position' = now
        <5>1. ~PauseEarly => pausedAt = None
          BY <1>0, <3>5 DEF PausedInRun, Timeline, Numbers
        <5> QED BY <3>5, <5>1 DEF Position, Started
      <4>3. Position' <= Larger(Position' + Period["audio"] + Stretch, cleaned')
        BY <1>1, <1>2
      <4> QED BY <1>2, <4>1, <4>2, <4>3
    <3>8. \A z \in Sides : recv'[z] = recv[z] \/ Grown(recv[z], recv'[z])
      BY <3>3, <3>4
    <3>9. CASE s = "video"
      <4>1. \/ recv'["video"].lo = recv["video"].lo
            \/ /\ offset' # None /\ recv'["video"].lo < recv'["video"].hi
               /\ Pts("video", recv'["video"].lo + 1) <= Larger(Horizon', cleaned') - offset'
        BY <1>1, <1>2, <1>3, <3>1, <3>2, <3>3, <3>4, <3>6, <3>9 DEF Sides
      <4>2. recv'["audio"].lo = recv["audio"].lo
        BY <3>4, <3>9 DEF Sides
      <4> QED BY <1>1, <3>1, <3>3, <3>8, <4>1, <4>2 DEF Used
    <3>10. CASE s = "audio"
      <4>1. recv'["video"].lo = recv["video"].lo
        BY <3>4, <3>10 DEF Sides
      <4>2. \/ recv'["audio"].lo = recv["audio"].lo
            \/ /\ offset' # None
               /\ ~PauseEarly =>
                    Pts("audio", recv'["audio"].lo)
                      < Larger(Position' + Period["audio"] + Stretch, cleaned') - offset'
        BY <1>1, <1>2, <1>3, <3>1, <3>2, <3>3, <3>4, <3>7, <3>10 DEF Sides
      <4> QED BY <1>1, <3>1, <3>3, <3>8, <4>1, <4>2 DEF Used
    <3> QED BY <3>9, <3>10 DEF Sides
  <2>2. CASE ~Present(s)
    BY <1>5, <1>7, <2>2 DEF CleanUp
  <2> QED BY <2>1, <2>2
<1>8. ASSUME NEW s \in Sides, ProbeReady(s) PROVE Used
  <2>1. next["video"] # None /\ next' = next
    BY <1>0, <1>8 DEF ProbeReady, Visit, Timeline
  <2> QED BY <1>4, <1>8, <2>1 DEF ProbeReady
<1>9. ASSUME NEW s \in Sides, Check(s) PROVE Used
  <2>1. next["video"] # None /\ next' = next
    BY <1>0, <1>9 DEF Check, Visit, Timeline
  <2>2. PICK x \in Probe(s) : recv' = [recv EXCEPT ![s] = x.r] /\ offset' = x.cell
    BY <1>9 DEF Check
  <2> QED BY <1>4, <2>1, <2>2
<1>10. ASSUME NEW s \in Sides, TakeBatch(s) PROVE Used
  <2>1. CASE Present(s)
    <3>1. PICK o : o \in out'
      BY <1>10, <2>1 DEF TakeBatch
    <3>2. PICK x : BatchOf(s, x, o)
      BY <1>10, <2>1, <3>1, BatchEffect
    <3>3. CASE pausedAt # None
      BY <1>0, <1>5, <3>2, <3>3 DEF BatchOf
    <3>4. CASE pausedAt = None
      <4>1. /\ recv'[s] = x.r /\ offset' = x.cell
            /\ \A z \in Sides : z # s => recv'[z] = recv[z]
            /\ Grown(recv[s], x.r) /\ (x.cell = offset \/ offset = None)
            /\ \/ x.r.lo = recv[s].lo
               \/ /\ x.cell # None /\ x.at = Needed(s, next[s]) - x.cell
                  /\ Takes(recv[s], x.r, x.items, x.at)
        BY <1>0, <3>2, <3>4 DEF BatchOf, Fixes
      <4>2. /\ next[s] \in Nat /\ next["video"] # None /\ lastPts = next[s] /\ lastPts # None
            /\ lastPts' = lastPts /\ pausedAt' = pausedAt
            /\ next' = [next EXCEPT ![s] = @ + Period[s]]
        <5>1. pc = <<"take", s>> /\ lastPts' = lastPts /\ pausedAt' = pausedAt
              /\ next' = [next EXCEPT ![s] = @ + Period[s]]
          BY <1>10 DEF TakeBatch, Visit
        <5>2. next["video"] # None /\ next["audio"] # None /\ lastPts = next[s]
          BY <1>0, <5>1 DEF Timeline
        <5> QED BY <5>1, <5>2, <1>0 DEF Numbers, Sides
      <4>3. Position' = next[s]
        BY <3>4, <4>2 DEF Position
      <4>4. \A z \in Sides : recv'[z] = recv[z] \/ Grown(recv[z], recv'[z])
        BY <4>1
      <4>5. CASE s = "video"
        <5>1. next[s] <= Horizon'
          <6>1. Period[s] \in Nat
            BY ConstAssumption
          <6>2. next'["video"] = next["video"] + Period[s] /\ next'["video"] \in Nat
            BY <1>0, <4>2, <4>5, <6>1 DEF Numbers
          <6>3. Horizon' = next'["video"]
            BY <6>2 DEF Horizon, None
          <6> QED BY <4>2, <4>5, <6>1, <6>2, <6>3
        <5>2. \/ x.r.lo = recv[s].lo
              \/ /\ x.cell # None
                 /\ \/ x.r.lo < x.r.hi /\ Pts("video", x.r.lo + 1) <= next[s] - x.cell
                    \/ x.r.lo = x.r.hi /\ Pts("video", x.r.hi) <= next[s] - x.cell
          <6>1. Needed(s, next[s]) = next[s]
            BY <4>5 DEF Needed
          <6> QED BY <1>0, <4>1, <4>5, <6>1 DEF Takes
        <5>3. \/ recv'["video"].lo = recv["video"].lo
              \/ /\ offset' # None /\ recv'["video"].lo < recv'["video"].hi
                 /\ Pts("video", recv'["video"].lo + 1) <= Larger(Horizon', cleaned') - offset'
              \/ /\ offset' # None /\ recv'["video"].lo = recv'["video"].hi
                 /\ Pts("video", recv'["video"].hi) <= Position' - offset'
          BY <1>1, <1>2, <1>3, <4>1, <4>2, <4>3, <4>5, <5>1, <5>2
        <5>4. recv'["audio"].lo = recv["audio"].lo
          BY <4>1, <4>5 DEF Sides
        <5> QED BY <1>1, <4>1, <4>4, <5>3, <5>4 DEF Used
      <4>6. CASE s = "audio"
        <5> DEFINE need == Needed(s, next[s])
        <5> DEFINE limit == Larger(Position' + Period["audio"] + Stretch, cleaned')
        <5>1. need \in Int /\ limit \in Int /\ need <= limit
          <6>1. need = Position' + Period["audio"] + Stretch
            BY <1>0, <4>3, <4>6, AudioNeed
          <6> QED BY <1>2, <6>1
        <5>2. \/ recv'["audio"].lo = recv["audio"].lo
              \/ offset' # None /\ Pts("audio", recv'["audio"].lo) < limit - offset'
          <6> HIDE DEF need, limit
          <6>1. /\ recv'["audio"] = x.r /\ offset' = x.cell /\ offset' \in Int
                /\ Pts("audio", recv'["audio"].lo) \in Int
                /\ recv[s].side = "audio" /\ recv["audio"].lo = recv[s].lo
            BY <1>0, <1>1, <1>3, <4>1, <4>6 DEF Sides
          <6>2. \/ x.r.lo = recv[s].lo
                \/ x.cell # None /\ Takes(recv[s], x.r, x.items, need - x.cell)
            BY <4>1 DEF need
          <6>3. \/ x.r.lo = recv[s].lo
                \/ x.cell # None /\ Pts("audio", x.r.lo) < need - x.cell
            BY <6>1, <6>2 DEF Takes
          <6> QED BY <5>1, <6>1, <6>3
        <5>3. recv'["video"].lo = recv["video"].lo
          BY <4>1, <4>6 DEF Sides
        <5> QED BY <1>1, <4>1, <4>4, <5>2, <5>3 DEF Used
      <4> QED BY <4>5, <4>6 DEF Sides
    <3> QED BY <3>3, <3>4
  <2>2. CASE ~Present(s)
    BY <1>5, <1>10, <2>2 DEF TakeBatch
  <2> QED BY <2>1, <2>2
<1>11. CASE Pause
  <2>1. PICK x \in Frozen(recv["video"], offset) :
          recv' = [recv EXCEPT !["video"] = x.r] /\ offset' = x.cell
    BY <1>11 DEF Pause
  <2>2. recv'["video"] = x.r /\ recv'["audio"] = recv["audio"]
    BY <1>0, <2>1 DEF Sides
  <2>3. /\ calls'.pause # 0
        /\ ~PauseEarly => lastPts # None
        /\ pausedAt' = EffectiveLastPts
    <3>1. calls'.pause = calls.pause + 1 /\ calls.pause \in Nat
      BY <1>0, <1>11 DEF Pause, Numbers
    <3>2. calls'.pause # 0
      BY <3>1
    <3> QED BY <1>11, <3>2 DEF Pause
  <2>4. ~PauseEarly => Position' = PausePts
    <3>1. ~PauseEarly => pausedAt' = lastPts /\ lastPts # None
      BY <2>3 DEF EffectiveLastPts
    <3> QED BY <3>1 DEF Position, PausePts
  <2>5. /\ x.r = recv["video"] \/ Grown(recv["video"], x.r)
        /\ x.cell = offset \/ offset = None
        /\ \/ x.r.lo = recv["video"].lo
           \/ x.cell # None /\ x.r.lo < x.r.hi
           \/ x.cell # None /\ x.r.lo = x.r.hi /\ Pts("video", x.r.hi) <= PausePts - x.cell
    <3> DEFINE r == recv["video"]
    <3>1. Sound(r) /\ r.side = "video" /\ x \in Frozen(r, offset)
      BY <1>0, <2>1 DEF Sides
    <3> HIDE DEF r
    <3>2. /\ x.r = r \/ Grown(r, x.r)
          /\ x.cell = offset \/ offset = None
          /\ \/ x.r.lo = r.lo
             \/ x.cell # None /\ x.r.lo < x.r.hi
             \/ x.cell # None /\ x.r.lo = x.r.hi /\ Pts("video", x.r.hi) <= PausePts - x.cell
      BY <1>0, <3>1, FrozenEffect DEF Fixes
    <3> QED BY <3>2 DEF r
  <2>6. \A z \in Sides : recv'[z] = recv[z] \/ Grown(recv[z], recv'[z])
    BY <2>2, <2>5 DEF Sides
  <2>7. \/ recv'["video"].lo = recv["video"].lo
        \/ offset' # None /\ recv'["video"].lo < recv'["video"].hi
        \/ /\ offset' # None /\ recv'["video"].lo = recv'["video"].hi
           /\ ~PauseEarly => Pts("video", recv'["video"].hi) <= Position' - offset'
    BY <2>1, <2>2, <2>4, <2>5
  <2> QED BY <1>1, <2>1, <2>2, <2>3, <2>5, <2>6, <2>7 DEF Used
<1>12. CASE AbortOldTrack
  BY <1>12 DEF AbortOldTrack
<1>13. CASE ReceiveStart \/ ChooseSide \/ QueueNewTrack \/ Start \/ Elapse \/ UNCHANGED vars
  BY <1>5, <1>13 DEF ReceiveStart, ChooseSide, QueueNewTrack, Start, Elapse, vars, trackVars
<1> QED BY <1>6, <1>7, <1>8, <1>9, <1>10, <1>11, <1>12, <1>13 DEF Next, QueueThread

LEMMA FrontDueStep ==
  Base /\ PausedInRun /\ CleanedPast /\ FrontDue /\ [Next]_vars => FrontDue'
<1> SUFFICES ASSUME Base, PausedInRun, CleanedPast, FrontDue, [Next]_vars, calls'.pause = 0
             PROVE  FrontBy(recv'["video"], offset', Larger(Horizon', cleaned'))
  BY DEF FrontDue
<1> DEFINE h == Larger(Horizon, cleaned)
<1> DEFINE i == Larger(Horizon', cleaned')
<1>1. h \in Int /\ i \in Int /\ h <= i /\ calls.pause = 0
  <2>1. Horizon <= Horizon' /\ cleaned <= cleaned' /\ calls.pause = 0
    BY HorizonStep
  <2>2. Horizon \in Nat /\ cleaned \in Int
    BY TimesType
  <2>3. Horizon' \in Nat /\ cleaned' \in Int
    <3>1. Base'
      BY BaseStep
    <3> QED BY <3>1 DEF Base, Numbers, Horizon, Started, Sides
  <2> QED BY <2>1, <2>2, <2>3 DEF Larger
<1>2. pausedAt = None /\ offset \in Int
  BY <1>1, BaseFacts DEF Base, Timeline
<1>3. FrontBy(recv["video"], offset, h)
  BY <1>1 DEF FrontDue
<1>4. Sound(recv["video"]) /\ recv["video"].side = "video"
  BY DEF Base, Receivers, Sides
<1> HIDE DEF h
<1>5. CASE Used
  <2>1. /\ offset' \in Int /\ (offset' = offset \/ offset = None)
        /\ recv'["video"] = recv["video"] \/ Grown(recv["video"], recv'["video"])
        /\ \/ recv'["video"].lo = recv["video"].lo
           \/ offset' # None /\ Pts("video", recv'["video"].lo + 1) <= i - offset'
           \/ recv'["video"].lo = recv'["video"].hi
    BY <1>5 DEF Used, Sides
  <2> HIDE DEF i
  <2>2. FrontBy(recv'["video"], offset', i)
    BY <1>1, <1>2, <1>3, <1>4, <2>1, VideoMoves
  <2> QED BY <2>2 DEF i
<1>6. CASE ReplaceTrack
  <2>1. recv'["video"].lo = 0
    BY <1>2, <1>6, ReplaceEffect
  <2> QED BY <2>1 DEF FrontBy
<1>7. CASE Resume
  BY <1>2, <1>7 DEF Resume
<1> QED BY <1>5, <1>6, <1>7, UsedStep

LEMMA ConsumedStep ==
  Base /\ PausedInRun /\ CleanedPast /\ Consumed /\ [Next]_vars => Consumed'
<1> DEFINE h == Larger(Position + Period["audio"] + Stretch, cleaned)
<1> DEFINE i == Larger(Position' + Period["audio"] + Stretch, cleaned')
<1> SUFFICES ASSUME Base, PausedInRun, CleanedPast, Consumed, [Next]_vars, ~PauseEarly
             PROVE  /\ EndBy(recv'["video"], offset', Position')
                    /\ SamplesBy(recv'["audio"], offset', i)
  BY DEF Consumed
<1>0. /\ Timeline /\ Numbers /\ offset \in Int
      /\ Position \in Nat /\ cleaned \in Int /\ h \in Int
      /\ Sound(recv["video"]) /\ recv["video"].side = "video" /\ Sound(recv["audio"])
  BY TimesType, BaseFacts DEF Base, Receivers, Sides
<1>1. Position' \in Nat /\ cleaned' \in Int /\ offset' \in Int /\ i \in Int
  <2>1. Base'
    BY BaseStep
  <2>2. Position' \in Nat /\ cleaned' \in Int /\ offset' \in Int
    BY <2>1 DEF Base, Numbers, Position, Started
  <2> QED BY <2>2, AudioNeed DEF Larger
<1>2. EndBy(recv["video"], offset, Position) /\ SamplesBy(recv["audio"], offset, h)
  BY DEF Consumed
<1>3. /\ Position \in Int /\ Position + Period["audio"] + Stretch \in Int
      /\ Position' + Period["audio"] + Stretch \in Int
  BY <1>0, <1>1, AudioNeed
<1>4. CASE Used /\ ~Resume
  <2>1. Position <= Position' /\ cleaned <= cleaned'
    BY <1>4, PositionStep
  <2>2. h <= i
    <3>1. Position + Period["audio"] + Stretch <= Position' + Period["audio"] + Stretch
      BY <1>0, <1>1, <2>1, AudioNeed
    <3> QED BY <1>0, <1>1, <1>3, <2>1, <3>1 DEF Larger
  <2>3. /\ offset' \in Int /\ (offset' = offset \/ offset = None)
        /\ recv'["video"] = recv["video"] \/ Grown(recv["video"], recv'["video"])
        /\ recv'["audio"] = recv["audio"] \/ Grown(recv["audio"], recv'["audio"])
        /\ \/ recv'["video"].lo = recv["video"].lo
           \/ recv'["video"].lo < recv'["video"].hi
           \/ offset' # None /\ Pts("video", recv'["video"].hi) <= Position' - offset'
        /\ \/ recv'["audio"].lo = recv["audio"].lo
           \/ offset' # None /\ Pts("audio", recv'["audio"].lo) < i - offset'
    BY <1>4 DEF Used, Sides
  <2> HIDE DEF h, i
  <2>4. EndBy(recv'["video"], offset', Position')
    <3> DEFINE r == recv["video"]
    <3> DEFINE q == recv'["video"]
    <3> DEFINE m == Position
    <3> DEFINE n == Position'
    <3>1. /\ Sound(r) /\ r.side = "video" /\ (q = r \/ Grown(r, q))
          /\ m \in Int /\ n \in Int /\ m <= n /\ EndBy(r, offset, m)
          /\ \/ q.lo = r.lo \/ q.lo < q.hi
             \/ offset' # None /\ Pts("video", q.hi) <= n - offset'
      BY <1>0, <1>1, <1>2, <2>1, <2>3
    <3> HIDE DEF r, q, m, n
    <3>2. EndBy(q, offset', n)
      BY <1>0, <1>1, <2>3, <3>1, VideoMoves
    <3> QED BY <3>2 DEF q, n
  <2>5. SamplesBy(recv'["audio"], offset', i)
    BY <1>0, <1>1, <1>2, <2>2, <2>3, AudioMoves
  <2> QED BY <2>4, <2>5
<1>5. CASE ReplaceTrack /\ ~Resume
  <2>1. /\ recv'["audio"].lo = 0
        /\ pausedAt' = IF pausedAt = None THEN None ELSE EffectiveLastPts
        /\ pausedAt = None => recv'["video"].hi = 0
        /\ recv'["video"].lo = recv'["video"].hi /\ recv'["video"].hi > 0 =>
             offset' # None /\ Pts("video", recv'["video"].hi) <= PausePts - offset'
    BY <1>5, ReplaceEffect
  <2>2. pausedAt # None => lastPts # None /\ lastPts \in Nat
    BY <1>0 DEF PausedInRun, Timeline, Numbers
  <2>3. pausedAt # None => Position' = PausePts
    BY <2>1, <2>2 DEF Position, PausePts, EffectiveLastPts
  <2>4. EndBy(recv'["video"], offset', Position')
    BY <2>1, <2>3 DEF EndBy
  <2>5. SamplesBy(recv'["audio"], offset', i)
    BY <2>1 DEF SamplesBy
  <2> QED BY <2>4, <2>5
<1>6. CASE Resume
  <2> DEFINE d == EffectiveLastPts - pausedAt
  <2>1. /\ pausedAt # None /\ pausedAt' = None /\ lastPts' = lastPts /\ recv' = recv
        /\ offset' = IF offset = None THEN None ELSE offset + d
        /\ cleaned' = IF cleaned = None THEN None ELSE cleaned + d
    BY <1>6 DEF Resume, Shifted
  <2>2. lastPts # None /\ lastPts \in Nat /\ pausedAt \in Nat /\ pausedAt <= lastPts
        /\ EffectiveLastPts = lastPts
    BY <1>0, <2>1 DEF PausedInRun, Timeline, Numbers, EffectiveLastPts
  <2>3. d \in Nat /\ Position = pausedAt /\ Position' = lastPts /\ Position' = Position + d
    BY <2>1, <2>2 DEF Position
  <2>4. offset # None => offset' = offset + d /\ offset' # None
    <3>1. offset # None => offset >= 0
      BY DEF PausedInRun
    <3> QED BY <1>0, <2>1, <2>3, <3>1 DEF None
  <2> HIDE DEF d
  <2>5. EndBy(recv'["video"], offset', Position')
    <3>1. Pts("video", recv["video"].hi) \in Int
      <4>1. recv["video"].hi \in Int
        BY <1>0 DEF Sound, ReceiverType
      <4> QED BY <4>1, PtsOrder DEF Sides
    <3> QED BY <1>0, <1>1, <1>2, <2>1, <2>3, <2>4, <3>1 DEF EndBy
  <2>6. SamplesBy(recv'["audio"], offset', i)
    <3>1. Pts("audio", recv["audio"].lo) \in Int
      <4>1. recv["audio"].lo \in Int
        BY <1>0 DEF Sound, ReceiverType
      <4> QED BY <4>1, PtsOrder DEF Sides
    <3>2. Position' + Period["audio"] + Stretch = (Position + Period["audio"] + Stretch) + d
      BY <1>0, <2>3, AudioNeed
    <3>3. h + d <= i
      <4>1. CASE cleaned = None
        <5>1. h = Position + Period["audio"] + Stretch /\ None < 0
          BY <1>0, <1>3, <4>1, AudioNeed DEF Larger, None
        <5>2. i = Position' + Period["audio"] + Stretch
          BY <1>1, <1>3, <2>1, <4>1, AudioNeed DEF Larger, None
        <5> QED BY <1>1, <3>2, <5>1, <5>2
      <4>2. CASE cleaned # None
        BY <1>0, <1>1, <1>3, <2>1, <2>3, <3>2, <4>2 DEF Larger
      <4> QED BY <4>1, <4>2
    <3> HIDE DEF h, i
    <3> QED BY <1>0, <1>1, <1>2, <2>1, <2>3, <2>4, <3>1, <3>3 DEF SamplesBy
  <2> QED BY <2>5, <2>6
<1> QED BY <1>4, <1>5, <1>6, UsedStep

LEMMA ExactFrameStep ==
  Base /\ PausedInRun /\ CleanedPast /\ SureReady /\ FrontDue /\ ExactFrame /\ [Next]_vars
    => ExactFrame'
<1> SUFFICES ASSUME Base, PausedInRun, CleanedPast, SureReady, FrontDue, ExactFrame,
                    [Next]_vars, calls'.pause = 0
             PROVE  ShowsNewest'
  BY DEF ExactFrame
<1>0. /\ calls.pause = 0 /\ pausedAt = None /\ Numbers
      /\ cleaned \in Int /\ cleaned' \in Int /\ cleaned <= cleaned'
      /\ offset \in Int
      /\ \A o \in out : o.pts \in Nat
  <2>1. calls.pause = 0 /\ cleaned <= cleaned'
    BY HorizonStep
  <2>2. Base'
    BY BaseStep
  <2> QED BY <2>1, <2>2 DEF Base, Timeline, Numbers, OneBatch
<1>1. CASE out' = {}
  BY <1>1 DEF ShowsNewest
<1>2. CASE out' = out /\ (cleaned' = cleaned \/ Resume)
  <2>1. cleaned' = cleaned
    BY <1>0, <1>2 DEF Resume
  <2> QED BY <1>0, <1>2, <2>1 DEF ShowsNewest, ExactFrame
<1>3. ASSUME NEW s \in Sides, TakeBatch(s), Present(s), NEW o \in out',
             o.side = "video", o.sure, ~o.over, o.pts >= cleaned'
      PROVE  o.items = Newest(o.count, o.at)
  <2>1. PICK x : BatchOf(s, x, o)
    BY <1>3, BatchEffect
  <2>2. /\ pc = <<"take", s>> /\ cleaned' = cleaned /\ sure /\ s = "video"
        /\ recv[s].st # "done" /\ o.pts = next[s] /\ next[s] >= cleaned
    BY <1>3, <2>1 DEF TakeBatch, Visit, BatchOf
  <2>3. offset # None /\ ReadyFor(recv[s], Needed(s, next[s]) - offset)
    BY <1>3, <2>2 DEF SureReady, Present
  <2>4. /\ Grown(recv[s], x.r) /\ x.cell = offset
        /\ x.at = Needed(s, next[s]) - offset
        /\ Takes(recv[s], x.r, x.items, x.at)
    BY <1>0, <2>1, <2>2, <2>3 DEF BatchOf, Fixes
  <2>5. Needed(s, next[s]) = next[s] /\ next[s] \in Int /\ next[s] # None
    <3>1. next["video"] # None
      BY <2>2 DEF Base, Timeline
    <3> QED BY <2>2, <3>1, BaseFacts DEF Needed
  <2>6. recv[s].side = "video" /\ Sound(recv[s]) /\ Count(x.r) = Count(recv[s])
    BY <2>2, <2>4 DEF Base, Receivers, Grown, Count
  <2>7. recv[s].lo > 0 => Pts("video", recv[s].lo + 1) <= x.at
    <3>1. recv[s].lo < recv[s].hi /\ recv[s].lo \in Nat
      BY <2>2, <2>3, <2>6 DEF Sound, ReceiverType, ReadyFor, HasData
    <3>2. FrontBy(recv[s], offset, Larger(Horizon, cleaned))
      BY <1>0, <2>2 DEF FrontDue
    <3>3. Larger(Horizon, cleaned) = next[s]
      BY <1>0, <2>2, <2>5 DEF Horizon, Larger
    <3>4. Pts("video", recv[s].lo + 1) \in Int
      BY <3>1, PtsOrder DEF Sides
    <3> QED BY <2>4, <2>5, <3>1, <3>2, <3>3, <3>4 DEF FrontBy
  <2>8. ReadyFor(recv[s], x.at)
    BY <2>3, <2>4
  <2>9. x.items = Newest(Count(recv[s]), x.at)
    BY <2>2, <2>4, <2>6, <2>7, <2>8 DEF Takes
  <2> QED BY <2>1, <2>6, <2>9 DEF BatchOf
<1>4. CASE \E s \in Sides : TakeBatch(s) /\ Present(s)
  <2>1. \A o \in out' : o.side = "video" /\ o.sure /\ ~o.over /\ o.pts >= cleaned'
                          => o.items = Newest(o.count, o.at)
    BY <1>3, <1>4
  <2> QED BY <2>1 DEF ShowsNewest, Newest
<1> QED BY <1>1, <1>2, <1>4, OutStep

EosInTime == ~PauseEarly => EosOnTime

LEMMA EosOnTimeStep ==
  Base /\ PausedInRun /\ Consumed /\ EosInTime /\ [Next]_vars => EosInTime'
<1> SUFFICES ASSUME Base, PausedInRun, Consumed, EosOnTime, [Next]_vars, ~PauseEarly
             PROVE  EosOnTime'
  BY DEF EosInTime
<1>0. /\ Numbers /\ Timeline /\ cleaned \in Int /\ cleaned' \in Int /\ offset \in Int
      /\ \A o \in out : o.pts \in Nat
  <2>1. Base'
    BY BaseStep
  <2> QED BY <2>1 DEF Base, Numbers, OneBatch
<1>1. CASE out' = {}
  BY <1>1 DEF EosOnTime
<1>2. CASE out' = out /\ (cleaned' = cleaned \/ Resume)
  <2>1. cleaned <= cleaned'
    <3>1. CASE Resume
      <4>1. /\ pausedAt # None /\ lastPts # None /\ pausedAt <= lastPts
            /\ lastPts \in Nat /\ pausedAt \in Nat /\ EffectiveLastPts = lastPts
        BY <1>0, <3>1 DEF Resume, PausedInRun, Timeline, Numbers, EffectiveLastPts
      <4>2. cleaned' = IF cleaned = None THEN None ELSE cleaned + (EffectiveLastPts - pausedAt)
        BY <3>1 DEF Resume
      <4> QED BY <1>0, <4>1, <4>2
    <3>2. CASE ~Resume
      BY <1>0, <1>2, <3>2
    <3> QED BY <3>1, <3>2
  <2>2. \A o \in out' : o.pts >= cleaned' => o \in out /\ o.pts >= cleaned
    BY <1>0, <1>2, <2>1
  <2> QED BY <2>2 DEF EosOnTime
<1>3. ASSUME NEW s \in Sides, TakeBatch(s), Present(s), NEW o \in out',
             o.eos, o.count > 0, o.at # None, o.pts >= cleaned'
      PROVE  o.popped = o.count /\ o.at >= Pts(o.side, o.count)
  <2>1. PICK x : BatchOf(s, x, o)
    BY <1>3, BatchEffect
  <2>2. /\ o.side = s /\ o.at = x.at /\ o.count = Count(x.r) /\ o.popped = x.r.lo
        /\ o.pts = next[s] /\ x.eos
    BY <1>3, <2>1 DEF BatchOf
  <2>3. /\ pausedAt = None /\ Grown(recv[s], x.r)
        /\ Fixes(recv[s], offset, next[s], x.cell)
        /\ x.cell # None /\ x.at = Needed(s, next[s]) - x.cell
        /\ Takes(recv[s], x.r, x.items, x.at) /\ x.r.st = "done" /\ x.cell \in Int
    BY <1>3, <2>1, <2>2 DEF BatchOf
  <2>4. /\ x.r.lo = x.r.hi /\ x.r.hi = Count(x.r) /\ x.r.hi \in Nat
        /\ x.r.closed
    BY <2>3 DEF Grown, Sound, ReceiverType
  <2>5. /\ recv[s].side = s /\ Sound(recv[s]) /\ recv[s].lo \in Nat /\ recv[s].hi \in Nat
        /\ recv[s].lo <= recv[s].hi /\ recv[s].hi <= x.r.hi
    BY <2>3 DEF Base, Receivers, Grown, Sound, ReceiverType
  <2>6. /\ lastPts = next[s] /\ lastPts # None /\ next[s] \in Nat /\ Position = next[s]
        /\ cleaned' = cleaned
    <3>1. pc = <<"take", s>> /\ cleaned' = cleaned
      BY <1>3 DEF TakeBatch, Visit
    <3>2. next["video"] # None /\ next["audio"] # None /\ lastPts = next[s]
      BY <1>0, <3>1 DEF Timeline
    <3>3. next[s] \in Nat /\ next[s] # None
      BY <1>0, <3>2 DEF Numbers, Sides
    <3> QED BY <2>3, <3>1, <3>2, <3>3 DEF Position
  <2>7. Pts("video", x.r.hi) \in Int /\ Pts("audio", x.r.hi) \in Int
    BY <2>4, PtsOrder DEF Sides
  <2>8. CASE s = "video"
    <3>1. x.at = next[s] - x.cell
      BY <2>3, <2>8 DEF Needed
    <3>2. CASE x.r.lo # recv[s].lo
      BY <1>3, <2>2, <2>3, <2>4, <2>5, <2>7, <2>8, <3>1, <3>2, <2>6 DEF Takes
    <3>3. CASE x.r.lo = recv[s].lo
      <4>1. recv[s].lo = recv[s].hi /\ recv[s].hi > 0 /\ recv[s].hi = x.r.hi
        BY <1>3, <2>2, <2>4, <2>5, <3>3
      <4>2. offset # None /\ Pts("video", x.r.hi) <= next[s] - offset
        BY <2>6, <2>8, <4>1 DEF Consumed, EndBy
      <4>3. x.cell = offset
        BY <2>3, <4>2 DEF Fixes
      <4> QED BY <1>0, <2>2, <2>4, <2>6, <2>7, <2>8, <3>1, <4>2, <4>3
    <3> QED BY <3>2, <3>3
  <2>9. CASE s = "audio"
    <3> DEFINE need == Needed(s, next[s])
    <3>1. need = next[s] + Period["audio"] + Stretch /\ need \in Int /\ next[s] <= need
      BY <2>6, <2>9, AudioNeed
    <3>2. x.at = need - x.cell
      BY <2>3
    <3>3. CASE x.r.lo # recv[s].lo
      <4>1. Pts("audio", x.r.lo) < x.at
        BY <2>3, <2>5, <2>9, <3>3 DEF Takes
      <4> HIDE DEF need
      <4> QED BY <2>2, <2>3, <2>4, <2>7, <2>9, <3>1, <3>2, <4>1
    <3>4. CASE x.r.lo = recv[s].lo
      <4>1. recv["audio"].lo > 0 /\ recv["audio"].lo = x.r.hi
        BY <1>3, <2>2, <2>4, <2>9, <3>4
      <4>2. offset # None /\ Pts("audio", x.r.hi) < Larger(need, cleaned) - offset
        BY <2>6, <3>1, <4>1 DEF Consumed, SamplesBy
      <4>3. x.cell = offset
        BY <2>3, <4>2 DEF Fixes
      <4>4. cleaned <= need
        BY <1>0, <1>3, <2>2, <2>6, <3>1
      <4> HIDE DEF need
      <4>5. Larger(need, cleaned) = need
        BY <1>0, <3>1, <4>4 DEF Larger
      <4> QED BY <1>0, <2>2, <2>4, <2>7, <2>9, <3>1, <3>2, <4>2, <4>3, <4>5
    <3> QED BY <3>3, <3>4
  <2> QED BY <2>8, <2>9 DEF Sides
<1>4. CASE \E s \in Sides : TakeBatch(s) /\ Present(s)
  BY <1>3, <1>4 DEF EosOnTime
<1> QED BY <1>1, <1>2, <1>4, OutStep

IInv ==
  /\ Base /\ PausedInRun /\ CleanedPast
  /\ SureReady /\ FrontDue /\ Consumed
  /\ ExactFrame /\ EosInTime

LEMMA IInvCorrect == Spec => []IInv
<1>1. Init => IInv
  <2>1. ASSUME Init
        PROVE  /\ PausedInRun /\ CleanedPast /\ SureReady /\ FrontDue /\ Consumed
               /\ ExactFrame /\ EosInTime
    <3>1. \A s \in Sides : recv[s].lo = 0 /\ recv[s].hi = 0
      BY <2>1, StreamSound DEF Init
    <3>2. PausedInRun /\ CleanedPast /\ SureReady
      BY <2>1 DEF Init, PausedInRun, CleanedPast, SureReady, None
    <3>3. FrontDue /\ Consumed
      BY <3>1 DEF FrontDue, Consumed, FrontBy, EndBy, SamplesBy, Sides
    <3>4. ExactFrame /\ EosInTime
      BY <2>1 DEF Init, ExactFrame, ShowsNewest, EosInTime, EosOnTime
    <3> QED BY <3>2, <3>3, <3>4
  <2> QED BY <2>1, InitBase DEF IInv
<1>2. IInv /\ [Next]_vars => IInv'
  BY BaseStep, PausedInRunStep, CleanedPastStep, SureReadyStep, FrontDueStep, ConsumedStep,
     ExactFrameStep, EosOnTimeStep DEF IInv
<1> QED BY <1>1, <1>2, PTL DEF Spec

\* While nobody pauses it, an input that was ready for a batch shows exactly the
\* newest frame that is not newer than the batch, for any frame rates, any buffers
\* and any arrival of the frames.
THEOREM ExactFrameCorrect == Spec => []ExactFrame
<1>1. IInv => ExactFrame
  BY DEF IInv
<1> QED BY <1>1, IInvCorrect, PTL

\* The EOS of a stream comes with the batch that has reached its last item, pauses
\* in the run included; the hypothesis is that of the run.
THEOREM EosOnTimeCorrect == ~PauseEarly /\ Spec => []EosOnTime
<1> DEFINE P == ~PauseEarly
<1>1. P /\ IInv => EosOnTime
  BY DEF IInv, EosInTime
<1>2. P => []P
  <2>1. P => P'
    OBVIOUS
  <2> QED BY <2>1, PTL
<1> QED BY <1>1, <1>2, IInvCorrect, PTL
=============================================================================
