------------------------ MODULE ReferenceManagerProofs ------------------------
(***************************************************************************)
(* What the instructions of the reference manager do to the set of         *)
(* references: executed one after the other on the references before a     *)
(* picture, they leave exactly the references after it, whatever headers   *)
(* arrive.                                                                 *)
(*                                                                         *)
(* The folds over operations, gaps and access units are recursive          *)
(* functions, so the first part shows that they exist and what one step of *)
(* them is.                                                                *)
(***************************************************************************)
EXTENDS ReferenceManager, WellFoundedInduction, TLAPS

-----------------------------------------------------------------------------
(* Induction *)

\* A set of natural numbers that is not empty has a least member.
LEMMA LeastExists ==
  ASSUME NEW S, S \subseteq Nat, S # {}
  PROVE  \E m \in S : \A n \in S : m <= n
<1> DEFINE Less == {ss \in Nat \X Nat : ss[1] < ss[2]}
<1>1. IsWellFoundedOn(Less, Nat)
  BY NatLessThanWellFounded, Zenon DEF OpToRel
<1>2. PICK m \in S : \A n \in S : ~(<<n, m>> \in Less)
  <2> HIDE DEF Less
  <2> QED BY <1>1, WFMin, Zenon
<1>3. \A n \in S : ~(n < m)
  <2> SUFFICES ASSUME NEW n \in S, n < m
               PROVE  FALSE
    OBVIOUS
  <2>1. <<n, m>> \in Less
    OBVIOUS
  <2> QED BY <1>2, <2>1
<1> QED BY <1>3

LEMMA AllNumbers ==
  ASSUME NEW S, 0 \in S, \A n \in Nat : n \in S => n + 1 \in S
  PROVE  Nat \subseteq S
<1> SUFFICES ASSUME NEW k \in Nat \ S PROVE FALSE
  OBVIOUS
<1>1. PICK m \in Nat \ S : \A n \in Nat \ S : m <= n
  BY LeastExists
<1>2. m # 0 /\ m - 1 \in Nat /\ m - 1 \in S
  BY <1>1
<1>3. m - 1 + 1 \in S
  BY <1>2
<1> QED BY <1>1, <1>3

LEMMA MaxOfInterval ==
  ASSUME NEW k \in Nat \ {0}
  PROVE  Max(1 .. k) = k /\ (1 .. k) \ {Max(1 .. k)} = 1 .. k - 1
<1>1. k \in 1 .. k /\ \A y \in 1 .. k : k >= y
  OBVIOUS
<1>2. \A x \in 1 .. k : (\A y \in 1 .. k : x >= y) => x = k
  BY <1>1
<1>3. Max(1 .. k) = k
  BY <1>1, <1>2 DEF Max
<1> QED BY <1>3

LEMMA Prefix ==
  ASSUME NEW n \in Nat, NEW k \in 1 .. n
  PROVE  1 .. k \in SUBSET (1 .. n) /\ 1 .. k # {}
<1>1. k \in 1 .. k /\ \A i \in 1 .. k : i \in 1 .. n
  OBVIOUS
<1> QED BY <1>1

LEMMA MaxInSet ==
  ASSUME NEW k \in Nat, NEW s, s \subseteq 1 .. k, s # {}
  PROVE  Max(s) \in s
<1> DEFINE T == {k - x : x \in s}
<1>0. \A x \in s : x \in Nat /\ x <= k /\ k - x \in Nat
  OBVIOUS
<1>1. T \subseteq Nat /\ T # {}
  BY <1>0
<1>2. PICK m \in T : \A n \in T : m <= n
  BY <1>1, LeastExists
<1>3. PICK x \in s : m = k - x
  BY <1>2
<1>4. \A y \in s : x >= y
  <2> TAKE y \in s
  <2>1. k - x <= k - y
    BY <1>2, <1>3
  <2> QED BY <1>0, <2>1
<1> QED BY <1>3, <1>4 DEF Max

-----------------------------------------------------------------------------
(* Folds *)

\* g folds F over 1 .. n from the start a.
Folds(g, A, n, a, F) ==
  /\ g \in [SUBSET (1 .. n) -> A]
  /\ \A s \in SUBSET (1 .. n) : g[s] = IF s = {} THEN a ELSE F[<<g[s \ {Max(s)}], Max(s)>>]

\* The function that FoldLeft is defined by exists, for a step that is a function.
LEMMA FoldExists ==
  ASSUME NEW A, NEW n \in Nat, NEW a \in A, NEW F, F \in [A \X (1 .. n) -> A]
  PROVE  \E g : Folds(g, A, n, a, F)
<1> DEFINE Upto(m) == SUBSET (1 .. m)
           Good(g, m) == /\ g \in [Upto(m) -> A]
                         /\ \A s \in Upto(m) :
                              g[s] = IF s = {} THEN a ELSE F[<<g[s \ {Max(s)}], Max(s)>>]
           S == {m \in Nat : m <= n => \E g : Good(g, m)}
<1>1. 0 \in S
  <2> DEFINE g == [s \in {{}} |-> a]
  <2>1. Upto(0) = {{}}
    OBVIOUS
  <2>2. Good(g, 0)
    BY <2>1
  <2> HIDE DEF g, Good
  <2> QED BY <2>2
<1>2. ASSUME NEW m \in Nat, m \in S PROVE m + 1 \in S
  <2> SUFFICES ASSUME m + 1 <= n PROVE \E g : Good(g, m + 1)
    <3> HIDE DEF Good
    <3> QED OBVIOUS
  <2>1. PICK g : Good(g, m)
    <3> HIDE DEF Good
    <3> QED BY <1>2
  <2> DEFINE h == [s \in Upto(m + 1) |->
                     IF m + 1 \in s THEN F[<<g[s \ {m + 1}], m + 1>>] ELSE g[s]]
  <2>2. \A s \in Upto(m + 1) : m + 1 \notin s => s \in Upto(m)
    OBVIOUS
  <2>3. \A s \in Upto(m + 1) : s \ {m + 1} \in Upto(m)
    OBVIOUS
  <2>4. h \in [Upto(m + 1) -> A]
    <3>1. \A s \in Upto(m + 1) : m + 1 \in s => F[<<g[s \ {m + 1}], m + 1>>] \in A
      <4> SUFFICES ASSUME NEW s \in Upto(m + 1) PROVE F[<<g[s \ {m + 1}], m + 1>>] \in A
        OBVIOUS
      <4>1. g[s \ {m + 1}] \in A
        BY <2>1, <2>3
      <4>2. m + 1 \in 1 .. n
        OBVIOUS
      <4> QED BY <4>1, <4>2
    <3>2. \A s \in Upto(m + 1) : m + 1 \notin s => g[s] \in A
      BY <2>1, <2>2
    <3> HIDE DEF Upto
    <3> QED BY <3>1, <3>2
  <2>5. ASSUME NEW s \in Upto(m + 1), s # {}
        PROVE  h[s] = F[<<h[s \ {Max(s)}], Max(s)>>]
    <3>1. CASE m + 1 \in s
      <4>1. Max(s) = m + 1
        <5>1. \A y \in s : m + 1 >= y
          OBVIOUS
        <5>2. \A x \in s : (\A y \in s : x >= y) => x = m + 1
          BY <3>1, <5>1
        <5> QED BY <3>1, <5>1, <5>2 DEF Max
      <4>2. s \ {m + 1} \in Upto(m + 1) /\ m + 1 \notin s \ {m + 1}
        OBVIOUS
      <4> QED BY <3>1, <4>1, <4>2
    <3>2. CASE m + 1 \notin s
      <4>1. s \in Upto(m) /\ Max(s) \in s
        BY <2>2, <2>5, <3>2, MaxInSet
      <4>2. s \ {Max(s)} \in Upto(m) /\ s \ {Max(s)} \in Upto(m + 1) /\ m + 1 \notin s \ {Max(s)}
        BY <3>2, <4>1
      <4>3. h[s] = g[s] /\ h[s \ {Max(s)}] = g[s \ {Max(s)}]
        BY <3>2, <4>2
      <4> QED BY <2>1, <2>5, <4>1, <4>3
    <3> QED BY <3>1, <3>2
  <2>6. h[{}] = a
    <3>1. {} \in Upto(m) /\ {} \in Upto(m + 1)
      OBVIOUS
    <3> QED BY <2>1, <3>1
  <2>7. Good(h, m + 1)
    <3> HIDE DEF h, Upto
    <3> QED BY <2>4, <2>5, <2>6
  <2> HIDE DEF h, Good
  <2> QED BY <2>7
<1>3. n \in S
  <2> HIDE DEF S
  <2> QED BY <1>1, <1>2, AllNumbers
<1>4. PICK g : Good(g, n)
  <2> HIDE DEF Good
  <2> QED BY <1>3
<1> QED BY <1>4 DEF Folds

\* q has elements of s, each at most once; m says which.
Part(q, s, m) ==
  /\ m \in [DOMAIN q -> DOMAIN s]
  /\ \A k \in DOMAIN q : q[k] = s[m[k]]
  /\ \A k, l \in DOMAIN q : m[k] = m[l] => k = l

\* The elements of a sequence that are kept: where they come from, and that all are.
LEMMA KeptPart ==
  ASSUME NEW T, NEW s \in Seq(T), NEW C
  PROVE  /\ Kept(s, C) \in Seq(T)
         /\ \A i \in DOMAIN s : s[i] \in C => \E k \in DOMAIN Kept(s, C) : Kept(s, C)[k] = s[i]
         /\ \A k \in DOMAIN Kept(s, C) : Kept(s, C)[k] \in C /\ Kept(s, C)[k] \in ToSet(s)
         /\ \E m : Part(Kept(s, C), s, m)
<1> DEFINE n == Len(s)
           A == Seq(T)
           next(q, x) == IF x \in C THEN Append(q, x) ELSE q
           F == [z \in A \X (1 .. n) |-> next(z[1], s[z[2]])]
           it[u \in SUBSET DOMAIN s] ==
             IF u = {} THEN <<>> ELSE next(it[u \ {Max(u)}], s[Max(u)])
<1>1. n \in Nat /\ DOMAIN s = 1 .. n /\ \A k \in 1 .. n : s[k] \in T
  OBVIOUS
<1>2. \A q \in A, x \in T : next(q, x) \in A
  OBVIOUS
<1>3. Kept(s, C) = it[1 .. n]
  BY <1>1 DEF Kept, FoldLeft, MapThenFoldSet
<1> HIDE DEF next, A
<1>4. <<>> \in A /\ F \in [A \X (1 .. n) -> A]
  BY <1>1, <1>2 DEF A
<1>5. PICK g : Folds(g, A, n, <<>>, F)
  <2> HIDE DEF F, n
  <2> QED BY <1>1, <1>4, FoldExists
<1>6. g = [u \in SUBSET DOMAIN s |-> IF u = {} THEN <<>> ELSE next(g[u \ {Max(u)}], s[Max(u)])]
  <2>1. ASSUME NEW u \in SUBSET (1 .. n), u # {}
        PROVE  F[<<g[u \ {Max(u)}], Max(u)>>] = next(g[u \ {Max(u)}], s[Max(u)])
    <3>1. Max(u) \in 1 .. n /\ g[u \ {Max(u)}] \in A
      BY <1>1, <1>5, <2>1, MaxInSet DEF Folds
    <3> QED BY <3>1
  <2> QED BY <1>1, <1>5, <2>1 DEF Folds
<1>7. it = [u \in SUBSET DOMAIN s |-> IF u = {} THEN <<>> ELSE next(it[u \ {Max(u)}], s[Max(u)])]
  BY <1>6
<1> HIDE DEF it, F
<1> DEFINE r(k) == it[1 .. k]
<1>8. r(0) = <<>> /\ \A k \in 1 .. n : r(k) = next(r(k - 1), s[k])
  <2>1. 1 .. 0 = {} /\ {} \in SUBSET DOMAIN s
    OBVIOUS
  <2>2. ASSUME NEW k \in 1 .. n PROVE r(k) = next(r(k - 1), s[k])
    <3>1. 1 .. k \in SUBSET DOMAIN s /\ 1 .. k # {}
      BY <1>1, Prefix
    <3>2. Max(1 .. k) = k /\ (1 .. k) \ {Max(1 .. k)} = 1 .. k - 1
      BY <1>1, MaxOfInterval
    <3> QED BY <1>7, <3>1, <3>2
  <2> QED BY <1>7, <2>1, <2>2
<1> HIDE DEF r
<1> DEFINE Origin(q, k, m) ==
             /\ m \in [1 .. Len(q) -> 1 .. k]
             /\ \A j \in 1 .. Len(q) : q[j] = s[m[j]] /\ s[m[j]] \in C
             /\ \A i, j \in 1 .. Len(q) : m[i] = m[j] => i = j
           Good(q, k) ==
             /\ q \in Seq(T)
             /\ \A i \in 1 .. k : s[i] \in C => \E j \in 1 .. Len(q) : q[j] = s[i]
             /\ \E m : Origin(q, k, m)
<1>9. Good(<<>>, 0)
  <2>1. Origin(<<>>, 0, [j \in 1 .. 0 |-> 0])
    OBVIOUS
  <2>2. <<>> \in Seq(T) /\ \A i \in 1 .. 0 : FALSE
    OBVIOUS
  <2> HIDE DEF Origin
  <2> QED BY <2>1, <2>2
<1>10. ASSUME NEW k \in 1 .. n, NEW q, Good(q, k - 1)
       PROVE  Good(next(q, s[k]), k)
  <2>1. PICK m : Origin(q, k - 1, m)
    BY <1>10
  <2>2. q \in Seq(T) /\ Len(q) \in Nat
    BY <1>10
  <2>3. CASE s[k] \notin C
    <3>1. next(q, s[k]) = q
      BY <2>3 DEF next
    <3>2. Origin(q, k, m)
      BY <2>1
    <3>3. \A i \in 1 .. k : s[i] \in C => i \in 1 .. k - 1
      BY <2>3
    <3>4. \A i \in 1 .. k : s[i] \in C => \E j \in 1 .. Len(q) : q[j] = s[i]
      BY <1>10, <3>3
    <3> HIDE DEF Origin
    <3> QED BY <2>2, <3>1, <3>2, <3>4
  <2>4. CASE s[k] \in C
    <3> DEFINE p == Append(q, s[k])
               l == Len(q) + 1
               h == [j \in 1 .. l |-> IF j = l THEN k ELSE m[j]]
    <3>1. next(q, s[k]) = p
      BY <2>4 DEF next
    <3>2. p \in Seq(T) /\ Len(p) = l /\ p[l] = s[k] /\ \A j \in 1 .. Len(q) : p[j] = q[j]
      BY <1>1, <2>2
    <3>3. \A i \in 1 .. k : s[i] \in C => \E j \in 1 .. l : p[j] = s[i]
      <4> SUFFICES ASSUME NEW i \in 1 .. k, s[i] \in C PROVE \E j \in 1 .. l : p[j] = s[i]
        OBVIOUS
      <4>1. CASE i = k
        BY <2>2, <3>2, <4>1
      <4>2. CASE i # k
        <5>1. PICK j \in 1 .. Len(q) : q[j] = s[i]
          BY <1>10, <4>2
        <5> QED BY <2>2, <3>2, <5>1
      <4> QED BY <4>1, <4>2
    <3>4. Origin(p, k, h)
      <4>1. \A j \in 1 .. l : j = l \/ j \in 1 .. Len(q)
        BY <2>2
      <4>2. \A j \in 1 .. Len(q) : m[j] \in 1 .. k - 1
        BY <2>1
      <4>3. h \in [1 .. l -> 1 .. k]
        BY <4>1, <4>2
      <4>4. \A j \in 1 .. l : p[j] = s[h[j]] /\ s[h[j]] \in C
        BY <2>1, <2>4, <3>2, <4>1
      <4>5. \A i, j \in 1 .. l : h[i] = h[j] => i = j
        <5>1. \A j \in 1 .. Len(q) : h[j] = m[j] /\ m[j] # k
          BY <2>2, <4>2
        <5>2. h[l] = k
          BY <2>2
        <5> HIDE DEF h, l
        <5> QED BY <2>1, <4>1, <5>1, <5>2
      <4> HIDE DEF h, p
      <4> QED BY <3>2, <4>3, <4>4, <4>5
    <3> HIDE DEF p, h, Origin
    <3> QED BY <3>1, <3>2, <3>3, <3>4
  <2> QED BY <2>3, <2>4
<1>11. Good(r(n), n)
  <2> HIDE DEF Good
  <2> DEFINE S == {k \in Nat : k <= n => Good(r(k), k)}
  <2>1. 0 \in S
    BY <1>8, <1>9
  <2>2. ASSUME NEW k \in Nat, k \in S PROVE k + 1 \in S
    <3> SUFFICES ASSUME k + 1 <= n PROVE Good(r(k + 1), k + 1)
      OBVIOUS
    <3>1. Good(r(k), k) /\ k + 1 \in 1 .. n /\ k + 1 - 1 = k
      BY <1>1, <2>2
    <3> QED BY <1>8, <1>10, <3>1
  <2> HIDE DEF S
  <2>3. n \in S
    BY <1>1, <2>1, <2>2, AllNumbers
  <2> QED BY <1>1, <2>3 DEF S
<1>12. Kept(s, C) = r(n)
  BY <1>3 DEF r
<1> HIDE DEF n
<1>13. PICK m : Origin(r(n), n, m)
  BY <1>11
<1>14. r(n) \in Seq(T) /\ DOMAIN r(n) = 1 .. Len(r(n)) /\ DOMAIN m = 1 .. Len(r(n))
  BY <1>11, <1>13
<1>15. \A i \in DOMAIN s : s[i] \in C => \E k \in DOMAIN r(n) : r(n)[k] = s[i]
  BY <1>1, <1>11, <1>14
<1>16. /\ m \in [DOMAIN r(n) -> DOMAIN s]
       /\ \A k \in DOMAIN m : r(n)[k] = s[m[k]] /\ s[m[k]] \in C
       /\ \A k, l \in DOMAIN m : m[k] = m[l] => k = l
  BY <1>1, <1>13, <1>14
<1> HIDE DEF Origin, Good
<1> DEFINE R == r(n)
<1>17. \E h : Part(R, s, h)
  BY <1>16 DEF Part
<1>18. \A k \in DOMAIN R : R[k] \in C /\ R[k] \in ToSet(s)
  BY <1>16 DEF ToSet
<1>19. /\ R \in Seq(T) /\ \A i \in DOMAIN s : s[i] \in C => \E k \in DOMAIN R : R[k] = s[i]
       /\ R = Kept(s, C)
  BY <1>12, <1>14, <1>15
<1> HIDE DEF R
<1> QED BY <1>17, <1>18, <1>19

-----------------------------------------------------------------------------
(* Contexts *)

ShortRef == [id : Nat, num : Nat, ghost : BOOLEAN]
LongRef  == [id : Nat, num : Nat, idx : Int]
Context  == [short : Seq(ShortRef), long : Seq(LongRef), nextId : Nat, prev : Nat, maxIdx : Int,
             corrupted : BOOLEAN, strict : BOOLEAN]

\* An id names one reference, and was given out before.
IdsApart(c) ==
  /\ \A i \in DOMAIN c.short : c.short[i].id < c.nextId
  /\ \A i \in DOMAIN c.long : c.long[i].id < c.nextId
  /\ \A i, j \in DOMAIN c.short : c.short[i].id = c.short[j].id => i = j
  /\ \A i, j \in DOMAIN c.long : c.long[i].id = c.long[j].id => i = j
  /\ \A i \in DOMAIN c.short, j \in DOMAIN c.long : c.short[i].id # c.long[j].id

Sound(c) == c \in Context /\ IdsApart(c)

\* The references that have a picture.
Refs(c) ==
  {c.short[i].id : i \in {k \in DOMAIN c.short : ~c.short[k].ghost}}
    \cup {c.long[i].id : i \in DOMAIN c.long}

LEMMA RefsMembers ==
  ASSUME NEW c, NEW x
  PROVE  x \in Refs(c) <=> \/ \E i \in DOMAIN c.short : ~c.short[i].ghost /\ x = c.short[i].id
                           \/ \E i \in DOMAIN c.long : x = c.long[i].id
BY DEF Refs

\* The short-term pictures of d are those of c that exist and are not in X; likewise the long-term ones.
ShortFrom(c, d, X) ==
  /\ \E m : Part(d.short, c.short, m)
  /\ \A k \in DOMAIN d.short : d.short[k].ghost \/ d.short[k].id \notin X
  /\ \A i \in DOMAIN c.short :
       ~c.short[i].ghost /\ c.short[i].id \notin X => \E k \in DOMAIN d.short : d.short[k] = c.short[i]

LongFrom(c, d, X) ==
  /\ \E n : Part(d.long, c.long, n)
  /\ \A k \in DOMAIN d.long : d.long[k].id \notin X
  /\ \A i \in DOMAIN c.long :
       c.long[i].id \notin X => \E k \in DOMAIN d.long : d.long[k] = c.long[i]

\* References of a context that go, whatever X they are.
LEMMA Reduced ==
  ASSUME NEW c, Sound(c), NEW d, d \in Context, d.nextId = c.nextId,
         NEW X, ShortFrom(c, d, X), LongFrom(c, d, X)
  PROVE  Sound(d) /\ Refs(d) = Refs(c) \ X
<1>1. PICK m : Part(d.short, c.short, m)
  BY DEF ShortFrom
<1>2. PICK n : Part(d.long, c.long, n)
  BY DEF LongFrom
<1>3. /\ \A k \in DOMAIN d.short : m[k] \in DOMAIN c.short /\ d.short[k] = c.short[m[k]]
      /\ \A k \in DOMAIN d.long : n[k] \in DOMAIN c.long /\ d.long[k] = c.long[n[k]]
  BY <1>1, <1>2 DEF Part
<1>4. IdsApart(d)
  <2>1. /\ \A k \in DOMAIN d.short : d.short[k].id < d.nextId
        /\ \A k \in DOMAIN d.long : d.long[k].id < d.nextId
        /\ \A i \in DOMAIN d.short, j \in DOMAIN d.long : d.short[i].id # d.long[j].id
    BY <1>3 DEF Sound, IdsApart
  <2>2. \A i, j \in DOMAIN d.short : d.short[i].id = d.short[j].id => i = j
    BY <1>3, <1>1, <1>2 DEF Sound, IdsApart, Part
  <2>3. \A i, j \in DOMAIN d.long : d.long[i].id = d.long[j].id => i = j
    BY <1>3, <1>1, <1>2 DEF Sound, IdsApart, Part
  <2> QED BY <2>1, <2>2, <2>3 DEF IdsApart
<1>5. ASSUME NEW x \in Refs(d) PROVE x \in Refs(c) \ X
  BY <1>3, <1>5, RefsMembers DEF ShortFrom, LongFrom
<1>6. ASSUME NEW x \in Refs(c) \ X PROVE x \in Refs(d)
  BY <1>6, RefsMembers DEF ShortFrom, LongFrom
<1> QED BY <1>4, <1>5, <1>6 DEF Sound

\* A sequence is a part of itself.
LEMMA Whole == \A s : Part(s, s, [i \in DOMAIN s |-> i])
BY DEF Part

LEMMA NothingIsPart == \A s : Part(<<>>, s, [i \in DOMAIN <<>> |-> i])
BY DEF Part

\* A sequence without its element i.
LEMMA RemoveAtIs ==
  ASSUME NEW T, NEW s \in Seq(T), NEW i \in DOMAIN s
  PROVE  /\ RemoveAt(s, i) \in Seq(T) /\ Len(RemoveAt(s, i)) = Len(s) - 1
         /\ DOMAIN RemoveAt(s, i) = 1 .. Len(s) - 1
         /\ \A k \in 1 .. Len(s) - 1 : RemoveAt(s, i)[k] = IF k < i THEN s[k] ELSE s[k + 1]
<1> DEFINE q == RemoveAt(s, i)
           l == Len(s) - 1
<1>1. i \in 1 .. Len(s) /\ Len(s) \in Nat /\ DOMAIN s = 1 .. Len(s)
  OBVIOUS
<1>2. /\ SubSeq(s, 1, i - 1) \in Seq(T) /\ Len(SubSeq(s, 1, i - 1)) = i - 1
      /\ \A k \in 1 .. i - 1 : SubSeq(s, 1, i - 1)[k] = s[k]
  BY <1>1
<1>3. /\ SubSeq(s, i + 1, Len(s)) \in Seq(T) /\ Len(SubSeq(s, i + 1, Len(s))) = Len(s) - i
      /\ \A k \in 1 .. Len(s) - i : SubSeq(s, i + 1, Len(s))[k] = s[k + i]
  BY <1>1
<1>4. /\ q \in Seq(T) /\ Len(q) = l /\ DOMAIN q = 1 .. l
      /\ \A k \in 1 .. l : q[k] = IF k < i THEN s[k] ELSE s[k + 1]
  <2> DEFINE a == SubSeq(s, 1, i - 1)
             b == SubSeq(s, i + 1, Len(s))
  <2>1. q = a \o b
    BY DEF RemoveAt
  <2>2. a \in Seq(T) /\ b \in Seq(T) /\ Len(a) = i - 1 /\ Len(b) = Len(s) - i
    BY <1>2, <1>3
  <2> HIDE DEF a, b, q
  <2>3. q \in Seq(T) /\ Len(q) = l
    <3>1. q \in Seq(T) /\ Len(q) = Len(a) + Len(b)
      BY <2>1, <2>2
    <3>2. i - 1 + (Len(s) - i) = Len(s) - 1
      BY <1>1
    <3> QED BY <2>2, <3>1, <3>2
  <2>4. ASSUME NEW k \in 1 .. l PROVE q[k] = IF k < i THEN s[k] ELSE s[k + 1]
    <3>1. CASE k < i
      <4>1. k \in 1 .. Len(a)
        BY <1>1, <2>2, <3>1
      <4>2. q[k] = a[k]
        BY <2>1, <2>2, <4>1
      <4> QED BY <1>1, <1>2, <2>2, <3>1, <4>1, <4>2 DEF a
    <3>2. CASE ~(k < i)
      <4>1. k - (i - 1) \in 1 .. Len(s) - i /\ k - (i - 1) + i = k + 1
        BY <1>1, <3>2
      <4>2. \A x \in 1 .. Len(b) : (a \o b)[Len(a) + x] = b[x]
        BY <2>2
      <4>3. k - (i - 1) \in 1 .. Len(b) /\ Len(a) + (k - (i - 1)) = k
        BY <1>1, <2>2, <4>1
      <4>5. q[k] = b[k - (i - 1)]
        BY <2>1, <4>2, <4>3
      <4>4. b[k - (i - 1)] = s[k + 1]
        BY <1>3, <4>1 DEF b
      <4> QED BY <3>2, <4>4, <4>5
    <3> QED BY <3>1, <3>2
  <2> QED BY <2>3, <2>4
<1> QED BY <1>4

LEMMA RemoveAtPart ==
  ASSUME NEW T, NEW s \in Seq(T), NEW i \in DOMAIN s
  PROVE  /\ RemoveAt(s, i) \in Seq(T)
         /\ \E m : Part(RemoveAt(s, i), s, m) /\ \A k \in DOMAIN RemoveAt(s, i) : m[k] # i
         /\ \A j \in DOMAIN s : j # i => \E k \in DOMAIN RemoveAt(s, i) : RemoveAt(s, i)[k] = s[j]
<1> DEFINE q == RemoveAt(s, i)
           l == Len(s) - 1
           m == [k \in 1 .. l |-> IF k < i THEN k ELSE k + 1]
<1>1. i \in 1 .. Len(s) /\ Len(s) \in Nat /\ DOMAIN s = 1 .. Len(s)
  OBVIOUS
<1>4. /\ q \in Seq(T) /\ Len(q) = l /\ DOMAIN q = 1 .. l
      /\ \A k \in 1 .. l : q[k] = IF k < i THEN s[k] ELSE s[k + 1]
  BY RemoveAtIs
<1> HIDE DEF q
<1>5. Part(q, s, m) /\ \A k \in DOMAIN q : m[k] # i
  BY <1>1, <1>4 DEF Part
<1>6. ASSUME NEW j \in DOMAIN s, j # i PROVE \E k \in DOMAIN q : q[k] = s[j]
  <2>1. CASE j < i
    <3>1. j \in 1 .. l
      BY <1>1, <2>1
    <3> QED BY <1>4, <2>1, <3>1
  <2>2. CASE j > i
    <3>1. j - 1 \in 1 .. l /\ ~(j - 1 < i) /\ j - 1 + 1 = j
      BY <1>1, <2>2
    <3> QED BY <1>4, <3>1
  <2> QED BY <1>1, <1>6, <2>1, <2>2
<1> HIDE DEF m
<1> QED BY <1>4, <1>5, <1>6 DEF q

\* What SelectInSeq finds is a position of the sequence, or 0.
LEMMA FoundPosition ==
  ASSUME NEW T, NEW s \in Seq(T), NEW I, I \subseteq 1 .. Len(s), I # {}
  PROVE  Min(I) \in I /\ \A j \in I : Min(I) <= j
<1>1. I \subseteq Nat
  OBVIOUS
<1>2. \E x \in I : \A y \in I : x <= y
  BY <1>1, LeastExists
<1> QED BY <1>2 DEF Min

\* The numbers of a sequence of references.
LEMMA IdsProperties ==
  ASSUME NEW T, NEW s \in Seq(T), \A x \in T : x.id \in Nat
  PROVE  /\ Ids(s) \in Seq(Nat)
         /\ \A x : x \in ToSet(Ids(s)) <=> \E i \in DOMAIN s : x = s[i].id
<1>1. DOMAIN s = 1 .. Len(s) /\ Len(s) \in Nat /\ \A i \in DOMAIN s : s[i] \in T
  OBVIOUS
<1>2. Ids(s) = [i \in 1 .. Len(s) |-> s[i].id] /\ \A i \in 1 .. Len(s) : s[i].id \in Nat
  BY <1>1 DEF Ids
<1>3. DOMAIN Ids(s) = 1 .. Len(s) /\ \A i \in 1 .. Len(s) : Ids(s)[i] = s[i].id
  BY <1>2
<1> QED BY <1>1, <1>2, <1>3 DEF ToSet

LEMMA ConcatIs ==
  ASSUME NEW T, NEW s \in Seq(T), NEW t \in Seq(T)
  PROVE  /\ s \o t \in Seq(T) /\ Len(s \o t) = Len(s) + Len(t) /\ Len(s) \in Nat /\ Len(t) \in Nat
         /\ \A i \in 1 .. Len(s) : (s \o t)[i] = s[i]
         /\ \A i \in 1 .. Len(t) : (s \o t)[Len(s) + i] = t[i]
         /\ DOMAIN s = 1 .. Len(s) /\ DOMAIN t = 1 .. Len(t) /\ DOMAIN (s \o t) = 1 .. Len(s) + Len(t)
OBVIOUS

LEMMA SetOfConcat ==
  ASSUME NEW T, NEW s \in Seq(T), NEW t \in Seq(T)
  PROVE  s \o t \in Seq(T) /\ ToSet(s \o t) = ToSet(s) \cup ToSet(t)
<1>1. /\ s \o t \in Seq(T) /\ Len(s \o t) = Len(s) + Len(t) /\ Len(s) \in Nat /\ Len(t) \in Nat
      /\ \A i \in 1 .. Len(s) : (s \o t)[i] = s[i]
      /\ \A i \in 1 .. Len(t) : (s \o t)[Len(s) + i] = t[i]
      /\ DOMAIN s = 1 .. Len(s) /\ DOMAIN t = 1 .. Len(t) /\ DOMAIN (s \o t) = 1 .. Len(s) + Len(t)
  BY ConcatIs
<1>2. ASSUME NEW x \in ToSet(s \o t) PROVE x \in ToSet(s) \cup ToSet(t)
  <2>1. PICK i \in 1 .. Len(s) + Len(t) : x = (s \o t)[i]
    BY <1>1 DEF ToSet
  <2>2. CASE i <= Len(s)
    BY <1>1, <2>1, <2>2 DEF ToSet
  <2>3. CASE i > Len(s)
    <3>1. i - Len(s) \in 1 .. Len(t) /\ Len(s) + (i - Len(s)) = i
      BY <1>1, <2>3
    <3>2. x = t[i - Len(s)]
      BY <1>1, <2>1, <3>1
    <3> QED BY <1>1, <3>1, <3>2 DEF ToSet
  <2> QED BY <1>1, <2>2, <2>3
<1>3. ASSUME NEW x \in ToSet(s) PROVE x \in ToSet(s \o t)
  <2>1. PICK i \in 1 .. Len(s) : x = s[i]
    BY <1>1 DEF ToSet
  <2> QED BY <1>1, <2>1 DEF ToSet
<1>4. ASSUME NEW x \in ToSet(t) PROVE x \in ToSet(s \o t)
  <2>1. PICK i \in 1 .. Len(t) : x = t[i]
    BY <1>1 DEF ToSet
  <2>2. Len(s) + i \in 1 .. Len(s) + Len(t)
    BY <1>1
  <2> QED BY <1>1, <2>1, <2>2 DEF ToSet
<1> QED BY <1>1, <1>2, <1>3, <1>4

LEMMA SetOfAppend ==
  ASSUME NEW T, NEW s \in Seq(T), NEW x \in T
  PROVE  Append(s, x) \in Seq(T) /\ ToSet(Append(s, x)) = ToSet(s) \cup {x}
<1>1. /\ Append(s, x) \in Seq(T) /\ Len(s) \in Nat /\ DOMAIN s = 1 .. Len(s)
      /\ DOMAIN Append(s, x) = 1 .. Len(s) + 1
      /\ Append(s, x)[Len(s) + 1] = x /\ \A i \in 1 .. Len(s) : Append(s, x)[i] = s[i]
  OBVIOUS
<1> QED BY <1>1 DEF ToSet

-----------------------------------------------------------------------------
(* What a step does to the references of a context *)

LEMMA ContextFields ==
  ASSUME NEW c \in Context
  PROVE  /\ c.short \in Seq(ShortRef) /\ c.long \in Seq(LongRef)
         /\ c.nextId \in Nat /\ c.prev \in Nat /\ c.maxIdx \in Int
         /\ \A i \in DOMAIN c.short :
              c.short[i].id \in Nat /\ c.short[i].num \in Nat /\ c.short[i].ghost \in BOOLEAN
         /\ \A i \in DOMAIN c.long : c.long[i].id \in Nat /\ c.long[i].idx \in Int
<1>1. /\ c.short \in Seq(ShortRef) /\ c.long \in Seq(LongRef)
      /\ c.nextId \in Nat /\ c.prev \in Nat /\ c.maxIdx \in Int
  BY DEF Context
<1>2. \A i \in DOMAIN c.short : c.short[i] \in ShortRef
  BY <1>1
<1>3. \A i \in DOMAIN c.long : c.long[i] \in LongRef
  BY <1>1
<1>4. \A r \in ShortRef : r.id \in Nat /\ r.num \in Nat /\ r.ghost \in BOOLEAN
  BY DEF ShortRef
<1>5. \A r \in LongRef : r.id \in Nat /\ r.idx \in Int
  BY DEF LongRef
<1> QED BY <1>1, <1>2, <1>3, <1>4, <1>5

LEMMA RefIds == (\A r \in ShortRef : r.id \in Nat) /\ (\A r \in LongRef : r.id \in Nat)
BY DEF ShortRef, LongRef

\* A short-term reference goes.
LEMMA ShortRemoved ==
  ASSUME NEW c, Sound(c), NEW i \in DOMAIN c.short
  PROVE  LET d == [c EXCEPT !.short = RemoveAt(@, i)]
         IN  /\ Sound(d) /\ d.nextId = c.nextId /\ d.strict = c.strict
             /\ Refs(d) = Refs(c) \ IF c.short[i].ghost THEN {} ELSE {c.short[i].id}
<1> DEFINE q == RemoveAt(c.short, i)
           d == [c EXCEPT !.short = q]
           X == IF c.short[i].ghost THEN {} ELSE {c.short[i].id}
<1>0. c \in Context /\ c.short \in Seq(ShortRef) /\ c.long \in Seq(LongRef)
  BY ContextFields DEF Sound
<1>1. /\ q \in Seq(ShortRef)
      /\ \A j \in DOMAIN c.short : j # i => \E k \in DOMAIN q : q[k] = c.short[j]
  BY <1>0, RemoveAtPart
<1>2. PICK m : Part(q, c.short, m) /\ \A k \in DOMAIN q : m[k] # i
  BY <1>0, RemoveAtPart
<1> HIDE DEF q
<1>3. d \in Context /\ d.short = q /\ d.long = c.long /\ d.nextId = c.nextId /\ d.strict = c.strict
  BY <1>0, <1>1 DEF Context
<1> HIDE DEF d
<1>4. \A k \in DOMAIN q : q[k].ghost \/ q[k].id \notin X
  <2> TAKE k \in DOMAIN q
  <2>1. m[k] \in DOMAIN c.short /\ q[k] = c.short[m[k]] /\ m[k] # i
    BY <1>2 DEF Part
  <2> QED BY <2>1 DEF Sound, IdsApart
<1>5. \A k \in DOMAIN c.long : c.long[k].id \notin X
  BY DEF Sound, IdsApart
<1>6. \A j \in DOMAIN c.short : ~c.short[j].ghost /\ c.short[j].id \notin X => j # i
  OBVIOUS
<1>7. \A j \in DOMAIN c.long :
        c.long[j].id \notin X => \E k \in DOMAIN d.long : d.long[k] = c.long[j]
  BY <1>3
<1> HIDE DEF X
<1>8. \A j \in DOMAIN c.short :
        ~c.short[j].ghost /\ c.short[j].id \notin X => \E k \in DOMAIN d.short : d.short[k] = c.short[j]
  BY <1>1, <1>3, <1>6
<1>9. ShortFrom(c, d, X)
  BY <1>2, <1>3, <1>4, <1>8 DEF ShortFrom
<1>10. LongFrom(c, d, X)
  <2>1. Part(d.long, c.long, [k \in DOMAIN c.long |-> k])
    BY <1>3, Whole
  <2> QED BY <1>3, <1>5, <1>7, <2>1 DEF LongFrom
<1>11. Sound(d) /\ Refs(d) = Refs(c) \ X
  BY <1>3, <1>9, <1>10, Reduced
<1> QED BY <1>3, <1>11 DEF d, q, X

\* Long-term references go.
LEMMA LongReduced ==
  ASSUME NEW c, Sound(c), NEW d, d \in Context, d.short = c.short, d.nextId = c.nextId,
         NEW X, \A k \in DOMAIN c.short : c.short[k].id \notin X, LongFrom(c, d, X)
  PROVE  Sound(d) /\ Refs(d) = Refs(c) \ X
<1>1. Part(d.short, c.short, [k \in DOMAIN c.short |-> k])
  BY Whole
<1>2. ShortFrom(c, d, X)
  BY <1>1 DEF ShortFrom
<1> QED BY <1>2, Reduced

LEMMA LongRemoved ==
  ASSUME NEW c, Sound(c), NEW i \in DOMAIN c.long
  PROVE  LET d == [c EXCEPT !.long = RemoveAt(@, i)]
         IN  Sound(d) /\ d.nextId = c.nextId /\ d.strict = c.strict /\ Refs(d) = Refs(c) \ {c.long[i].id}
<1> DEFINE q == RemoveAt(c.long, i)
           d == [c EXCEPT !.long = q]
           X == {c.long[i].id}
<1>0. c \in Context /\ c.long \in Seq(LongRef)
  BY ContextFields DEF Sound
<1>1. /\ q \in Seq(LongRef)
      /\ \A j \in DOMAIN c.long : j # i => \E k \in DOMAIN q : q[k] = c.long[j]
  BY <1>0, RemoveAtPart
<1>2. PICK m : Part(q, c.long, m) /\ \A k \in DOMAIN q : m[k] # i
  BY <1>0, RemoveAtPart
<1> HIDE DEF q
<1>3. d \in Context /\ d.short = c.short /\ d.long = q /\ d.nextId = c.nextId /\ d.strict = c.strict
  BY <1>0, <1>1 DEF Context
<1> HIDE DEF d
<1>4. \A k \in DOMAIN q : q[k].id \notin X
  <2> TAKE k \in DOMAIN q
  <2>1. m[k] \in DOMAIN c.long /\ q[k] = c.long[m[k]] /\ m[k] # i
    BY <1>2 DEF Part
  <2> QED BY <2>1 DEF Sound, IdsApart
<1>5. \A k \in DOMAIN c.short : c.short[k].id \notin X
  BY DEF Sound, IdsApart
<1>6. \A j \in DOMAIN c.long : c.long[j].id \notin X => j # i
  OBVIOUS
<1> HIDE DEF X
<1>7. LongFrom(c, d, X)
  BY <1>1, <1>2, <1>3, <1>4, <1>6 DEF LongFrom
<1>8. Sound(d) /\ Refs(d) = Refs(c) \ X
  BY <1>3, <1>5, <1>7, LongReduced
<1> QED BY <1>3, <1>8 DEF d, q, X

\* The long-term references above an index go.
LEMMA AboveRemoved ==
  ASSUME NEW c, Sound(c), NEW x \in Int, NEW max \in Int
  PROVE  LET d == [c EXCEPT !.maxIdx = max, !.long = Kept(@, ToSet(@) \ Above(@, x))]
             drops == Ids(Kept(c.long, Above(c.long, x)))
         IN  /\ Sound(d) /\ d.nextId = c.nextId /\ d.strict = c.strict
             /\ drops \in Seq(Nat) /\ ToSet(drops) \subseteq Refs(c)
             /\ Refs(d) = Refs(c) \ ToSet(drops)
<1> DEFINE high == Above(c.long, x)
           low == ToSet(c.long) \ high
           gone == Kept(c.long, high)
           q == Kept(c.long, low)
           d == [c EXCEPT !.maxIdx = max, !.long = q]
           X == ToSet(Ids(gone))
<1>0. c \in Context /\ c.long \in Seq(LongRef)
  BY ContextFields DEF Sound
<1> HIDE DEF high, low, d, X
<1>1. /\ q \in Seq(LongRef)
      /\ \A j \in DOMAIN c.long : c.long[j] \in low => \E k \in DOMAIN q : q[k] = c.long[j]
      /\ \A k \in DOMAIN q : q[k] \in low /\ q[k] \in ToSet(c.long)
      /\ \E m : Part(q, c.long, m)
  BY <1>0, KeptPart
<1>2. PICK m : Part(q, c.long, m)
  BY <1>1
<1>3. /\ gone \in Seq(LongRef)
      /\ \A j \in DOMAIN c.long : c.long[j] \in high => \E k \in DOMAIN gone : gone[k] = c.long[j]
      /\ \A k \in DOMAIN gone : gone[k] \in high /\ gone[k] \in ToSet(c.long)
      /\ \E n : Part(gone, c.long, n)
  BY <1>0, KeptPart
<1>4. /\ \A j \in DOMAIN c.long : c.long[j] \in ToSet(c.long)
      /\ \A y \in ToSet(c.long) : \E j \in DOMAIN c.long : y = c.long[j]
      /\ high \subseteq ToSet(c.long)
      /\ \A y : y \in low <=> y \in ToSet(c.long) /\ y \notin high
  BY DEF ToSet, Above, high, low
<1> HIDE DEF gone, q
<1>5. d \in Context /\ d.short = c.short /\ d.long = q /\ d.nextId = c.nextId /\ d.strict = c.strict
  BY <1>0, <1>1 DEF Context, d
<1>6. Ids(gone) \in Seq(Nat) /\ \A y : y \in X <=> \E k \in DOMAIN gone : y = gone[k].id
  BY <1>3, IdsProperties, RefIds DEF X
<1>7. \A y : y \in X <=> \E j \in DOMAIN c.long : c.long[j] \in high /\ y = c.long[j].id
  <2>1. \A k \in DOMAIN gone : \E j \in DOMAIN c.long : gone[k] = c.long[j] /\ c.long[j] \in high
    BY <1>3, <1>4
  <2>2. \A j \in DOMAIN c.long : c.long[j] \in high => \E k \in DOMAIN gone : gone[k] = c.long[j]
    BY <1>3
  <2> QED BY <1>6, <2>1, <2>2
<1>8. \A k \in DOMAIN q : q[k].id \notin X
  <2> TAKE k \in DOMAIN q
  <2>1. m[k] \in DOMAIN c.long /\ q[k] = c.long[m[k]] /\ q[k] \notin high
    BY <1>1, <1>2, <1>4 DEF Part
  <2> QED BY <1>7, <2>1 DEF Sound, IdsApart
<1>9. \A k \in DOMAIN c.short : c.short[k].id \notin X
  BY <1>7 DEF Sound, IdsApart
<1>10. \A j \in DOMAIN c.long : c.long[j].id \notin X => c.long[j] \in low
  BY <1>4, <1>7
<1>11. LongFrom(c, d, X)
  BY <1>1, <1>2, <1>5, <1>8, <1>10 DEF LongFrom
<1>12. Sound(d) /\ Refs(d) = Refs(c) \ X
  BY <1>5, <1>9, <1>11, LongReduced
<1>13. X \subseteq Refs(c)
  BY <1>7, RefsMembers
<1> QED BY <1>5, <1>6, <1>12, <1>13 DEF d, q, X, gone, high, low

\* The references with a picture, as the decoder's properties name them.
LEMMA RefsAreExisting ==
  ASSUME NEW c, c \in Context
  PROVE  /\ Ids(Existing(c.short)) \in Seq(Nat) /\ Ids(c.long) \in Seq(Nat)
         /\ Refs(c) = ToSet(Ids(Existing(c.short))) \cup ToSet(Ids(c.long))
<1> DEFINE C == {p \in ToSet(c.short) : ~p.ghost}
           q == Kept(c.short, C)
<1>1. c.short \in Seq(ShortRef) /\ c.long \in Seq(LongRef)
  BY ContextFields
<1> HIDE DEF C
<1>2. /\ q \in Seq(ShortRef)
      /\ \A k \in DOMAIN q : q[k] \in C
      /\ \A i \in DOMAIN c.short : c.short[i] \in C => \E k \in DOMAIN q : q[k] = c.short[i]
  BY <1>1, KeptPart
<1>3. /\ \A i \in DOMAIN c.short : c.short[i] \in C <=> ~c.short[i].ghost
      /\ \A y \in C : \E i \in DOMAIN c.short : y = c.short[i] /\ ~c.short[i].ghost
  BY DEF ToSet, C
<1>4. Existing(c.short) = q
  BY DEF Existing, C
<1> HIDE DEF q
<1>5. /\ Ids(q) \in Seq(Nat)
      /\ \A x : x \in ToSet(Ids(q)) <=> \E k \in DOMAIN q : x = q[k].id
  BY <1>2, IdsProperties, RefIds
<1>6. /\ Ids(c.long) \in Seq(Nat)
      /\ \A x : x \in ToSet(Ids(c.long)) <=> \E i \in DOMAIN c.long : x = c.long[i].id
  BY <1>1, IdsProperties, RefIds
<1>7. \A x : x \in ToSet(Ids(q)) <=> \E i \in DOMAIN c.short : ~c.short[i].ghost /\ x = c.short[i].id
  BY <1>2, <1>3, <1>5
<1>8. \A x : x \in Refs(c) <=> x \in ToSet(Ids(q)) \/ x \in ToSet(Ids(c.long))
  BY <1>6, <1>7, RefsMembers
<1> QED BY <1>4, <1>5, <1>6, <1>8

\* A picture joins the short-term references.
LEMMA ShortAdded ==
  ASSUME NEW c, Sound(c), NEW num \in Nat, NEW ghost \in BOOLEAN
  PROVE  LET d == AddShort(c, num, ghost)
         IN  /\ Sound(d) /\ d.nextId = c.nextId + 1 /\ d.short # <<>> /\ d.strict = c.strict
             /\ Refs(d) = Refs(c) \cup (IF ghost THEN {} ELSE {c.nextId})
<1> DEFINE p == [id |-> c.nextId, num |-> num, ghost |-> ghost]
           q == Append(c.short, p)
           l == Len(c.short)
           d == [c EXCEPT !.short = q, !.nextId = @ + 1]
<1>0. c \in Context /\ c.short \in Seq(ShortRef) /\ c.nextId \in Nat
  BY ContextFields DEF Sound
<1>1. p \in ShortRef
  BY <1>0 DEF ShortRef
<1>2. /\ q \in Seq(ShortRef) /\ l \in Nat /\ DOMAIN c.short = 1 .. l /\ DOMAIN q = 1 .. l + 1
      /\ q[l + 1] = p /\ \A i \in 1 .. l : q[i] = c.short[i]
  BY <1>0, <1>1
<1>3. p.id = c.nextId /\ p.ghost = ghost
  OBVIOUS
<1>4. /\ \A i \in DOMAIN q : i = l + 1 \/ i \in DOMAIN c.short
      /\ \A i \in DOMAIN c.short : i \in DOMAIN q /\ q[i] = c.short[i] /\ i # l + 1
      /\ l + 1 \in DOMAIN q
  BY <1>2
<1>5. q # <<>>
  BY <1>4
<1> HIDE DEF q, p, l
<1>6. d \in Context /\ d.short = q /\ d.long = c.long /\ d.nextId = c.nextId + 1 /\ d.strict = c.strict
  <2>1. c.nextId + 1 \in Nat
    BY <1>0
  <2> QED BY <1>0, <1>2, <2>1 DEF Context
<1>7. AddShort(c, num, ghost) = d
  BY DEF AddShort, q, p
<1> HIDE DEF d
<1>8. IdsApart(d)
  <2>1. \A i \in DOMAIN c.short : c.short[i].id \in Nat /\ c.short[i].id < c.nextId
    BY <1>0, ContextFields DEF Sound, IdsApart
  <2>2. \A i \in DOMAIN c.long : c.long[i].id \in Nat /\ c.long[i].id < c.nextId
    BY <1>0, ContextFields DEF Sound, IdsApart
  <2>3. \A i \in DOMAIN q : q[i].id < c.nextId + 1
    BY <1>0, <1>2, <1>3, <1>4, <2>1
  <2>4. \A i \in DOMAIN c.long : c.long[i].id < c.nextId + 1
    BY <1>0, <2>2
  <2>5. \A i \in DOMAIN q : i # l + 1 => q[i] = c.short[i] /\ i \in DOMAIN c.short /\ q[i].id # c.nextId
    BY <1>0, <1>4, <2>1
  <2>6. \A i, j \in DOMAIN q : q[i].id = q[j].id => i = j
    BY <1>2, <1>3, <2>5 DEF Sound, IdsApart
  <2>7. \A i \in DOMAIN q, j \in DOMAIN c.long : q[i].id # c.long[j].id
    <3> TAKE i \in DOMAIN q, j \in DOMAIN c.long
    <3>1. CASE i = l + 1
      BY <1>0, <1>2, <1>3, <2>2, <3>1
    <3>2. CASE i # l + 1
      BY <2>5, <3>2 DEF Sound, IdsApart
    <3> QED BY <3>1, <3>2
  <2> QED BY <1>6, <2>3, <2>4, <2>6, <2>7 DEF IdsApart, Sound
<1>9. \A x : (\E i \in DOMAIN q : ~q[i].ghost /\ x = q[i].id)
               <=> \/ \E i \in DOMAIN c.short : ~c.short[i].ghost /\ x = c.short[i].id
                   \/ ~ghost /\ x = c.nextId
  BY <1>2, <1>3, <1>4
<1>10. ASSUME NEW x PROVE x \in Refs(d) <=> x \in Refs(c) \/ (~ghost /\ x = c.nextId)
  <2>1. x \in Refs(d) <=> \/ \E i \in DOMAIN q : ~q[i].ghost /\ x = q[i].id
                          \/ \E i \in DOMAIN c.long : x = c.long[i].id
    BY <1>6, RefsMembers
  <2>2. x \in Refs(c) <=> \/ \E i \in DOMAIN c.short : ~c.short[i].ghost /\ x = c.short[i].id
                          \/ \E i \in DOMAIN c.long : x = c.long[i].id
    BY RefsMembers
  <2> QED BY <1>9, <2>1, <2>2
<1> QED BY <1>5, <1>6, <1>7, <1>8, <1>10 DEF Sound

\* A reference joins the long-term references.
LEMMA LongAdded ==
  ASSUME NEW c, Sound(c), NEW p \in LongRef, NEW d \in Context,
         d.short = c.short, d.long = Append(c.long, p), c.nextId <= d.nextId,
         p.id < d.nextId,
         \A i \in DOMAIN c.short : c.short[i].id # p.id,
         \A i \in DOMAIN c.long : c.long[i].id # p.id
  PROVE  Sound(d) /\ Refs(d) = Refs(c) \cup {p.id}
<1> DEFINE q == Append(c.long, p)
           l == Len(c.long)
<1>0. /\ c \in Context /\ c.long \in Seq(LongRef) /\ c.short \in Seq(ShortRef)
      /\ c.nextId \in Nat /\ d.nextId \in Nat
  BY ContextFields DEF Sound
<1>2. /\ q \in Seq(LongRef) /\ l \in Nat /\ DOMAIN c.long = 1 .. l /\ DOMAIN q = 1 .. l + 1
      /\ q[l + 1] = p /\ \A i \in 1 .. l : q[i] = c.long[i]
  BY <1>0
<1>4. /\ \A i \in DOMAIN q : i = l + 1 \/ i \in DOMAIN c.long
      /\ \A i \in DOMAIN c.long : i \in DOMAIN q /\ q[i] = c.long[i] /\ i # l + 1
      /\ l + 1 \in DOMAIN q
  BY <1>2
<1> HIDE DEF q, l
<1>6. d.long = q
  BY DEF q
<1>8. IdsApart(d)
  <2>1. \A i \in DOMAIN c.short : c.short[i].id < d.nextId
    <3>1. \A i \in DOMAIN c.short : c.short[i].id \in Nat /\ c.short[i].id < c.nextId
      BY <1>0, ContextFields DEF Sound, IdsApart
    <3> QED BY <1>0, <3>1
  <2>2. \A i \in DOMAIN c.long : c.long[i].id < d.nextId
    <3>1. \A i \in DOMAIN c.long : c.long[i].id \in Nat /\ c.long[i].id < c.nextId
      BY <1>0, ContextFields DEF Sound, IdsApart
    <3> QED BY <1>0, <3>1
  <2>3. \A i \in DOMAIN q : q[i].id < d.nextId
    BY <1>2, <1>4, <2>2
  <2>5. \A i \in DOMAIN q : i # l + 1 => q[i] = c.long[i] /\ i \in DOMAIN c.long /\ q[i].id # p.id
    BY <1>4
  <2>6. \A i, j \in DOMAIN q : q[i].id = q[j].id => i = j
    BY <1>2, <2>5 DEF Sound, IdsApart
  <2>7. \A i \in DOMAIN c.short, j \in DOMAIN q : c.short[i].id # q[j].id
    BY <1>2, <2>5 DEF Sound, IdsApart
  <2> QED BY <1>6, <2>1, <2>3, <2>6, <2>7 DEF IdsApart, Sound
<1>9. \A x : (\E i \in DOMAIN q : x = q[i].id)
               <=> (\E i \in DOMAIN c.long : x = c.long[i].id) \/ x = p.id
  BY <1>2, <1>4
<1>10. ASSUME NEW x PROVE x \in Refs(d) <=> x \in Refs(c) \/ x = p.id
  <2>1. x \in Refs(d) <=> \/ \E i \in DOMAIN c.short : ~c.short[i].ghost /\ x = c.short[i].id
                          \/ \E i \in DOMAIN q : x = q[i].id
    BY <1>6, RefsMembers
  <2>2. x \in Refs(c) <=> \/ \E i \in DOMAIN c.short : ~c.short[i].ghost /\ x = c.short[i].id
                          \/ \E i \in DOMAIN c.long : x = c.long[i].id
    BY RefsMembers
  <2> QED BY <1>9, <2>1, <2>2
<1> QED BY <1>8, <1>10 DEF Sound

-----------------------------------------------------------------------------
(* The sliding window *)

LEMMA WrapBounds ==
  ASSUME NEW num \in Nat, NEW cur \in Nat
  PROVE  Wrap(num, cur) \in Int /\ Wrap(num, cur) + MaxFrameNum \in Nat
BY StreamAssumption DEF Wrap

\* There is an oldest short-term picture.
LEMMA OldestIsThere ==
  ASSUME NEW c \in Context, c.short # <<>>, NEW cur \in Nat
  PROVE  Oldest(c, cur) \in DOMAIN c.short
<1> DEFINE w(i) == Wrap(c.short[i].num, cur)
           W == {w(i) + MaxFrameNum : i \in DOMAIN c.short}
<1>1. c.short \in Seq(ShortRef) /\ \A i \in DOMAIN c.short : c.short[i].num \in Nat
  BY ContextFields
<1>2. /\ DOMAIN c.short \subseteq Nat /\ MaxFrameNum \in Nat
      /\ DOMAIN c.short # {}
  BY <1>1, StreamAssumption
<1>3. \A i \in DOMAIN c.short : w(i) \in Int /\ w(i) + MaxFrameNum \in Nat
  BY <1>1, WrapBounds
<1> HIDE DEF w
<1>4. PICK x \in W : \A y \in W : x <= y
  <2>1. W \subseteq Nat /\ W # {}
    BY <1>2, <1>3
  <2> HIDE DEF W
  <2> QED BY <2>1, LeastExists
<1>5. PICK k \in DOMAIN c.short : x = w(k) + MaxFrameNum
  OBVIOUS
<1>6. \A j \in DOMAIN c.short : w(k) <= w(j)
  <2> TAKE j \in DOMAIN c.short
  <2>1. w(k) + MaxFrameNum <= w(j) + MaxFrameNum
    BY <1>4, <1>5
  <2> QED BY <1>2, <1>3, <2>1
<1> DEFINE ties == {i \in DOMAIN c.short : w(i) = w(k)}
<1>7. PICK i \in ties : \A j \in ties : i <= j
  <2>1. ties \subseteq Nat /\ ties # {}
    BY <1>2
  <2> HIDE DEF ties
  <2> QED BY <2>1, LeastExists
<1>8. i \in DOMAIN c.short /\ \A j \in DOMAIN c.short : w(i) < w(j) \/ (w(i) = w(j) /\ i <= j)
  <2>1. i \in DOMAIN c.short /\ w(i) = w(k)
    OBVIOUS
  <2>2. ASSUME NEW j \in DOMAIN c.short PROVE w(i) < w(j) \/ (w(i) = w(j) /\ i <= j)
    <3>1. CASE w(j) = w(k)
      BY <1>7, <2>1, <3>1
    <3>2. CASE w(j) # w(k)
      BY <1>3, <1>6, <2>1, <3>2
    <3> QED BY <3>1, <3>2
  <2> QED BY <2>1, <2>2
<1> HIDE DEF ties, W
<1>9. Oldest(c, cur) = CHOOSE m \in DOMAIN c.short :
                          \A j \in DOMAIN c.short : w(m) < w(j) \/ (w(m) = w(j) /\ m <= j)
  BY DEF Oldest, w
<1> QED BY <1>8, <1>9

\* From the references of c those dropped are gone, and are all that is missing.
Balanced(c, d, drops) ==
  /\ Sound(d) /\ d.strict = c.strict
  /\ drops \in Seq(Nat) /\ ToSet(drops) \subseteq Refs(c)
  /\ Refs(d) = Refs(c) \ ToSet(drops)

LEMMA NothingDropped ==
  ASSUME NEW c, Sound(c)
  PROVE  Balanced(c, c, <<>>)
<1>1. <<>> \in Seq(Nat) /\ ToSet(<<>>) = {}
  BY DEF ToSet
<1> QED BY <1>1 DEF Balanced

LEMMA MoreDropped ==
  ASSUME NEW c, NEW d, NEW drops, Balanced(c, d, drops), NEW e, NEW more, Balanced(d, e, more)
  PROVE  Balanced(c, e, drops \o more)
<1>1. drops \o more \in Seq(Nat) /\ ToSet(drops \o more) = ToSet(drops) \cup ToSet(more)
  BY SetOfConcat DEF Balanced
<1> QED BY <1>1 DEF Balanced

LEMMA OneMoreDropped ==
  ASSUME NEW c, NEW d, NEW drops, Balanced(c, d, drops), NEW e, Sound(e), e.strict = d.strict,
         NEW x \in Nat, x \in Refs(d), Refs(e) = Refs(d) \ {x}
  PROVE  Balanced(c, e, Append(drops, x))
<1>1. Append(drops, x) \in Seq(Nat) /\ ToSet(Append(drops, x)) = ToSet(drops) \cup {x}
  BY SetOfAppend DEF Balanced
<1> QED BY <1>1 DEF Balanced

\* The sliding window drops what it takes out.
LEMMA EvictBalanced ==
  ASSUME NEW c, Sound(c), NEW cur \in Nat
  PROVE  /\ Balanced(c, Evict(c, cur).ctx, Evict(c, cur).drops)
         /\ Evict(c, cur).ctx.nextId = c.nextId
<1>1. CASE ~OverCapacity(c)
  BY <1>1, NothingDropped DEF Evict
<1>2. CASE OverCapacity(c)
  <2> DEFINE i == Oldest(c, cur)
             d == [c EXCEPT !.short = RemoveAt(@, i)]
             drops == IF c.short[i].ghost THEN <<>> ELSE <<c.short[i].id>>
  <2>1. i \in DOMAIN c.short
    BY <1>2, OldestIsThere DEF Sound, OverCapacity
  <2> HIDE DEF i
  <2>2. Evict(c, cur).ctx = d /\ Evict(c, cur).drops = drops
    BY <1>2 DEF Evict, ShortEvicted, i
  <2>3. /\ Sound(d) /\ d.nextId = c.nextId /\ d.strict = c.strict
        /\ Refs(d) = Refs(c) \ IF c.short[i].ghost THEN {} ELSE {c.short[i].id}
    BY <2>1, ShortRemoved
  <2>4. c.short[i].id \in Nat
    BY <2>1, ContextFields DEF Sound
  <2>5. /\ drops \in Seq(Nat)
        /\ ToSet(drops) = IF c.short[i].ghost THEN {} ELSE {c.short[i].id}
    BY <2>4 DEF ToSet
  <2>6. ~c.short[i].ghost => c.short[i].id \in Refs(c)
    BY <2>1, RefsMembers
  <2> HIDE DEF d, drops
  <2> QED BY <2>2, <2>3, <2>5, <2>6 DEF Balanced
<1> QED BY <1>1, <1>2

-----------------------------------------------------------------------------
(* The marking operations *)

Marks == [ctx : Context, drops : Seq(Nat), idx : Int, ok : BOOLEAN]

\* What the operations make of c.
MarkedFrom(c) ==
  {acc \in Marks : Balanced(c, acc.ctx, acc.drops) /\ acc.ctx.nextId = c.nextId}

LEMMA MarksFields ==
  ASSUME NEW c, NEW acc \in MarkedFrom(c)
  PROVE  /\ acc \in Marks /\ acc.ctx \in Context /\ Sound(acc.ctx)
         /\ acc.drops \in Seq(Nat) /\ acc.idx \in Int /\ acc.ok \in BOOLEAN
         /\ Balanced(c, acc.ctx, acc.drops) /\ acc.ctx.nextId = c.nextId
BY DEF MarkedFrom, Marks, Balanced, Sound

LEMMA MarkedAgain ==
  ASSUME NEW c, NEW acc \in Marks, Balanced(c, acc.ctx, acc.drops), acc.ctx.nextId = c.nextId
  PROVE  acc \in MarkedFrom(c)
BY DEF MarkedFrom

LEMMA ShortAtPosition ==
  ASSUME NEW acc, acc.ctx \in Context, NEW h, NEW op
  PROVE  ShortAt(acc, h, op) \in {0} \cup DOMAIN acc.ctx.short
<1> DEFINE s == acc.ctx.short
           I == {i \in 1 .. Len(s) : Wrap(s[i].num, h.num) = h.num - (op.diff + 1)}
<1>1. ShortAt(acc, h, op) = IF I # {} THEN Min(I) ELSE 0
  BY DEF ShortAt, SelectInSeq
<1>2. s \in Seq(ShortRef)
  BY ContextFields
<1>3. I \subseteq 1 .. Len(s) /\ DOMAIN s = 1 .. Len(s)
  BY <1>2
<1> HIDE DEF I, s
<1>4. I # {} => Min(I) \in I
  BY <1>2, <1>3, FoundPosition
<1> QED BY <1>1, <1>3, <1>4 DEF s

\* A long-term frame index is freed, and its reference dropped.
LEMMA RemoveLongBalanced ==
  ASSUME NEW c, NEW acc \in MarkedFrom(c), NEW idx
  PROVE  /\ RemoveLong(acc, idx) \in MarkedFrom(c)
         /\ RemoveLong(acc, idx).ctx.short = acc.ctx.short
<1> DEFINE s == acc.ctx.long
           I == {k \in 1 .. Len(s) : s[k].idx = idx}
           i == IF I # {} THEN Min(I) ELSE 0
           d == [acc.ctx EXCEPT !.long = RemoveAt(@, i)]
           x == s[i].id
           next == [acc EXCEPT !.ctx = d, !.drops = Append(@, x)]
<1>1. RemoveLong(acc, idx) = IF i = 0 THEN acc
                             ELSE [acc EXCEPT !.ctx.long = RemoveAt(@, i), !.drops = Append(@, x)]
  BY DEF RemoveLong, SelectInSeq
<1>2. s \in Seq(LongRef) /\ acc.ctx \in Context /\ acc \in Marks
  BY MarksFields, ContextFields
<1>3. I \subseteq 1 .. Len(s) /\ DOMAIN s = 1 .. Len(s)
  BY <1>2
<1> HIDE DEF I
<1>4. i = 0 \/ i \in DOMAIN s
  <2> HIDE DEF s
  <2> QED BY <1>2, <1>3, FoundPosition
<1> HIDE DEF i
<1>5. ASSUME i # 0 PROVE next \in MarkedFrom(c)
  <2>1. i \in DOMAIN acc.ctx.long
    BY <1>4, <1>5
  <2>2. Sound(d) /\ d.nextId = acc.ctx.nextId /\ d.strict = acc.ctx.strict /\ Refs(d) = Refs(acc.ctx) \ {x}
    BY <2>1, LongRemoved, MarksFields
  <2>3. x \in Nat /\ x \in Refs(acc.ctx)
    BY <2>1, <1>2, ContextFields, RefsMembers
  <2> HIDE DEF d, x
  <2>4. Balanced(c, d, Append(acc.drops, x))
    BY <2>2, <2>3, MarksFields, OneMoreDropped
  <2>5. next.ctx = d /\ next.drops = Append(acc.drops, x) /\ next \in Marks
    BY <1>2, <2>4 DEF Marks, Balanced, Sound
  <2> HIDE DEF next
  <2> QED BY <2>2, <2>4, <2>5, MarksFields, MarkedAgain
<1>6. ASSUME i # 0 PROVE RemoveLong(acc, idx) = next /\ next.ctx.short = acc.ctx.short
  <2>1. acc = [acc EXCEPT !.ctx = acc.ctx]
    BY <1>2 DEF Marks
  <2> QED BY <1>1, <1>2, <1>6 DEF Marks, Context
<1> QED BY <1>1, <1>5, <1>6

\* ShortTermUnused
LEMMA ShortUnusedBalanced ==
  ASSUME NEW c, NEW acc \in MarkedFrom(c), NEW i \in DOMAIN acc.ctx.short
  PROVE  [acc EXCEPT !.ctx.short = RemoveAt(@, i),
                     !.drops = IF acc.ctx.short[i].ghost THEN @ ELSE Append(@, acc.ctx.short[i].id)]
           \in MarkedFrom(c)
<1> DEFINE d == [acc.ctx EXCEPT !.short = RemoveAt(@, i)]
           x == acc.ctx.short[i].id
           ghost == acc.ctx.short[i].ghost
           drops == IF ghost THEN acc.drops ELSE Append(acc.drops, x)
           next == [acc EXCEPT !.ctx = d, !.drops = drops]
<1>1. /\ Sound(d) /\ d.nextId = acc.ctx.nextId /\ d.strict = acc.ctx.strict
      /\ Refs(d) = Refs(acc.ctx) \ IF ghost THEN {} ELSE {x}
  BY ShortRemoved, MarksFields
<1>2. x \in Nat /\ (~ghost => x \in Refs(acc.ctx)) /\ acc \in Marks /\ acc.ctx \in Context
  BY MarksFields, ContextFields, RefsMembers
<1>3. [acc EXCEPT !.ctx.short = RemoveAt(@, i),
                  !.drops = IF acc.ctx.short[i].ghost THEN @ ELSE Append(@, acc.ctx.short[i].id)] = next
  BY <1>2 DEF Marks, Context
<1> HIDE DEF d, x, ghost
<1>4. Balanced(c, d, drops)
  <2>1. CASE ghost
    BY <1>1, <2>1, MarksFields DEF Balanced
  <2>2. CASE ~ghost
    BY <1>1, <1>2, <2>2, MarksFields, OneMoreDropped
  <2> QED BY <2>1, <2>2
<1> HIDE DEF drops
<1>5. next.ctx = d /\ next.drops = drops /\ next \in Marks
  BY <1>2, <1>4 DEF Marks, Balanced, Sound
<1> HIDE DEF next
<1>6. next \in MarkedFrom(c)
  BY <1>1, <1>4, <1>5, MarksFields, MarkedAgain
<1> QED BY <1>3, <1>6

\* Flags change nothing.
LEMMA OkBalanced ==
  ASSUME NEW c, NEW acc \in MarkedFrom(c)
  PROVE  [acc EXCEPT !.ok = FALSE] \in MarkedFrom(c) /\ [acc EXCEPT !.ok = TRUE] \in MarkedFrom(c)
BY DEF MarkedFrom, Marks

LEMMA IdxBalanced ==
  ASSUME NEW c, NEW acc \in MarkedFrom(c), NEW idx \in Int
  PROVE  [acc EXCEPT !.idx = idx] \in MarkedFrom(c)
BY DEF MarkedFrom, Marks

\* ShortTermToLongTerm of an inferred picture: an error, but the picture is gone.
LEMMA GhostTakenBalanced ==
  ASSUME NEW c, NEW acc \in MarkedFrom(c), NEW i \in DOMAIN acc.ctx.short, acc.ctx.short[i].ghost
  PROVE  [acc EXCEPT !.ctx.short = RemoveAt(@, i), !.ok = FALSE] \in MarkedFrom(c)
<1> DEFINE next == [acc EXCEPT !.ctx.short = RemoveAt(@, i), !.drops = @]
<1>1. next \in MarkedFrom(c)
  <2>1. next = [acc EXCEPT !.ctx.short = RemoveAt(@, i),
                           !.drops = IF acc.ctx.short[i].ghost THEN @ ELSE Append(@, acc.ctx.short[i].id)]
    OBVIOUS
  <2> HIDE DEF next
  <2> QED BY <2>1, ShortUnusedBalanced
<1>2. [acc EXCEPT !.ctx.short = RemoveAt(@, i), !.ok = FALSE] = [next EXCEPT !.ok = FALSE]
  BY MarksFields DEF Marks
<1>3. [next EXCEPT !.ok = FALSE] \in MarkedFrom(c)
  <2> HIDE DEF next
  <2> QED BY <1>1, OkBalanced
<1> QED BY <1>2, <1>3

\* ShortTermToLongTerm
LEMMA ConvertedBalanced ==
  ASSUME NEW c, NEW acc \in MarkedFrom(c), NEW i \in DOMAIN acc.ctx.short, ~acc.ctx.short[i].ghost,
         NEW idx \in Int
  PROVE  [acc EXCEPT !.ctx.short = RemoveAt(@, i),
                     !.ctx.long = Append(@, [id |-> acc.ctx.short[i].id,
                                             num |-> acc.ctx.short[i].num, idx |-> idx])]
           \in MarkedFrom(c)
<1> DEFINE p == [id |-> acc.ctx.short[i].id, num |-> acc.ctx.short[i].num, idx |-> idx]
           d == [acc.ctx EXCEPT !.short = RemoveAt(@, i)]
           e == [acc.ctx EXCEPT !.short = RemoveAt(@, i), !.long = Append(@, p)]
           next == [acc EXCEPT !.ctx = e]
<1>1. acc \in Marks /\ acc.ctx \in Context /\ Sound(acc.ctx) /\ acc.ctx.nextId \in Nat
  BY MarksFields, ContextFields
<1>2. p \in LongRef /\ p.id = acc.ctx.short[i].id
  BY <1>1, ContextFields DEF LongRef
<1>3. /\ Sound(d) /\ d.nextId = acc.ctx.nextId /\ d.strict = acc.ctx.strict
      /\ Refs(d) = Refs(acc.ctx) \ {p.id}
  BY <1>1, <1>2, ShortRemoved
<1>4. d.short = RemoveAt(acc.ctx.short, i) /\ d.long = acc.ctx.long
  BY <1>1 DEF Context
<1> HIDE DEF p
<1>5. /\ e \in Context /\ e.short = d.short /\ e.long = Append(d.long, p)
      /\ e.nextId = d.nextId /\ e.strict = d.strict
  <2>1. d.short \in Seq(ShortRef) /\ d.long \in Seq(LongRef)
    BY <1>3, ContextFields DEF Sound
  <2>2. Append(d.long, p) \in Seq(LongRef)
    BY <1>2, <2>1
  <2>3. e = [acc.ctx EXCEPT !.short = d.short, !.long = Append(d.long, p)]
    BY <1>4
  <2> HIDE DEF d, e
  <2> QED BY <1>1, <1>3, <2>1, <2>2, <2>3 DEF Context
<1>6. p.id < e.nextId /\ p.id \in Refs(acc.ctx)
  BY <1>1, <1>2, <1>3, <1>5, RefsMembers DEF Sound, IdsApart
<1>7. \A k \in DOMAIN d.short : d.short[k].id # p.id
  <2> DEFINE s == acc.ctx.short
  <2>1. s \in Seq(ShortRef) /\ i \in DOMAIN s
    BY <1>1, ContextFields
  <2>2. \A k, l \in DOMAIN s : s[k].id = s[l].id => k = l
    BY <1>1 DEF Sound, IdsApart
  <2>3. d.short = RemoveAt(s, i) /\ p.id = s[i].id
    BY <1>2, <1>4
  <2> HIDE DEF s, d
  <2>4. PICK m : Part(RemoveAt(s, i), s, m) /\ \A k \in DOMAIN RemoveAt(s, i) : m[k] # i
    BY <2>1, RemoveAtPart
  <2>5. ASSUME NEW k \in DOMAIN d.short PROVE d.short[k].id # p.id
    <3>1. m[k] \in DOMAIN s /\ d.short[k] = s[m[k]] /\ m[k] # i
      BY <2>3, <2>4 DEF Part
    <3> QED BY <2>1, <2>2, <2>3, <3>1
  <2> QED BY <2>5
<1>8. \A k \in DOMAIN d.long : d.long[k].id # p.id
  BY <1>1, <1>2, <1>4 DEF Sound, IdsApart
<1> HIDE DEF d, e
<1>9. Sound(e) /\ Refs(e) = Refs(d) \cup {p.id}
  <2>1. d.nextId <= e.nextId
    BY <1>1, <1>3, <1>5
  <2> QED BY <1>2, <1>3, <1>5, <1>6, <1>7, <1>8, <2>1, LongAdded
<1>10. Refs(e) = Refs(acc.ctx)
  BY <1>3, <1>6, <1>9
<1>11. Balanced(c, e, acc.drops)
  BY <1>3, <1>5, <1>9, <1>10, MarksFields DEF Balanced
<1>12. next.ctx = e /\ next.drops = acc.drops /\ next \in Marks
  BY <1>1, <1>5 DEF Marks
<1>13. [acc EXCEPT !.ctx.short = RemoveAt(@, i), !.ctx.long = Append(@, p)] = next
  BY <1>1 DEF Marks, Context, e
<1> HIDE DEF next
<1>14. next \in MarkedFrom(c)
  BY <1>3, <1>5, <1>11, <1>12, MarksFields, MarkedAgain
<1> QED BY <1>13, <1>14 DEF p

\* MaxLongTermIdx
LEMMA MaxIdxBalanced ==
  ASSUME NEW c, NEW acc \in MarkedFrom(c), NEW x \in Int
  PROVE  [acc EXCEPT !.ctx.maxIdx = x,
                     !.drops = @ \o Ids(Kept(acc.ctx.long, Above(acc.ctx.long, x))),
                     !.ctx.long = Kept(@, ToSet(@) \ Above(@, x))]
           \in MarkedFrom(c)
<1> DEFINE d == [acc.ctx EXCEPT !.maxIdx = x, !.long = Kept(@, ToSet(@) \ Above(@, x))]
           more == Ids(Kept(acc.ctx.long, Above(acc.ctx.long, x)))
           next == [acc EXCEPT !.ctx = d, !.drops = @ \o more]
<1>1. acc \in Marks /\ acc.ctx \in Context /\ Sound(acc.ctx)
  BY MarksFields
<1>2. /\ Sound(d) /\ d.nextId = acc.ctx.nextId /\ d.strict = acc.ctx.strict
      /\ more \in Seq(Nat) /\ ToSet(more) \subseteq Refs(acc.ctx)
      /\ Refs(d) = Refs(acc.ctx) \ ToSet(more)
  BY <1>1, AboveRemoved
<1>3. [acc EXCEPT !.ctx.maxIdx = x,
                  !.drops = @ \o Ids(Kept(acc.ctx.long, Above(acc.ctx.long, x))),
                  !.ctx.long = Kept(@, ToSet(@) \ Above(@, x))] = next
  BY <1>1 DEF Marks, Context
<1> HIDE DEF d, more
<1>4. Balanced(c, d, acc.drops \o more)
  <2>1. Balanced(acc.ctx, d, more)
    BY <1>2 DEF Balanced
  <2> QED BY <2>1, MarksFields, MoreDropped
<1>5. next.ctx = d /\ next.drops = acc.drops \o more /\ next \in Marks
  BY <1>1, <1>4 DEF Marks, Balanced, Sound
<1> HIDE DEF next
<1>6. next \in MarkedFrom(c)
  BY <1>2, <1>4, <1>5, MarksFields, MarkedAgain
<1> QED BY <1>3, <1>6

\* AllUnused
LEMMA AllUnusedBalanced ==
  ASSUME NEW c, NEW acc \in MarkedFrom(c)
  PROVE  [acc EXCEPT !.ctx.short = <<>>, !.ctx.long = <<>>, !.ctx.maxIdx = NoIdx,
                     !.drops = @ \o Ids(Existing(acc.ctx.short)) \o Ids(acc.ctx.long)]
           \in MarkedFrom(c)
<1> DEFINE d == [acc.ctx EXCEPT !.short = <<>>, !.long = <<>>, !.maxIdx = NoIdx]
           a == Ids(Existing(acc.ctx.short))
           b == Ids(acc.ctx.long)
           next == [acc EXCEPT !.ctx = d, !.drops = @ \o a \o b]
<1>1. acc \in Marks /\ acc.ctx \in Context /\ Sound(acc.ctx) /\ acc.ctx.nextId \in Nat
  BY MarksFields, ContextFields
<1>2. a \in Seq(Nat) /\ b \in Seq(Nat) /\ Refs(acc.ctx) = ToSet(a) \cup ToSet(b)
  BY <1>1, RefsAreExisting
<1>3. [acc EXCEPT !.ctx.short = <<>>, !.ctx.long = <<>>, !.ctx.maxIdx = NoIdx,
                  !.drops = @ \o Ids(Existing(acc.ctx.short)) \o Ids(acc.ctx.long)] = next
  BY <1>1 DEF Marks, Context
<1>4. /\ d \in Context /\ d.short = <<>> /\ d.long = <<>> /\ d.nextId = acc.ctx.nextId
      /\ d.strict = acc.ctx.strict
  <2>1. <<>> \in Seq(ShortRef) /\ <<>> \in Seq(LongRef) /\ NoIdx \in Int
    BY DEF NoIdx
  <2> QED BY <1>1, <2>1 DEF Context
<1> HIDE DEF d, a, b
<1>5. Sound(d) /\ Refs(d) = {}
  <2>1. DOMAIN d.short = {} /\ DOMAIN d.long = {}
    BY <1>4
  <2> QED BY <1>4, <2>1, RefsMembers DEF Sound, IdsApart
<1>6. /\ acc.drops \o a \o b \in Seq(Nat)
      /\ ToSet(acc.drops \o a \o b) = ToSet(acc.drops) \cup Refs(acc.ctx)
  <2>1. acc.drops \o a \in Seq(Nat) /\ ToSet(acc.drops \o a) = ToSet(acc.drops) \cup ToSet(a)
    BY <1>2, MarksFields, SetOfConcat
  <2> DEFINE both == acc.drops \o a
  <2>2. both \o b \in Seq(Nat) /\ ToSet(both \o b) = ToSet(both) \cup ToSet(b)
    <3> HIDE DEF both
    <3>1. both \in Seq(Nat)
      BY <2>1 DEF both
    <3> QED BY <1>2, <3>1, SetOfConcat
  <2> QED BY <1>2, <2>1, <2>2
<1>7. Balanced(c, d, acc.drops \o a \o b)
  BY <1>4, <1>5, <1>6, MarksFields DEF Balanced
<1>9. next.ctx = d /\ next.drops = acc.drops \o a \o b /\ next \in Marks
  BY <1>1, <1>4, <1>6 DEF Marks
<1> HIDE DEF next
<1>10. next \in MarkedFrom(c)
  BY <1>4, <1>7, <1>9, MarksFields, MarkedAgain
<1> QED BY <1>3, <1>10

Kinds == {"ShortTermUnused", "LongTermUnused", "ShortTermToLongTerm", "MaxLongTermIdx",
          "AllUnused", "CurrentToLongTerm"}

\* What the parser makes of a memory_management_control_operation.
IsOperation(op) == op.op \in Kinds /\ op.idx \in Int

\* One operation keeps the balance, also when it fails.
LEMMA OperationBalanced ==
  ASSUME NEW c, NEW acc \in MarkedFrom(c), NEW h, NEW op, IsOperation(op)
  PROVE  Operation(acc, h, op) \in MarkedFrom(c)
<1> DEFINE i == ShortAt(acc, h, op)
           freed == RemoveLong(acc, op.idx)
           next == Operate(acc, op, i, freed)
<1>1. i \in {0} \cup DOMAIN acc.ctx.short
  BY ShortAtPosition, MarksFields
<1>2. freed \in MarkedFrom(c) /\ freed.ctx.short = acc.ctx.short
  BY RemoveLongBalanced
<1>3. Operation(acc, h, op) = next
  BY DEF Operation
<1>4. op.idx \in Int
  BY DEF IsOperation
<1> HIDE DEF i, freed
<1>5. CASE op.op = "ShortTermUnused"
  <2>1. next = IF i = 0 THEN [acc EXCEPT !.ok = FALSE]
               ELSE [acc EXCEPT !.ctx.short = RemoveAt(@, i),
                                !.drops = IF acc.ctx.short[i].ghost THEN @
                                          ELSE Append(@, acc.ctx.short[i].id)]
    BY <1>5 DEF Operate
  <2>2. CASE i = 0
    BY <1>3, <2>1, <2>2, OkBalanced
  <2>3. CASE i # 0
    <3>1. i \in DOMAIN acc.ctx.short
      BY <1>1, <2>3
    <3>2. next = [acc EXCEPT !.ctx.short = RemoveAt(@, i),
                             !.drops = IF acc.ctx.short[i].ghost THEN @
                                       ELSE Append(@, acc.ctx.short[i].id)]
      BY <2>1, <2>3
    <3>3. [acc EXCEPT !.ctx.short = RemoveAt(@, i),
                      !.drops = IF acc.ctx.short[i].ghost THEN @
                                ELSE Append(@, acc.ctx.short[i].id)] \in MarkedFrom(c)
      BY <3>1, ShortUnusedBalanced
    <3> HIDE DEF next
    <3> QED BY <1>3, <3>2, <3>3
  <2> QED BY <2>2, <2>3
<1>6. CASE op.op = "LongTermUnused"
  <2>1. next = [freed EXCEPT !.ok = freed # acc]
    BY <1>6 DEF Operate
  <2>2. next = [freed EXCEPT !.ok = TRUE] \/ next = [freed EXCEPT !.ok = FALSE]
    BY <2>1
  <2> HIDE DEF next
  <2> QED BY <1>2, <1>3, <2>2, OkBalanced
<1>7. CASE op.op = "ShortTermToLongTerm"
  <2> DEFINE taken == [freed EXCEPT !.ctx.short = RemoveAt(@, i)]
             target == acc.ctx.short[i]
  <2>1. next = IF i = 0 THEN [freed EXCEPT !.ok = FALSE]
               ELSE IF target.ghost THEN [taken EXCEPT !.ok = FALSE]
               ELSE [taken EXCEPT !.ctx.long =
                       Append(@, [id |-> target.id, num |-> target.num, idx |-> op.idx])]
    BY <1>7 DEF Operate
  <2>2. CASE i = 0
    BY <1>2, <1>3, <2>1, <2>2, OkBalanced
  <2>3. CASE i # 0 /\ target.ghost
    <3>1. i \in DOMAIN freed.ctx.short /\ freed.ctx.short[i].ghost
      BY <1>1, <1>2, <2>3
    <3>2. next = [freed EXCEPT !.ctx.short = RemoveAt(@, i), !.ok = FALSE]
      BY <2>1, <2>3
    <3>3. [freed EXCEPT !.ctx.short = RemoveAt(@, i), !.ok = FALSE] \in MarkedFrom(c)
      BY <1>2, <3>1, GhostTakenBalanced
    <3> HIDE DEF next
    <3> QED BY <1>3, <3>2, <3>3
  <2>4. CASE i # 0 /\ ~target.ghost
    <3>1. i \in DOMAIN freed.ctx.short /\ ~freed.ctx.short[i].ghost
      BY <1>1, <1>2, <2>4
    <3>2. target = freed.ctx.short[i]
      BY <1>2
    <3>3. next = [taken EXCEPT !.ctx.long =
                    Append(@, [id |-> target.id, num |-> target.num, idx |-> op.idx])]
      BY <2>1, <2>4
    <3>4. next = [freed EXCEPT !.ctx.short = RemoveAt(@, i),
                               !.ctx.long = Append(@, [id |-> freed.ctx.short[i].id,
                                                       num |-> freed.ctx.short[i].num, idx |-> op.idx])]
      <4> HIDE DEF next, target
      <4> QED BY <3>2, <3>3
    <3>5. [freed EXCEPT !.ctx.short = RemoveAt(@, i),
                        !.ctx.long = Append(@, [id |-> freed.ctx.short[i].id,
                                                num |-> freed.ctx.short[i].num, idx |-> op.idx])]
            \in MarkedFrom(c)
      BY <1>2, <1>4, <3>1, ConvertedBalanced
    <3> HIDE DEF next
    <3> QED BY <1>3, <3>4, <3>5
  <2> QED BY <2>2, <2>3, <2>4
<1>8. CASE op.op = "MaxLongTermIdx"
  <2>1. next = [acc EXCEPT !.ctx.maxIdx = op.idx,
                           !.drops = @ \o Ids(Kept(acc.ctx.long, Above(acc.ctx.long, op.idx))),
                           !.ctx.long = Kept(@, ToSet(@) \ Above(@, op.idx))]
    BY <1>8 DEF Operate
  <2>2. [acc EXCEPT !.ctx.maxIdx = op.idx,
                    !.drops = @ \o Ids(Kept(acc.ctx.long, Above(acc.ctx.long, op.idx))),
                    !.ctx.long = Kept(@, ToSet(@) \ Above(@, op.idx))] \in MarkedFrom(c)
    BY <1>4, MaxIdxBalanced
  <2> HIDE DEF next
  <2> QED BY <1>3, <2>1, <2>2
<1>9. CASE op.op = "AllUnused"
  <2>1. next = [acc EXCEPT !.ctx.short = <<>>, !.ctx.long = <<>>, !.ctx.maxIdx = NoIdx,
                           !.drops = @ \o Ids(Existing(acc.ctx.short)) \o Ids(acc.ctx.long)]
    BY <1>9 DEF Operate
  <2> HIDE DEF next
  <2> QED BY <1>3, <2>1, AllUnusedBalanced
<1>10. CASE op.op = "CurrentToLongTerm"
  <2>1. next = [freed EXCEPT !.idx = op.idx]
    BY <1>10 DEF Operate
  <2> HIDE DEF next
  <2>2. [freed EXCEPT !.idx = op.idx] \in MarkedFrom(c)
    BY <1>2, <1>4, IdxBalanced
  <2> QED BY <1>3, <2>1, <2>2
<1> QED BY <1>5, <1>6, <1>7, <1>8, <1>9, <1>10 DEF IsOperation, Kinds

\* All the operations of a picture, one after the other.
OperationTrace(r, c, h) ==
  /\ r \in [0 .. Len(h.ops) -> MarkedFrom(c)]
  /\ r[0] = [ctx |-> c, drops |-> <<>>, idx |-> NoIdx, ok |-> TRUE]
  /\ r[Len(h.ops)] = Operations(c, h)
  /\ \A k \in 1 .. Len(h.ops) :
       r[k] = IF r[k - 1].ok THEN Operation(r[k - 1], h, h.ops[k]) ELSE r[k - 1]

LEMMA OperationsTraced ==
  ASSUME NEW c, Sound(c), NEW T, \A op \in T : IsOperation(op), NEW h, h.ops \in Seq(T)
  PROVE  \E r : OperationTrace(r, c, h)
<1> DEFINE s == h.ops
           n == Len(s)
           A == MarkedFrom(c)
           base == [ctx |-> c, drops |-> <<>>, idx |-> NoIdx, ok |-> TRUE]
           next(acc, op) == IF acc.ok THEN Operation(acc, h, op) ELSE acc
           F == [z \in A \X (1 .. n) |-> next(z[1], s[z[2]])]
           it[u \in SUBSET DOMAIN s] ==
             IF u = {} THEN base ELSE next(it[u \ {Max(u)}], s[Max(u)])
<1>1. n \in Nat /\ DOMAIN s = 1 .. n /\ \A k \in 1 .. n : s[k] \in T
  OBVIOUS
<1>2. \A acc \in A, op \in T : next(acc, op) \in A
  BY OperationBalanced
<1>3. Operations(c, h) = it[1 .. n]
  BY <1>1 DEF Operations, FoldLeft, MapThenFoldSet
<1> HIDE DEF next, A
<1>4. base \in A
  <2>1. base \in Marks /\ base.ctx = c /\ base.drops = <<>>
    BY DEF Marks, Sound, NoIdx
  <2> HIDE DEF base
  <2> QED BY <2>1, NothingDropped, MarkedAgain DEF A
<1> HIDE DEF base
<1>5. F \in [A \X (1 .. n) -> A]
  BY <1>1, <1>2
<1>6. PICK g : Folds(g, A, n, base, F)
  <2> HIDE DEF F, n
  <2> QED BY <1>1, <1>4, <1>5, FoldExists
<1>7. g = [u \in SUBSET DOMAIN s |-> IF u = {} THEN base ELSE next(g[u \ {Max(u)}], s[Max(u)])]
  <2>1. ASSUME NEW u \in SUBSET (1 .. n), u # {}
        PROVE  F[<<g[u \ {Max(u)}], Max(u)>>] = next(g[u \ {Max(u)}], s[Max(u)])
    <3>1. Max(u) \in 1 .. n /\ g[u \ {Max(u)}] \in A
      BY <1>1, <1>6, <2>1, MaxInSet DEF Folds
    <3> QED BY <3>1
  <2> QED BY <1>1, <1>6, <2>1 DEF Folds
<1>8. it = [u \in SUBSET DOMAIN s |-> IF u = {} THEN base ELSE next(it[u \ {Max(u)}], s[Max(u)])]
  BY <1>7
<1> HIDE DEF it, F
<1> DEFINE r(k) == it[1 .. k]
<1>9. r(0) = base /\ \A k \in 1 .. n : r(k) = next(r(k - 1), s[k])
  <2>1. 1 .. 0 = {} /\ {} \in SUBSET DOMAIN s
    OBVIOUS
  <2>2. ASSUME NEW k \in 1 .. n PROVE r(k) = next(r(k - 1), s[k])
    <3>1. 1 .. k \in SUBSET DOMAIN s /\ 1 .. k # {}
      BY <1>1, Prefix
    <3>2. Max(1 .. k) = k /\ (1 .. k) \ {Max(1 .. k)} = 1 .. k - 1
      BY <1>1, MaxOfInterval
    <3> QED BY <1>8, <3>1, <3>2
  <2> QED BY <1>8, <2>1, <2>2
<1>10. \A k \in 0 .. n : r(k) \in A
  <2> HIDE DEF r
  <2> DEFINE S == {k \in Nat : k <= n => r(k) \in A}
  <2>1. 0 \in S
    BY <1>4, <1>9
  <2>2. ASSUME NEW k \in Nat, k \in S PROVE k + 1 \in S
    <3> SUFFICES ASSUME k + 1 <= n PROVE r(k + 1) \in A
      OBVIOUS
    <3>1. r(k) \in A /\ k + 1 \in 1 .. n /\ k + 1 - 1 = k
      BY <1>1, <2>2
    <3> QED BY <1>1, <1>2, <1>9, <3>1
  <2> HIDE DEF S
  <2>3. Nat \subseteq S
    BY <2>1, <2>2, AllNumbers
  <2> QED BY <1>1, <2>3 DEF S
<1>12. r(n) = Operations(c, h)
  BY <1>3
<1> HIDE DEF r
<1> DEFINE q == [k \in 0 .. n |-> r(k)]
<1>13. /\ q \in [0 .. n -> A] /\ q[0] = base /\ q[n] = r(n)
       /\ \A k \in 1 .. n : q[k] = next(q[k - 1], s[k])
  <2>1. \A k \in 1 .. n : k \in 0 .. n /\ k - 1 \in 0 .. n
    BY <1>1
  <2>2. 0 \in 0 .. n /\ n \in 0 .. n
    BY <1>1
  <2> HIDE DEF n
  <2> QED BY <1>9, <1>10, <2>1, <2>2
<1> HIDE DEF q
<1>14. OperationTrace(q, c, h)
  BY <1>12, <1>13 DEF A, base, next, OperationTrace
<1> QED BY <1>14

LEMMA OperationsBalanced ==
  ASSUME NEW c, Sound(c), NEW T, \A op \in T : IsOperation(op), NEW h, h.ops \in Seq(T)
  PROVE  Operations(c, h) \in MarkedFrom(c)
<1>1. PICK r : OperationTrace(r, c, h)
  BY OperationsTraced
<1>2. Len(h.ops) \in 0 .. Len(h.ops)
  OBVIOUS
<1>3. r[Len(h.ops)] \in MarkedFrom(c)
  BY <1>1, <1>2 DEF OperationTrace
<1> QED BY <1>1, <1>3 DEF OperationTrace

-----------------------------------------------------------------------------
(* Gaps in frame_num *)

Fills == [ctx : Context, drops : Seq(Nat), ok : BOOLEAN]

\* What the inferred pictures make of c.
FilledFrom(c) == {acc \in Fills : Balanced(c, acc.ctx, acc.drops)}

\* The picture numbers that are missing from the context alone.
LEMMA PrevBalanced ==
  ASSUME NEW c, NEW d, NEW drops, Balanced(c, d, drops), NEW prev \in Nat
  PROVE  Balanced(c, [d EXCEPT !.prev = prev], drops)
<1> DEFINE e == [d EXCEPT !.prev = prev]
<1>1. /\ e \in Context /\ e.short = d.short /\ e.long = d.long /\ e.nextId = d.nextId /\ e.strict = d.strict
  BY DEF Balanced, Sound, Context
<1> HIDE DEF e
<1>2. Sound(e) /\ Refs(e) = Refs(d)
  BY <1>1 DEF Balanced, Sound, IdsApart, Refs
<1>3. Balanced(c, e, drops)
  BY <1>1, <1>2 DEF Balanced
<1> QED BY <1>3 DEF e

LEMMA WithGhostBalanced ==
  ASSUME NEW c, NEW acc \in FilledFrom(c), NEW num \in Nat
  PROVE  WithGhost(acc, num) \in FilledFrom(c)
<1> DEFINE d == AddShort(acc.ctx, num, TRUE)
           e == Evict(d, num)
           f == [e.ctx EXCEPT !.prev = num]
           next == [acc EXCEPT !.ctx = f, !.drops = @ \o e.drops]
<1>1. WithGhost(acc, num) = next
  BY DEF WithGhost
<1>2. acc \in Fills /\ Balanced(c, acc.ctx, acc.drops) /\ Sound(acc.ctx)
  BY DEF FilledFrom, Balanced
<1>3. Sound(d) /\ Refs(d) = Refs(acc.ctx) /\ d.strict = acc.ctx.strict
  <2> DEFINE ghost == TRUE
  <2>1. ghost \in BOOLEAN /\ ghost
    OBVIOUS
  <2>2. d = AddShort(acc.ctx, num, ghost)
    OBVIOUS
  <2> HIDE DEF ghost, d
  <2>3. /\ Sound(AddShort(acc.ctx, num, ghost))
        /\ AddShort(acc.ctx, num, ghost).strict = acc.ctx.strict
        /\ Refs(AddShort(acc.ctx, num, ghost))
             = Refs(acc.ctx) \cup (IF ghost THEN {} ELSE {acc.ctx.nextId})
    BY <1>2, <2>1, ShortAdded
  <2> QED BY <2>1, <2>2, <2>3
<1> HIDE DEF d
<1>4. Balanced(d, e.ctx, e.drops)
  BY <1>3, EvictBalanced
<1> HIDE DEF e
<1>5. Balanced(acc.ctx, e.ctx, e.drops)
  BY <1>3, <1>4 DEF Balanced
<1>6. Balanced(c, e.ctx, acc.drops \o e.drops)
  BY <1>2, <1>5, MoreDropped
<1>7. Balanced(c, f, acc.drops \o e.drops)
  BY <1>6, PrevBalanced
<1> HIDE DEF f
<1>8. next \in Fills /\ next.ctx = f /\ next.drops = acc.drops \o e.drops
  BY <1>2, <1>7 DEF Fills, Balanced, Sound
<1> HIDE DEF next
<1> QED BY <1>1, <1>7, <1>8 DEF FilledFrom

\* One inferred picture after the other.
GhostTrace(r, c, s) ==
  /\ r \in [0 .. Len(s) -> FilledFrom(c)]
  /\ r[0] = [ctx |-> c, drops |-> <<>>, ok |-> TRUE]
  /\ r[Len(s)] = FoldLeft(WithGhost, [ctx |-> c, drops |-> <<>>, ok |-> TRUE], s)
  /\ \A k \in 1 .. Len(s) : r[k] = WithGhost(r[k - 1], s[k])

LEMMA GhostsTraced ==
  ASSUME NEW c, Sound(c), NEW s \in Seq(Nat)
  PROVE  \E r : GhostTrace(r, c, s)
<1> DEFINE n == Len(s)
           A == FilledFrom(c)
           base == [ctx |-> c, drops |-> <<>>, ok |-> TRUE]
           next(acc, num) == WithGhost(acc, num)
           F == [z \in A \X (1 .. n) |-> next(z[1], s[z[2]])]
           it[u \in SUBSET DOMAIN s] ==
             IF u = {} THEN base ELSE next(it[u \ {Max(u)}], s[Max(u)])
<1>1. n \in Nat /\ DOMAIN s = 1 .. n /\ \A k \in 1 .. n : s[k] \in Nat
  OBVIOUS
<1>2. \A acc \in A, num \in Nat : next(acc, num) \in A
  BY WithGhostBalanced
<1>3. FoldLeft(WithGhost, base, s) = it[1 .. n]
  BY <1>1 DEF FoldLeft, MapThenFoldSet
<1> HIDE DEF next, A
<1>4. base \in A
  <2>1. base \in Fills /\ base.ctx = c /\ base.drops = <<>>
    BY DEF Fills, Sound
  <2> HIDE DEF base
  <2> QED BY <2>1, NothingDropped DEF A, FilledFrom
<1> HIDE DEF base
<1>5. F \in [A \X (1 .. n) -> A]
  BY <1>1, <1>2
<1>6. PICK g : Folds(g, A, n, base, F)
  <2> HIDE DEF F, n
  <2> QED BY <1>1, <1>4, <1>5, FoldExists
<1>7. g = [u \in SUBSET DOMAIN s |-> IF u = {} THEN base ELSE next(g[u \ {Max(u)}], s[Max(u)])]
  <2>1. ASSUME NEW u \in SUBSET (1 .. n), u # {}
        PROVE  F[<<g[u \ {Max(u)}], Max(u)>>] = next(g[u \ {Max(u)}], s[Max(u)])
    <3>1. Max(u) \in 1 .. n /\ g[u \ {Max(u)}] \in A
      BY <1>1, <1>6, <2>1, MaxInSet DEF Folds
    <3> QED BY <3>1
  <2> QED BY <1>1, <1>6, <2>1 DEF Folds
<1>8. it = [u \in SUBSET DOMAIN s |-> IF u = {} THEN base ELSE next(it[u \ {Max(u)}], s[Max(u)])]
  BY <1>7
<1> HIDE DEF it, F
<1> DEFINE r(k) == it[1 .. k]
<1>9. r(0) = base /\ \A k \in 1 .. n : r(k) = next(r(k - 1), s[k])
  <2>1. 1 .. 0 = {} /\ {} \in SUBSET DOMAIN s
    OBVIOUS
  <2>2. ASSUME NEW k \in 1 .. n PROVE r(k) = next(r(k - 1), s[k])
    <3>1. 1 .. k \in SUBSET DOMAIN s /\ 1 .. k # {}
      BY <1>1, Prefix
    <3>2. Max(1 .. k) = k /\ (1 .. k) \ {Max(1 .. k)} = 1 .. k - 1
      BY <1>1, MaxOfInterval
    <3> QED BY <1>8, <3>1, <3>2
  <2> QED BY <1>8, <2>1, <2>2
<1>10. \A k \in 0 .. n : r(k) \in A
  <2> HIDE DEF r
  <2> DEFINE S == {k \in Nat : k <= n => r(k) \in A}
  <2>1. 0 \in S
    BY <1>4, <1>9
  <2>2. ASSUME NEW k \in Nat, k \in S PROVE k + 1 \in S
    <3> SUFFICES ASSUME k + 1 <= n PROVE r(k + 1) \in A
      OBVIOUS
    <3>1. r(k) \in A /\ k + 1 \in 1 .. n /\ k + 1 - 1 = k
      BY <1>1, <2>2
    <3> QED BY <1>1, <1>2, <1>9, <3>1
  <2> HIDE DEF S
  <2>3. Nat \subseteq S
    BY <2>1, <2>2, AllNumbers
  <2> QED BY <1>1, <2>3 DEF S
<1>12. r(n) = FoldLeft(WithGhost, base, s)
  BY <1>3
<1> HIDE DEF r
<1> DEFINE q == [k \in 0 .. n |-> r(k)]
<1>13. /\ q \in [0 .. n -> A] /\ q[0] = base /\ q[n] = r(n)
       /\ \A k \in 1 .. n : q[k] = next(q[k - 1], s[k])
  <2>1. \A k \in 1 .. n : k \in 0 .. n /\ k - 1 \in 0 .. n
    BY <1>1
  <2>2. 0 \in 0 .. n /\ n \in 0 .. n
    BY <1>1
  <2> HIDE DEF n
  <2> QED BY <1>9, <1>10, <2>1, <2>2
<1> HIDE DEF q
<1>14. GhostTrace(q, c, s)
  BY <1>12, <1>13 DEF A, base, next, GhostTrace
<1> QED BY <1>14

LEMMA GhostsBalanced ==
  ASSUME NEW c, Sound(c), NEW s \in Seq(Nat)
  PROVE  FoldLeft(WithGhost, [ctx |-> c, drops |-> <<>>, ok |-> TRUE], s) \in FilledFrom(c)
<1>1. PICK r : GhostTrace(r, c, s)
  BY GhostsTraced
<1>2. Len(s) \in 0 .. Len(s)
  OBVIOUS
<1>3. r[Len(s)] \in FilledFrom(c)
  BY <1>1, <1>2 DEF GhostTrace
<1> QED BY <1>1, <1>3 DEF GhostTrace

\* The inferred pictures of a gap, as many of them as the limit allows.
LEMMA FillGapBalanced ==
  ASSUME NEW c, Sound(c), NEW h, h.num \in Nat
  PROVE  /\ Balanced(c, FillGap(c, h).ctx, FillGap(c, h).drops)
         /\ FillGap(c, h).ok \in BOOLEAN
<1> DEFINE nums == MissingNums(c, h)
           k == (h.num - c.prev - 1) % MaxFrameNum
           cut == SubSeq(nums, 1, MaxGapSize)
           filled(s) == FoldLeft(WithGhost, [ctx |-> c, drops |-> <<>>, ok |-> TRUE], s)
<1>1. c.prev \in Nat /\ MaxFrameNum \in Nat /\ MaxFrameNum > 0 /\ MaxGapSize \in Nat
  BY ContextFields, StreamAssumption DEF Sound
<1>2. nums \in Seq(Nat)
  <2>1. k \in Nat
    BY <1>1
  <2>2. \A i \in 1 .. k : (c.prev + i) % MaxFrameNum \in Nat
    BY <1>1, <2>1
  <2> HIDE DEF k
  <2>3. [i \in 1 .. k |-> (c.prev + i) % MaxFrameNum] \in Seq(Nat) /\ <<>> \in Seq(Nat)
    BY <2>1, <2>2
  <2> QED BY <2>3 DEF MissingNums, k
<1> HIDE DEF nums, k
<1>3. Len(nums) > MaxGapSize => cut \in Seq(Nat)
  BY <1>1, <1>2
<1> HIDE DEF cut
<1>4. FillGap(c, h) = IF Len(nums) <= MaxGapSize THEN filled(nums)
                      ELSE [filled(cut) EXCEPT !.ok = FALSE]
  BY DEF FillGap, nums, cut
<1>5. \A s \in Seq(Nat) : filled(s) \in FilledFrom(c)
  BY GhostsBalanced
<1> HIDE DEF filled
<1>6. CASE Len(nums) <= MaxGapSize
  BY <1>2, <1>4, <1>5, <1>6 DEF FilledFrom, Fills
<1>7. CASE ~(Len(nums) <= MaxGapSize)
  <2>1. cut \in Seq(Nat)
    BY <1>1, <1>2, <1>3, <1>7
  <2>2. filled(cut) \in Fills /\ Balanced(c, filled(cut).ctx, filled(cut).drops)
    BY <1>5, <2>1 DEF FilledFrom
  <2>3. /\ FillGap(c, h).ctx = filled(cut).ctx /\ FillGap(c, h).drops = filled(cut).drops
        /\ FillGap(c, h).ok = FALSE
    BY <1>4, <1>7, <2>2 DEF Fills
  <2> QED BY <2>2, <2>3
<1> QED BY <1>6, <1>7

-----------------------------------------------------------------------------
(* Instructions and the set of decoded references *)

\* What the execution of an instruction does to the references that are decoded.
Effect(i, X, Y) ==
  /\ i.op = "Idr" => Y = {i.id}
  /\ i.op = "Decode" => i.id \notin X /\ Y = X \cup {i.id}
  /\ i.op = "Drop" => ToSet(i.ids) \subseteq X /\ Y = X \ ToSet(i.ids)

RefSets == SUBSET Nat

\* f has the references between the instructions, from K to L.
Trace(f, ins, K, L) ==
  /\ f \in [0 .. Len(ins) -> RefSets]
  /\ f[0] = K /\ f[Len(ins)] = L
  /\ \A k \in 1 .. Len(ins) : Effect(ins[k], f[k - 1], f[k])

Leads(ins, K, L) == \E f : Trace(f, ins, K, L)

LEMMA ConstantFunction ==
  ASSUME NEW P, NEW K \in P
  PROVE  [k \in 0 .. 0 |-> K] \in [0 .. 0 -> P] /\ [k \in 0 .. 0 |-> K][0] = K
OBVIOUS

LEMMA TwoValues ==
  ASSUME NEW P, NEW K \in P, NEW L \in P
  PROVE  \E f \in [0 .. 1 -> P] : f[0] = K /\ f[1] = L
<1> DEFINE f == [k \in 0 .. 1 |-> IF k = 0 THEN K ELSE L]
<1>1. f \in [0 .. 1 -> P] /\ f[0] = K /\ f[1] = L
  OBVIOUS
<1> HIDE DEF f
<1> QED BY <1>1

LEMMA OneElement ==
  ASSUME NEW i
  PROVE  Len(<<i>>) = 1 /\ <<i>>[1] = i
<1>1. Len(<<i>>) = 1
  OBVIOUS
<1>2. <<i>>[1] = i
  OBVIOUS
<1> QED BY <1>1, <1>2

LEMMA NothingLeads ==
  ASSUME NEW K \in RefSets
  PROVE  Leads(<<>>, K, K)
<1> DEFINE f == [k \in 0 .. 0 |-> K]
<1>1. f \in [0 .. 0 -> RefSets] /\ f[0] = K
  BY ConstantFunction
<1> HIDE DEF f
<1>2. Len(<<>>) = 0 /\ 1 .. 0 = {}
  OBVIOUS
<1>3. Trace(f, <<>>, K, K)
  BY <1>1, <1>2 DEF Trace
<1> QED BY <1>3 DEF Leads

LEMMA NothingLeadsBack ==
  ASSUME NEW K, NEW L, Leads(<<>>, K, L)
  PROVE  K = L
BY DEF Leads, Trace

LEMMA OneLeads ==
  ASSUME NEW i, NEW K \in RefSets, NEW L \in RefSets, Effect(i, K, L)
  PROVE  Leads(<<i>>, K, L)
<1>1. PICK f \in [0 .. 1 -> RefSets] : f[0] = K /\ f[1] = L
  BY TwoValues
<1>2. Len(<<i>>) = 1 /\ <<i>>[1] = i
  BY OneElement, Zenon
<1>3. \A k \in 1 .. 1 : Effect(<<i>>[k], f[k - 1], f[k])
  <2> SUFFICES Effect(<<i>>[1], f[1 - 1], f[1])
    OBVIOUS
  <2> QED BY <1>1, <1>2
<1>4. Trace(f, <<i>>, K, L)
  BY <1>1, <1>2, <1>3 DEF Trace
<1> QED BY <1>4 DEF Leads

LEMMA LeadsOn ==
  ASSUME NEW I, NEW a \in Seq(I), NEW b \in Seq(I), NEW K, NEW M, NEW L,
         Leads(a, K, M), Leads(b, M, L)
  PROVE  Leads(a \o b, K, L)
<1>1. PICK f : Trace(f, a, K, M)
  BY DEF Leads
<1>2. PICK g : Trace(g, b, M, L)
  BY DEF Leads
<1> DEFINE m == Len(a)
           n == Len(b)
           ab == a \o b
           h == [k \in 0 .. m + n |-> IF k <= m THEN f[k] ELSE g[k - m]]
<1>3. m \in Nat /\ n \in Nat
  OBVIOUS
<1>4. /\ Len(ab) = m + n
      /\ \A k \in 1 .. m : ab[k] = a[k]
      /\ \A k \in 1 .. n : ab[m + k] = b[k]
  OBVIOUS
<1>5. /\ f \in [0 .. m -> RefSets] /\ f[0] = K /\ f[m] = M
      /\ \A k \in 1 .. m : Effect(a[k], f[k - 1], f[k])
  BY <1>1 DEF Trace
<1>6. /\ g \in [0 .. n -> RefSets] /\ g[0] = M /\ g[n] = L
      /\ \A k \in 1 .. n : Effect(b[k], g[k - 1], g[k])
  BY <1>2 DEF Trace
<1> HIDE DEF m, n, ab
<1>7. \A k \in 0 .. m : h[k] = f[k]
  BY <1>3
<1>8. \A k \in 0 .. n : h[m + k] = g[k]
  <2> TAKE k \in 0 .. n
  <2>1. m + k \in 0 .. m + n /\ m + k - m = k
    BY <1>3
  <2>2. CASE k = 0
    BY <1>3, <1>5, <1>6, <2>1, <2>2
  <2>3. CASE k # 0
    <3>1. ~(m + k <= m)
      BY <1>3, <2>3
    <3>2. h[m + k] = g[k]
      <4> DEFINE x == m + k
      <4>1. x \in 0 .. m + n /\ ~(x <= m) /\ x - m = k
        BY <1>3, <2>1, <3>1
      <4> HIDE DEF x
      <4>2. h[x] = g[x - m]
        BY <4>1
      <4>3. h[x] = g[k]
        BY <4>1, <4>2
      <4> QED BY <4>3 DEF x
    <3> QED BY <3>2
  <2> QED BY <2>2, <2>3
<1>9. h \in [0 .. m + n -> RefSets]
  <2>1. ASSUME NEW k \in 0 .. m + n PROVE h[k] \in RefSets
    <3>1. CASE k <= m
      <4>1. k \in 0 .. m
        BY <1>3, <3>1
      <4>2. h[k] = f[k]
        BY <1>7, <4>1
      <4> QED BY <1>5, <4>1, <4>2
    <3>2. CASE ~(k <= m)
      <4>1. k - m \in 0 .. n
        BY <1>3, <3>2
      <4>2. h[k] = g[k - m]
        BY <3>2
      <4> QED BY <1>6, <4>1, <4>2
    <3> QED BY <3>1, <3>2
  <2> QED BY <2>1
<1> HIDE DEF h
<1>10. h[0] = K /\ h[m + n] = L
  <2>1. 0 \in 0 .. m /\ n \in 0 .. n
    BY <1>3
  <2> QED BY <1>5, <1>6, <1>7, <1>8, <2>1
<1>11. ASSUME NEW k \in 1 .. m + n PROVE Effect(ab[k], h[k - 1], h[k])
  <2>1. CASE k <= m
    <3>1. k \in 1 .. m /\ k \in 0 .. m /\ k - 1 \in 0 .. m
      BY <1>3, <2>1
    <3>2. ab[k] = a[k] /\ h[k - 1] = f[k - 1] /\ h[k] = f[k]
      BY <1>4, <1>7, <3>1
    <3> QED BY <1>5, <3>1, <3>2
  <2>2. CASE ~(k <= m)
    <3> DEFINE j == k - m
    <3>1. j \in 1 .. n /\ j \in 0 .. n /\ j - 1 \in 0 .. n /\ k = m + j /\ k - 1 = m + (j - 1)
      BY <1>3, <2>2
    <3> HIDE DEF j
    <3>2. ab[k] = b[j] /\ h[k - 1] = g[j - 1] /\ h[k] = g[j]
      BY <1>4, <1>8, <3>1
    <3> QED BY <1>6, <3>1, <3>2
  <2> QED BY <2>1, <2>2
<1>12. Trace(h, ab, K, L)
  BY <1>4, <1>9, <1>10, <1>11 DEF Trace
<1> QED BY <1>12 DEF Leads, ab

LEMMA LeadsFirst ==
  ASSUME NEW I, NEW s \in Seq(I), s # <<>>, NEW K, NEW L, Leads(s, K, L)
  PROVE  \E M \in RefSets : Effect(Head(s), K, M) /\ Leads(Tail(s), M, L)
<1>1. PICK f : Trace(f, s, K, L)
  BY DEF Leads
<1> DEFINE n == Len(s)
           t == Tail(s)
           g == [k \in 0 .. n - 1 |-> f[k + 1]]
<1>2. n \in Nat /\ n >= 1 /\ Head(s) = s[1] /\ Len(t) = n - 1 /\ \A k \in 1 .. n - 1 : t[k] = s[k + 1]
  OBVIOUS
<1>3. /\ f \in [0 .. n -> RefSets] /\ f[0] = K /\ f[n] = L
      /\ \A k \in 1 .. n : Effect(s[k], f[k - 1], f[k])
  BY <1>1 DEF Trace
<1> HIDE DEF n, t
<1>4. Effect(Head(s), K, f[1]) /\ f[1] \in RefSets
  <2>1. 1 \in 1 .. n /\ 1 \in 0 .. n /\ 1 - 1 = 0
    BY <1>2
  <2>2. Effect(s[1], f[1 - 1], f[1])
    BY <1>3, <2>1
  <2> QED BY <1>2, <1>3, <2>1, <2>2
<1>5. \A k \in 0 .. n - 1 : k + 1 \in 0 .. n /\ g[k] = f[k + 1]
  BY <1>2
<1>6. g \in [0 .. n - 1 -> RefSets]
  BY <1>3, <1>5
<1> HIDE DEF g
<1>7. g[0] = f[1] /\ g[n - 1] = L
  <2>1. 0 \in 0 .. n - 1 /\ n - 1 \in 0 .. n - 1 /\ n - 1 + 1 = n /\ 0 + 1 = 1
    BY <1>2
  <2>2. g[0] = f[0 + 1] /\ g[n - 1] = f[n - 1 + 1]
    BY <1>5, <2>1
  <2> QED BY <1>3, <2>1, <2>2
<1>8. ASSUME NEW k \in 1 .. n - 1 PROVE Effect(t[k], g[k - 1], g[k])
  <2>1. k + 1 \in 1 .. n /\ k \in 0 .. n - 1 /\ k - 1 \in 0 .. n - 1 /\ k - 1 + 1 = k /\ k + 1 - 1 = k
    BY <1>2
  <2>2. Effect(s[k + 1], f[k + 1 - 1], f[k + 1])
    BY <1>3, <2>1
  <2>3. g[k - 1] = f[k] /\ g[k] = f[k + 1] /\ t[k] = s[k + 1]
    BY <1>2, <1>5, <2>1
  <2> QED BY <2>1, <2>2, <2>3
<1>9. Trace(g, t, f[1], L)
  BY <1>2, <1>6, <1>7, <1>8 DEF Trace
<1>10. Leads(t, f[1], L)
  BY <1>9 DEF Leads
<1> QED BY <1>4, <1>10 DEF t

-----------------------------------------------------------------------------
(* A picture compiles to instructions that lead to the references after it *)

\* What the parser makes of a slice header.
IsHeader(h) ==
  /\ h.num \in Nat /\ h.idr \in BOOLEAN
  /\ h.marking \in {"idr", "sliding", "adaptive", "none"}
  /\ h.idr <=> h.marking = "idr"
  /\ h.ops \in Seq(ToSet(h.ops)) /\ \A op \in ToSet(h.ops) : IsOperation(op)

RefLists(H) == {References(c, h).ids : c \in Context, h \in H}

Instructions(H) ==
  [op : {"Decode"}, id : Nat, refs : RefLists(H), of : H]
    \cup [op : {"Idr"}, id : Nat, refs : {<<>>}, of : H]
    \cup [op : {"Drop"}, ids : Seq(Nat), of : H]

Outcomes(H) == [ctx : Context, instructions : Seq(Instructions(H)), ok : BOOLEAN]

\* What is made of c by pictures in H: instructions that lead from its references to the new ones.
CompiledFrom(c, H) ==
  {r \in Outcomes(H) :
     /\ Sound(r.ctx) /\ r.ctx.strict = c.strict
     /\ r.ok => Leads(r.instructions, Refs(c), Refs(r.ctx))
     /\ ~r.ok => r.instructions = <<>>}

LEMMA RefsAreNumbers ==
  ASSUME NEW c, Sound(c)
  PROVE  Refs(c) \in RefSets /\ c.nextId \in Nat /\ c.nextId \notin Refs(c)
<1>1. /\ \A i \in DOMAIN c.short : c.short[i].id \in Nat /\ c.short[i].id < c.nextId
      /\ \A i \in DOMAIN c.long : c.long[i].id \in Nat /\ c.long[i].id < c.nextId
      /\ c.nextId \in Nat
  BY ContextFields DEF Sound, IdsApart
<1>2. \A x \in Refs(c) : x \in Nat /\ x < c.nextId
  BY <1>1, RefsMembers
<1> QED BY <1>1, <1>2 DEF RefSets

LEMMA FailedCompiles ==
  ASSUME NEW c, NEW H, NEW d, Sound(d), d.strict = c.strict
  PROVE  Failed(d) \in CompiledFrom(c, H)
<1>1. <<>> \in Seq(Instructions(H))
  OBVIOUS
<1> QED BY <1>1 DEF Failed, CompiledFrom, Outcomes, Sound

LEMMA AcceptedCompiles ==
  ASSUME NEW c, NEW H, NEW d, Sound(d), d.strict = c.strict, NEW ins \in Seq(Instructions(H)),
         Leads(ins, Refs(c), Refs(d))
  PROVE  Accepted(d, ins) \in CompiledFrom(c, H)
BY DEF Accepted, CompiledFrom, Outcomes, Sound

LEMMA DropLeads ==
  ASSUME NEW H, NEW h \in H, NEW drops \in Seq(Nat), NEW K \in RefSets, ToSet(drops) \subseteq K
  PROVE  /\ DropAll(h, drops) \in Seq(Instructions(H))
         /\ Leads(DropAll(h, drops), K, K \ ToSet(drops))
<1>1. CASE drops = <<>>
  <2>1. ToSet(drops) = {} /\ DropAll(h, drops) = <<>> /\ <<>> \in Seq(Instructions(H))
    BY <1>1 DEF ToSet, DropAll
  <2> QED BY <2>1, NothingLeads
<1>2. CASE drops # <<>>
  <2> DEFINE i == Drop(h, drops)
  <2>1. DropAll(h, drops) = <<i>>
    BY <1>2 DEF DropAll
  <2>2. i \in Instructions(H) /\ i.op = "Drop" /\ i.ids = drops
    BY DEF Drop, Instructions
  <2> HIDE DEF i
  <2>3. <<i>> \in Seq(Instructions(H))
    BY <2>2
  <2>4. Effect(i, K, K \ ToSet(drops)) /\ K \ ToSet(drops) \in RefSets
    BY <2>2 DEF Effect, RefSets
  <2>5. Leads(<<i>>, K, K \ ToSet(drops))
    BY <2>4, OneLeads
  <2> QED BY <2>1, <2>3, <2>5
<1> QED BY <1>1, <1>2

\* A picture that is decoded into a new reference, before what it replaces is dropped.
LEMMA DecodeLeads ==
  ASSUME NEW H, NEW h \in H, NEW c, Sound(c), NEW refs \in RefLists(H),
         NEW drops \in Seq(Nat), ToSet(drops) \subseteq Refs(c) \cup {c.nextId},
         NEW d, Sound(d), d.strict = c.strict, Refs(d) = (Refs(c) \cup {c.nextId}) \ ToSet(drops)
  PROVE  DecodedAs(c.nextId, h, refs, d, drops) \in CompiledFrom(c, H)
<1> DEFINE i == Decode(h, c.nextId, refs)
           K == Refs(c)
           M == Refs(c) \cup {c.nextId}
<1>1. K \in RefSets /\ c.nextId \in Nat /\ c.nextId \notin K /\ M \in RefSets
  BY RefsAreNumbers DEF RefSets
<1>2. i \in Instructions(H) /\ i.op = "Decode" /\ i.id = c.nextId
  BY <1>1 DEF Decode, Instructions
<1>3. DecodedAs(c.nextId, h, refs, d, drops) = Accepted(d, <<i>> \o DropAll(h, drops))
  BY DEF DecodedAs
<1> HIDE DEF i
<1>4. Effect(i, K, M)
  BY <1>1, <1>2 DEF Effect
<1> HIDE DEF K, M
<1>5. <<i>> \in Seq(Instructions(H)) /\ Leads(<<i>>, K, M)
  BY <1>1, <1>2, <1>4, OneLeads
<1>6. DropAll(h, drops) \in Seq(Instructions(H)) /\ Leads(DropAll(h, drops), M, Refs(d))
  <2>1. ToSet(drops) \subseteq M /\ Refs(d) = M \ ToSet(drops)
    BY DEF M
  <2>2. /\ DropAll(h, drops) \in Seq(Instructions(H))
        /\ Leads(DropAll(h, drops), M, M \ ToSet(drops))
    BY <1>1, <2>1, DropLeads
  <2> QED BY <2>1, <2>2
<1> DEFINE ins == <<i>> \o DropAll(h, drops)
<1>7. ins \in Seq(Instructions(H))
  BY <1>5, <1>6
<1>8. Leads(ins, K, Refs(d))
  BY <1>5, <1>6, LeadsOn
<1> HIDE DEF ins
<1>9. Accepted(d, ins) \in CompiledFrom(c, H)
  BY <1>7, <1>8, AcceptedCompiles DEF K
<1> QED BY <1>3, <1>9 DEF ins

LEMMA PictureAddedShort ==
  ASSUME NEW c, Sound(c), NEW num \in Nat
  PROVE  LET d == AddShort(c, num, FALSE)
         IN  Sound(d) /\ Refs(d) = Refs(c) \cup {c.nextId} /\ d.strict = c.strict
<1> DEFINE ghost == FALSE
           d == AddShort(c, num, ghost)
<1>1. ghost \in BOOLEAN /\ ~ghost /\ d = AddShort(c, num, FALSE)
  OBVIOUS
<1> HIDE DEF ghost
<1>2. /\ Sound(AddShort(c, num, ghost)) /\ AddShort(c, num, ghost).strict = c.strict
      /\ Refs(AddShort(c, num, ghost)) = Refs(c) \cup (IF ghost THEN {} ELSE {c.nextId})
  BY <1>1, ShortAdded
<1> HIDE DEF d
<1> QED BY <1>1, <1>2 DEF d

LEMMA PictureAddedLong ==
  ASSUME NEW c, Sound(c), NEW num \in Nat, NEW idx \in Int
  PROVE  LET d == AddLong(c, num, idx)
         IN  Sound(d) /\ Refs(d) = Refs(c) \cup {c.nextId} /\ d.strict = c.strict
<1> DEFINE p == [id |-> c.nextId, num |-> num, idx |-> idx]
           d == [c EXCEPT !.long = Append(@, p), !.nextId = @ + 1]
<1>1. /\ c \in Context /\ c.long \in Seq(LongRef) /\ c.nextId \in Nat /\ c.nextId + 1 \in Nat
      /\ c.nextId < c.nextId + 1 /\ c.nextId <= c.nextId + 1
  BY ContextFields DEF Sound
<1>2. p \in LongRef /\ p.id = c.nextId
  BY <1>1 DEF LongRef
<1>3. AddLong(c, num, idx) = d
  BY DEF AddLong
<1> HIDE DEF p
<1>4. Append(c.long, p) \in Seq(LongRef)
  BY <1>1, <1>2
<1>5. /\ d \in Context /\ d.short = c.short /\ d.long = Append(c.long, p) /\ d.nextId = c.nextId + 1
      /\ d.strict = c.strict
  BY <1>1, <1>4 DEF Context
<1>6. /\ \A i \in DOMAIN c.short : c.short[i].id # p.id
      /\ \A i \in DOMAIN c.long : c.long[i].id # p.id
  <2>1. /\ \A i \in DOMAIN c.short : c.short[i].id \in Nat /\ c.short[i].id < c.nextId
        /\ \A i \in DOMAIN c.long : c.long[i].id \in Nat /\ c.long[i].id < c.nextId
    BY <1>1, ContextFields DEF Sound, IdsApart
  <2> QED BY <1>1, <1>2, <2>1
<1> HIDE DEF d
<1>7. Sound(d) /\ Refs(d) = Refs(c) \cup {p.id}
  <2>1. c.nextId <= d.nextId /\ p.id < d.nextId
    BY <1>1, <1>2, <1>5
  <2> QED BY <1>2, <1>5, <1>6, <2>1, LongAdded
<1> QED BY <1>2, <1>3, <1>5, <1>7

\* What is not about references is free.
LEMMA SameReferences ==
  ASSUME NEW c, Sound(c), NEW d \in Context, d.short = c.short, d.long = c.long,
         c.nextId <= d.nextId
  PROVE  Sound(d) /\ Refs(d) = Refs(c)
<1>1. /\ \A i \in DOMAIN c.short : c.short[i].id \in Nat /\ c.short[i].id < c.nextId
      /\ \A i \in DOMAIN c.long : c.long[i].id \in Nat /\ c.long[i].id < c.nextId
      /\ c.nextId \in Nat /\ d.nextId \in Nat
  BY ContextFields DEF Sound, IdsApart
<1>2. /\ \A i \in DOMAIN d.short : d.short[i].id < d.nextId
      /\ \A i \in DOMAIN d.long : d.long[i].id < d.nextId
  BY <1>1
<1>3. IdsApart(d)
  BY <1>2 DEF Sound, IdsApart
<1> QED BY <1>3 DEF Sound, Refs

LEMMA FreshIsSound ==
  ASSUME NEW strict \in BOOLEAN
  PROVE  /\ Sound(FreshContext(strict)) /\ Refs(FreshContext(strict)) = {}
         /\ FreshContext(strict).nextId = 0 /\ FreshContext(strict).strict = strict
<1> DEFINE c == FreshContext(strict)
<1>1. <<>> \in Seq(ShortRef) /\ <<>> \in Seq(LongRef) /\ NoIdx \in Int
  BY DEF NoIdx
<1>2. c \in Context /\ c.short = <<>> /\ c.long = <<>> /\ c.nextId = 0 /\ c.strict = strict
  BY <1>1 DEF FreshContext, Context
<1> HIDE DEF c
<1>3. DOMAIN c.short = {} /\ DOMAIN c.long = {}
  BY <1>2
<1>4. Sound(c) /\ Refs(c) = {}
  BY <1>2, <1>3, RefsMembers DEF Sound, IdsApart
<1> QED BY <1>2, <1>4 DEF c

LEMMA IdrCompiles ==
  ASSUME NEW H, NEW h \in H, IsHeader(h), NEW c, Sound(c)
  PROVE  MarkIdr(c, h) \in CompiledFrom(c, H)
<1> DEFINE fresh == FreshContext(c.strict)
           a == AddLong(fresh, h.num, 0)
           d == IF h.longTerm THEN [a EXCEPT !.maxIdx = 0] ELSE AddShort(fresh, h.num, FALSE)
           i == Idr(h, 0)
<1>1. Sound(fresh) /\ Refs(fresh) = {} /\ fresh.nextId = 0 /\ fresh.strict = c.strict
  BY FreshIsSound DEF Sound, Context
<1>2. MarkIdr(c, h) = Accepted(d, <<i>>)
  BY DEF MarkIdr
<1> HIDE DEF fresh
<1>3. Sound(d) /\ Refs(d) = {0} /\ d.strict = c.strict
  <2>1. h.num \in Nat /\ 0 \in Int
    BY DEF IsHeader
  <2>2. CASE ~h.longTerm
    <3>1. /\ Sound(AddShort(fresh, h.num, FALSE))
          /\ AddShort(fresh, h.num, FALSE).strict = fresh.strict
          /\ Refs(AddShort(fresh, h.num, FALSE)) = Refs(fresh) \cup {fresh.nextId}
      BY <1>1, <2>1, PictureAddedShort
    <3> QED BY <1>1, <2>2, <3>1
  <2>3. CASE h.longTerm
    <3>1. Sound(a) /\ Refs(a) = Refs(fresh) \cup {fresh.nextId} /\ a.strict = fresh.strict
      BY <1>1, <2>1, PictureAddedLong
    <3> HIDE DEF a
    <3> DEFINE b == [a EXCEPT !.maxIdx = 0]
    <3>2. /\ b \in Context /\ b.short = a.short /\ b.long = a.long /\ b.nextId = a.nextId
          /\ b.strict = a.strict
      <4>1. a \in Context
        BY <3>1 DEF Sound
      <4> HIDE DEF d
      <4> QED BY <4>1 DEF Context
    <3>3. a.nextId \in Nat
      BY <3>1, ContextFields DEF Sound
    <3>4. d = b
      BY <2>3
    <3> HIDE DEF b, d
    <3>5. a.nextId <= b.nextId
      BY <3>2, <3>3
    <3> QED BY <1>1, <3>1, <3>2, <3>4, <3>5, SameReferences
  <2> QED BY <2>2, <2>3
<1>4. i \in Instructions(H) /\ i.op = "Idr" /\ i.id = 0
  BY DEF Idr, Instructions
<1> HIDE DEF i, d
<1>5. Effect(i, Refs(c), {0}) /\ {0} \in RefSets
  BY <1>4 DEF Effect, RefSets
<1>6. <<i>> \in Seq(Instructions(H)) /\ Leads(<<i>>, Refs(c), Refs(d))
  BY <1>3, <1>4, <1>5, RefsAreNumbers, OneLeads
<1> QED BY <1>2, <1>3, <1>6, AcceptedCompiles

LEMMA SlidingWindowCompiles ==
  ASSUME NEW H, NEW h \in H, IsHeader(h), NEW c, Sound(c), NEW refs \in RefLists(H)
  PROVE  MarkSlidingWindow(c, h, refs) \in CompiledFrom(c, H)
<1> DEFINE a == AddShort(c, h.num, FALSE)
           e == Evict(a, h.num)
<1>1. h.num \in Nat
  BY DEF IsHeader
<1>2. MarkSlidingWindow(c, h, refs) = DecodedAs(c.nextId, h, refs, e.ctx, e.drops)
  BY DEF MarkSlidingWindow
<1>3. Sound(a) /\ Refs(a) = Refs(c) \cup {c.nextId} /\ a.strict = c.strict
  BY <1>1, PictureAddedShort
<1> HIDE DEF a
<1>4. Balanced(a, e.ctx, e.drops)
  BY <1>1, <1>3, EvictBalanced
<1> HIDE DEF e
<1>5. /\ Sound(e.ctx) /\ e.ctx.strict = c.strict /\ e.drops \in Seq(Nat) /\ ToSet(e.drops) \subseteq Refs(c) \cup {c.nextId}
      /\ Refs(e.ctx) = (Refs(c) \cup {c.nextId}) \ ToSet(e.drops)
  BY <1>3, <1>4 DEF Balanced
<1> QED BY <1>2, <1>5, DecodeLeads

LEMMA AdaptiveCompiles ==
  ASSUME NEW H, NEW h \in H, IsHeader(h), NEW c, Sound(c), NEW refs \in RefLists(H)
  PROVE  MarkAdaptive(c, h, refs) \in CompiledFrom(c, H)
<1> DEFINE done == Operations(c, h)
           next == IF done.idx = NoIdx THEN AddShort(done.ctx, h.num, FALSE)
                   ELSE AddLong(done.ctx, h.num, done.idx)
<1>1. MarkAdaptive(c, h, refs) =
        IF ~done.ok THEN Failed(done.ctx)
        ELSE IF next.maxIdx # NoIdx /\ Len(next.long) > next.maxIdx + 1 THEN Failed(next)
        ELSE DecodedAs(c.nextId, h, refs, next, done.drops)
  BY DEF MarkAdaptive
<1>2. done \in MarkedFrom(c)
  BY OperationsBalanced DEF IsHeader
<1> HIDE DEF done
<1>3. Sound(done.ctx) /\ Balanced(c, done.ctx, done.drops) /\ done.ctx.nextId = c.nextId /\ done.idx \in Int
  BY <1>2, MarksFields
<1>4. Sound(next) /\ Refs(next) = Refs(done.ctx) \cup {c.nextId} /\ next.strict = c.strict
  <2>1. h.num \in Nat
    BY DEF IsHeader
  <2>2. /\ Sound(AddShort(done.ctx, h.num, FALSE))
        /\ AddShort(done.ctx, h.num, FALSE).strict = done.ctx.strict
        /\ Refs(AddShort(done.ctx, h.num, FALSE)) = Refs(done.ctx) \cup {done.ctx.nextId}
    BY <1>3, <2>1, PictureAddedShort
  <2>3. /\ Sound(AddLong(done.ctx, h.num, done.idx))
        /\ AddLong(done.ctx, h.num, done.idx).strict = done.ctx.strict
        /\ Refs(AddLong(done.ctx, h.num, done.idx)) = Refs(done.ctx) \cup {done.ctx.nextId}
    BY <1>3, <2>1, PictureAddedLong
  <2>4. done.ctx.strict = c.strict
    BY <1>3 DEF Balanced
  <2> QED BY <1>3, <2>2, <2>3, <2>4
<1> HIDE DEF next
<1>5. /\ done.drops \in Seq(Nat) /\ ToSet(done.drops) \subseteq Refs(c) \cup {c.nextId}
      /\ Refs(next) = (Refs(c) \cup {c.nextId}) \ ToSet(done.drops)
  BY <1>3, <1>4, RefsAreNumbers DEF Balanced
<1>6. DecodedAs(c.nextId, h, refs, next, done.drops) \in CompiledFrom(c, H)
  BY <1>4, <1>5, DecodeLeads
<1>7. Failed(done.ctx) \in CompiledFrom(c, H) /\ Failed(next) \in CompiledFrom(c, H)
  BY <1>3, <1>4, FailedCompiles DEF Balanced
<1> QED BY <1>1, <1>6, <1>7

LEMMA NonReferenceCompiles ==
  ASSUME NEW H, NEW h \in H, NEW c, Sound(c), NEW refs \in RefLists(H)
  PROVE  MarkNonReference(c, h, refs) \in CompiledFrom(c, H)
<1> DEFINE d == [c EXCEPT !.nextId = @ + 1]
           i == Decode(h, c.nextId, refs)
           j == Drop(h, <<c.nextId>>)
           M == Refs(c) \cup {c.nextId}
<1>1. MarkNonReference(c, h, refs) = Accepted(d, <<i, j>>)
  BY DEF MarkNonReference
<1>2. Refs(c) \in RefSets /\ c.nextId \in Nat /\ c.nextId \notin Refs(c) /\ M \in RefSets
  BY RefsAreNumbers DEF RefSets
<1>3. Sound(d) /\ Refs(d) = Refs(c) /\ d.strict = c.strict
  <2>1. c.nextId + 1 \in Nat /\ c.nextId <= c.nextId + 1
    BY <1>2
  <2>2. /\ d \in Context /\ d.short = c.short /\ d.long = c.long /\ d.nextId = c.nextId + 1
        /\ d.strict = c.strict
    BY <2>1 DEF Sound, Context
  <2> HIDE DEF d
  <2> QED BY <2>1, <2>2, SameReferences
<1>4. i \in Instructions(H) /\ i.op = "Decode" /\ i.id = c.nextId
  BY <1>2 DEF Decode, Instructions
<1>5. /\ j \in Instructions(H) /\ j.op = "Drop" /\ ToSet(j.ids) = {c.nextId}
  BY <1>2 DEF Drop, Instructions, ToSet
<1>6. <<i, j>> = <<i>> \o <<j>>
  OBVIOUS
<1> HIDE DEF d, i, j
<1>7. Effect(i, Refs(c), M)
  BY <1>2, <1>4 DEF Effect
<1>8. Effect(j, M, Refs(c))
  BY <1>2, <1>5 DEF Effect
<1> HIDE DEF M
<1>9. /\ <<i>> \in Seq(Instructions(H)) /\ <<j>> \in Seq(Instructions(H))
      /\ Leads(<<i>>, Refs(c), M) /\ Leads(<<j>>, M, Refs(c))
  BY <1>2, <1>4, <1>5, <1>7, <1>8, OneLeads
<1>10. <<i>> \o <<j>> \in Seq(Instructions(H)) /\ Leads(<<i>> \o <<j>>, Refs(c), Refs(d))
  <2>1. Leads(<<i>> \o <<j>>, Refs(c), Refs(c))
    BY <1>9, LeadsOn
  <2> QED BY <1>3, <1>9, <2>1
<1>11. Accepted(d, <<i>> \o <<j>>) \in CompiledFrom(c, H)
  <2> DEFINE ins == <<i>> \o <<j>>
  <2> HIDE DEF ins
  <2>1. ins \in Seq(Instructions(H)) /\ Leads(ins, Refs(c), Refs(d))
    BY <1>10 DEF ins
  <2>2. Accepted(d, ins) \in CompiledFrom(c, H)
    BY <1>3, <2>1, AcceptedCompiles
  <2> QED BY <2>2 DEF ins
<1> QED BY <1>1, <1>6, <1>11

LEMMA MarkCompiles ==
  ASSUME NEW H, NEW h \in H, IsHeader(h), NEW c, Sound(c), NEW refs \in RefLists(H)
  PROVE  Mark(c, h, refs) \in CompiledFrom(c, H)
<1>1. CASE h.marking = "idr"
  <2>1. Mark(c, h, refs) = MarkIdr(c, h)
    BY <1>1 DEF Mark, IsHeader
  <2> QED BY <2>1, IdrCompiles
<1>2. CASE h.marking = "sliding"
  <2>1. Mark(c, h, refs) = MarkSlidingWindow(c, h, refs)
    BY <1>2 DEF Mark, IsHeader
  <2> QED BY <2>1, SlidingWindowCompiles
<1>3. CASE h.marking = "adaptive"
  <2>1. Mark(c, h, refs) = MarkAdaptive(c, h, refs)
    BY <1>3 DEF Mark, IsHeader
  <2> QED BY <2>1, AdaptiveCompiles
<1>4. CASE h.marking = "none"
  <2>1. Mark(c, h, refs) = MarkNonReference(c, h, refs)
    BY <1>4 DEF Mark, IsHeader
  <2> QED BY <2>1, NonReferenceCompiles
<1> QED BY <1>1, <1>2, <1>3, <1>4 DEF IsHeader

LEMMA CompiledFields ==
  ASSUME NEW c, NEW H, NEW r \in CompiledFrom(c, H)
  PROVE  /\ r \in Outcomes(H) /\ Sound(r.ctx) /\ r.ctx \in Context /\ r.ctx.strict = c.strict
         /\ r.instructions \in Seq(Instructions(H)) /\ r.ok \in BOOLEAN
         /\ r.ok => Leads(r.instructions, Refs(c), Refs(r.ctx))
         /\ ~r.ok => r.instructions = <<>>
BY DEF CompiledFrom, Outcomes

\* What the gap has replaced is dropped before the picture is decoded.
LEMMA AfterGapCompiles ==
  ASSUME NEW H, NEW h \in H, IsHeader(h), NEW c, Sound(c), NEW d, NEW drops, Balanced(c, d, drops),
         NEW r \in CompiledFrom(d, H)
  PROVE  AfterGap(h, drops, r) \in CompiledFrom(c, H)
<1>1. CASE ~r.ok
  <2>1. AfterGap(h, drops, r) = r
    BY <1>1 DEF AfterGap
  <2> QED BY <1>1, <2>1 DEF CompiledFrom, Balanced
<1>2. CASE r.ok
  <2> DEFINE ins == DropAll(h, drops) \o r.instructions
             prev == IF h.marking = "none" THEN r.ctx.prev ELSE h.num
             e == [r.ctx EXCEPT !.prev = prev]
             next == [r EXCEPT !.instructions = ins, !.ctx = e]
  <2>1. /\ r \in Outcomes(H) /\ Sound(r.ctx) /\ r.ctx.strict = d.strict
        /\ Leads(r.instructions, Refs(d), Refs(r.ctx))
    BY <1>2, CompiledFields
  <2>2. AfterGap(h, drops, r) = next
    BY <1>2, <2>1 DEF AfterGap, Outcomes, Context
  <2>3. /\ DropAll(h, drops) \in Seq(Instructions(H))
        /\ Leads(DropAll(h, drops), Refs(c), Refs(d))
    <3>1. Refs(c) \in RefSets /\ Refs(d) = Refs(c) \ ToSet(drops)
      BY RefsAreNumbers DEF Balanced
    <3>2. drops \in Seq(Nat) /\ ToSet(drops) \subseteq Refs(c)
      BY DEF Balanced
    <3> QED BY <3>1, <3>2, DropLeads
  <2>4. r.instructions \in Seq(Instructions(H))
    BY CompiledFields
  <2>5. ins \in Seq(Instructions(H)) /\ Leads(ins, Refs(c), Refs(r.ctx))
    <3>1. Leads(ins, Refs(c), Refs(r.ctx))
      BY <2>1, <2>3, <2>4, LeadsOn
    <3> QED BY <2>3, <2>4, <3>1
  <2> HIDE DEF ins
  <2>6. prev \in Nat
    BY <2>1, ContextFields DEF IsHeader, Sound
  <2> HIDE DEF prev
  <2>7. r.ctx \in Context /\ r.ctx.nextId \in Nat
    BY <2>1, ContextFields DEF Sound
  <2>8. /\ e \in Context /\ e.short = r.ctx.short /\ e.long = r.ctx.long /\ e.nextId = r.ctx.nextId
        /\ e.strict = r.ctx.strict
    BY <2>6, <2>7 DEF Context
  <2> HIDE DEF e
  <2>9. Sound(e) /\ Refs(e) = Refs(r.ctx)
    <3>1. r.ctx.nextId <= e.nextId
      BY <2>7, <2>8
    <3> QED BY <2>1, <2>8, <3>1, SameReferences
  <2>10. next \in Outcomes(H) /\ next.ctx = e /\ next.instructions = ins /\ next.ok
    BY <1>2, <2>1, <2>5, <2>8 DEF Outcomes
  <2> HIDE DEF next
  <2>11. next \in CompiledFrom(c, H)
    BY <2>1, <2>5, <2>8, <2>9, <2>10 DEF CompiledFrom, Balanced
  <2> QED BY <2>2, <2>11
<1> QED BY <1>1, <1>2

\* A picture: accepted with instructions for the difference, or refused with none.
LEMMA PutPictureCompiles ==
  ASSUME NEW H, NEW h \in H, IsHeader(h), NEW c, Sound(c)
  PROVE  PutPicture(c, h) \in CompiledFrom(c, H)
<1> DEFINE gap == FillGap(c, h)
           refs == References(gap.ctx, h)
           corrupted == [c EXCEPT !.corrupted = TRUE]
           marked == Mark(gap.ctx, h, refs.ids)
<1>1. PutPicture(c, h) =
        IF Refused(c, h) THEN Failed(corrupted)
        ELSE IF gap.ok /\ refs.ok THEN AfterGap(h, gap.drops, marked)
        ELSE Failed(gap.ctx)
  BY DEF PutPicture
<1>2. Balanced(c, gap.ctx, gap.drops) /\ Sound(gap.ctx) /\ gap.ctx \in Context
  BY FillGapBalanced DEF IsHeader, Balanced, Sound
<1> HIDE DEF gap
<1>3. refs.ids \in RefLists(H)
  BY <1>2 DEF RefLists
<1> HIDE DEF refs
<1>4. marked \in CompiledFrom(gap.ctx, H)
  BY <1>2, <1>3, MarkCompiles
<1> HIDE DEF marked
<1>5. AfterGap(h, gap.drops, marked) \in CompiledFrom(c, H)
  BY <1>2, <1>4, AfterGapCompiles
<1>6. Failed(gap.ctx) \in CompiledFrom(c, H)
  BY <1>2, FailedCompiles DEF Balanced
<1>7. Failed(corrupted) \in CompiledFrom(c, H)
  <2>1. c \in Context /\ c.nextId \in Nat
    BY ContextFields DEF Sound
  <2>2. /\ corrupted \in Context /\ corrupted.short = c.short /\ corrupted.long = c.long
        /\ corrupted.nextId = c.nextId /\ corrupted.strict = c.strict
    BY <2>1 DEF Context
  <2> HIDE DEF corrupted
  <2>3. c.nextId <= corrupted.nextId
    BY <2>1, <2>2
  <2> QED BY <2>2, <2>3, SameReferences, FailedCompiles
<1> QED BY <1>1, <1>5, <1>6, <1>7

\* The next picture of an event.
Joined(acc, r) == IF r.ok THEN [r EXCEPT !.instructions = acc.instructions \o @] ELSE r

LEMMA JoinedCompiles ==
  ASSUME NEW H, NEW c, NEW acc \in CompiledFrom(c, H), acc.ok,
         NEW r \in CompiledFrom(acc.ctx, H)
  PROVE  Joined(acc, r) \in CompiledFrom(c, H)
<1>1. CASE ~r.ok
  BY <1>1 DEF Joined, CompiledFrom
<1>2. CASE r.ok
  <2> DEFINE ins == acc.instructions \o r.instructions
             next == [r EXCEPT !.instructions = ins]
  <2>1. /\ r \in Outcomes(H) /\ Sound(r.ctx) /\ Leads(r.instructions, Refs(acc.ctx), Refs(r.ctx))
        /\ r.instructions \in Seq(Instructions(H))
    BY <1>2, CompiledFields
  <2>2. /\ acc.instructions \in Seq(Instructions(H))
        /\ Leads(acc.instructions, Refs(c), Refs(acc.ctx))
    BY CompiledFields
  <2>3. ins \in Seq(Instructions(H)) /\ Leads(ins, Refs(c), Refs(r.ctx))
    <3>1. Leads(ins, Refs(c), Refs(r.ctx))
      BY <2>1, <2>2, LeadsOn
    <3> QED BY <2>1, <2>2, <3>1
  <2> HIDE DEF ins
  <2>4. next \in Outcomes(H) /\ next.ctx = r.ctx /\ next.instructions = ins /\ next.ok
    BY <1>2, <2>1, <2>3 DEF Outcomes
  <2>5. Joined(acc, r) = next
    BY <1>2, <2>1 DEF Joined, ins
  <2> HIDE DEF next
  <2> QED BY <2>1, <2>3, <2>4, <2>5 DEF CompiledFrom
<1> QED BY <1>1, <1>2

\* The access units of an event, one after the other.
CompileTrace(r, c, s, H) ==
  /\ r \in [0 .. Len(s) -> CompiledFrom(c, H)]
  /\ r[0] = Accepted(c, <<>>)
  /\ r[Len(s)] = Compile(c, s)
  /\ \A k \in 1 .. Len(s) :
       r[k] = IF r[k - 1].ok THEN Joined(r[k - 1], PutPicture(r[k - 1].ctx, s[k])) ELSE r[k - 1]

LEMMA CompileTraced ==
  ASSUME NEW H, \A h \in H : IsHeader(h), NEW c, Sound(c), NEW s \in Seq(H)
  PROVE  \E r : CompileTrace(r, c, s, H)
<1> DEFINE n == Len(s)
           A == CompiledFrom(c, H)
           base == Accepted(c, <<>>)
           next(acc, h) == IF acc.ok THEN Joined(acc, PutPicture(acc.ctx, h)) ELSE acc
           F == [z \in A \X (1 .. n) |-> next(z[1], s[z[2]])]
           it[u \in SUBSET DOMAIN s] ==
             IF u = {} THEN base ELSE next(it[u \ {Max(u)}], s[Max(u)])
<1>1. n \in Nat /\ DOMAIN s = 1 .. n /\ \A k \in 1 .. n : s[k] \in H
  OBVIOUS
<1>2. \A acc \in A, h \in H : next(acc, h) \in A
  <2> TAKE acc \in A, h \in H
  <2>1. CASE ~acc.ok
    BY <2>1
  <2>2. CASE acc.ok
    <3>1. Sound(acc.ctx)
      BY CompiledFields
    <3>2. PutPicture(acc.ctx, h) \in CompiledFrom(acc.ctx, H)
      BY <3>1, PutPictureCompiles
    <3>3. Joined(acc, PutPicture(acc.ctx, h)) \in A
      BY <2>2, <3>2, JoinedCompiles
    <3> QED BY <2>2, <3>3
  <2> QED BY <2>1, <2>2
<1>3. Compile(c, s) = it[1 .. n]
  BY <1>1 DEF Compile, FoldLeft, MapThenFoldSet, Joined
<1> HIDE DEF next, A
<1>4. base \in A
  <2>1. <<>> \in Seq(Instructions(H))
    OBVIOUS
  <2>2. Leads(<<>>, Refs(c), Refs(c))
    BY RefsAreNumbers, NothingLeads
  <2> QED BY <2>1, <2>2, AcceptedCompiles DEF A
<1> HIDE DEF base
<1>5. F \in [A \X (1 .. n) -> A]
  BY <1>1, <1>2
<1>6. PICK g : Folds(g, A, n, base, F)
  <2> HIDE DEF F, n
  <2> QED BY <1>1, <1>4, <1>5, FoldExists
<1>7. g = [u \in SUBSET DOMAIN s |-> IF u = {} THEN base ELSE next(g[u \ {Max(u)}], s[Max(u)])]
  <2>1. ASSUME NEW u \in SUBSET (1 .. n), u # {}
        PROVE  F[<<g[u \ {Max(u)}], Max(u)>>] = next(g[u \ {Max(u)}], s[Max(u)])
    <3>1. Max(u) \in 1 .. n /\ g[u \ {Max(u)}] \in A
      BY <1>1, <1>6, <2>1, MaxInSet DEF Folds
    <3> QED BY <3>1
  <2> QED BY <1>1, <1>6, <2>1 DEF Folds
<1>8. it = [u \in SUBSET DOMAIN s |-> IF u = {} THEN base ELSE next(it[u \ {Max(u)}], s[Max(u)])]
  BY <1>7
<1> HIDE DEF it, F
<1> DEFINE r(k) == it[1 .. k]
<1>9. r(0) = base /\ \A k \in 1 .. n : r(k) = next(r(k - 1), s[k])
  <2>1. 1 .. 0 = {} /\ {} \in SUBSET DOMAIN s
    OBVIOUS
  <2>2. ASSUME NEW k \in 1 .. n PROVE r(k) = next(r(k - 1), s[k])
    <3>1. 1 .. k \in SUBSET DOMAIN s /\ 1 .. k # {}
      BY <1>1, Prefix
    <3>2. Max(1 .. k) = k /\ (1 .. k) \ {Max(1 .. k)} = 1 .. k - 1
      BY <1>1, MaxOfInterval
    <3> QED BY <1>8, <3>1, <3>2
  <2> QED BY <1>8, <2>1, <2>2
<1>10. \A k \in 0 .. n : r(k) \in A
  <2> HIDE DEF r
  <2> DEFINE S == {k \in Nat : k <= n => r(k) \in A}
  <2>1. 0 \in S
    BY <1>4, <1>9
  <2>2. ASSUME NEW k \in Nat, k \in S PROVE k + 1 \in S
    <3> SUFFICES ASSUME k + 1 <= n PROVE r(k + 1) \in A
      OBVIOUS
    <3>1. r(k) \in A /\ k + 1 \in 1 .. n /\ k + 1 - 1 = k
      BY <1>1, <2>2
    <3> QED BY <1>1, <1>2, <1>9, <3>1
  <2> HIDE DEF S
  <2>3. Nat \subseteq S
    BY <2>1, <2>2, AllNumbers
  <2> QED BY <1>1, <2>3 DEF S
<1>12. r(n) = Compile(c, s)
  BY <1>3
<1> HIDE DEF r
<1> DEFINE q == [k \in 0 .. n |-> r(k)]
<1>13. /\ q \in [0 .. n -> A] /\ q[0] = base /\ q[n] = r(n)
       /\ \A k \in 1 .. n : q[k] = next(q[k - 1], s[k])
  <2>1. \A k \in 1 .. n : k \in 0 .. n /\ k - 1 \in 0 .. n
    BY <1>1
  <2>2. 0 \in 0 .. n /\ n \in 0 .. n
    BY <1>1
  <2> HIDE DEF n
  <2> QED BY <1>9, <1>10, <2>1, <2>2
<1> HIDE DEF q
<1>14. CompileTrace(q, c, s, H)
  BY <1>12, <1>13 DEF A, base, next, CompileTrace
<1> QED BY <1>14

LEMMA CompileCompiles ==
  ASSUME NEW H, \A h \in H : IsHeader(h), NEW c, Sound(c), NEW s \in Seq(H)
  PROVE  Compile(c, s) \in CompiledFrom(c, H)
<1>1. PICK r : CompileTrace(r, c, s, H)
  BY CompileTraced
<1>2. Len(s) \in 0 .. Len(s)
  OBVIOUS
<1>3. r[Len(s)] \in CompiledFrom(c, H)
  BY <1>1, <1>2 DEF CompileTrace
<1> QED BY <1>1, <1>3 DEF CompileTrace

(* Whatever headers a chunk completes, unless a picture is refused: the    *)
(* instructions lead, executed one after the other, from exactly the       *)
(* references before to exactly those after.  A reference that is dropped  *)
(* is known when it is, and the name a picture is decoded under is none of *)
(* those in use (compile_to_decoder_instructions, put_picture).            *)
THEOREM InstructionsFollowReferences ==
  ASSUME NEW H, \A h \in H : IsHeader(h), NEW c, Sound(c), NEW aus \in Seq(H), Compile(c, aus).ok
  PROVE  /\ Sound(Compile(c, aus).ctx)
         /\ Leads(Compile(c, aus).instructions, Refs(c), Refs(Compile(c, aus).ctx))
<1> DEFINE r == Compile(c, aus)
<1>1. r \in CompiledFrom(c, H)
  BY CompileCompiles
<1> HIDE DEF r
<1>2. Sound(r.ctx) /\ (r.ok => Leads(r.instructions, Refs(c), Refs(r.ctx)))
  BY <1>1, CompiledFields
<1> QED BY <1>2 DEF r
=============================================================================
