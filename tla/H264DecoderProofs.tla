-------------------------- MODULE H264DecoderProofs --------------------------
(***************************************************************************)
(* The decoded picture buffer, for any number of references and any        *)
(* encoder.                                                                *)
(*                                                                         *)
(* SlotsApart uses nothing of the stream or of the reference manager:      *)
(* references keep slots of their own whatever the instructions say.  That *)
(* the buffer holds the existing references and nothing else rests on what *)
(* the instructions mean, InstructionsFollowReferences: `Mirror` says that *)
(* those still to execute lead from what is decoded to what the reference  *)
(* manager holds already.                                                  *)
(*                                                                         *)
(* That a picture is decoded from what it was encoded from also rests on   *)
(* the encoder.  `Sim` relates its references, which are pictures, with    *)
(* those of the manager, which are ids and numbers, and is kept picture by *)
(* picture.  The encoder is ahead of the buffer by the access units in the *)
(* splitters and the instructions of the event: `Track` says that these    *)
(* lead, one by one, from what the buffer holds to what the encoder has,   *)
(* while nothing disturbs them.  `StrictTrack` says so whatever is lost, as *)
(* long as no reference picture is accepted after it: strict handling sees *)
(* the jump of frame_num, for `Trails` bounds how far behind it is.        *)
(***************************************************************************)
EXTENDS H264Decoder, ReferenceManagerProofs, FiniteSetTheorems

IInv ==
  /\ active \subseteq Slots
  /\ slotOf \in [DOMAIN slotOf -> Slots]
  /\ SlotsApart

\* allocate_reference_picture takes a slot that is free.
LEMMA MinFreeIsFree ==
  ASSUME NEW used, ~(Slots \subseteq used)
  PROVE  MinFree(used) \in Slots \ used
<1>1. Slots \subseteq Nat
  BY StreamAssumption DEF Slots
<1>2. \E s \in Slots \ used : \A t \in Slots \ used : s <= t
  BY <1>1, LeastExists
<1> QED BY <1>2 DEF MinFree

\* A picture that is decoded gets a slot of its own.
LEMMA DecodeKeepsApart ==
  ASSUME NEW i, NEW used, NEW map, NEW pics, DoDecode(i, used, map, pics),
         used \subseteq Slots, map \in [DOMAIN map -> Slots],
         \A id \in DOMAIN map : map[id] \in used,
         \A a, b \in DOMAIN map : map[a] = map[b] => a = b
  PROVE  IInv'
<1>1. ASSUME Slots \subseteq used PROVE IInv'
  BY <1>1 DEF DoDecode, IInv, SlotsApart
<1>2. ASSUME ~(Slots \subseteq used) PROVE IInv'
  <2> DEFINE slot == MinFree(used)
  <2>1. slot \in Slots /\ slot \notin used
    BY <1>2, MinFreeIsFree
  <2> HIDE DEF slot
  <2> DEFINE longer == [id \in DOMAIN map \cup {i.id} |-> IF id = i.id THEN slot ELSE map[id]]
  <2>2. active' = used \cup {slot} /\ (slotOf' = map \/ slotOf' = longer)
    BY <1>2 DEF DoDecode, slot
  <2>3. ASSUME slotOf' = map PROVE IInv'
    BY <2>1, <2>2, <2>3 DEF IInv, SlotsApart
  <2>4. ASSUME slotOf' = longer PROVE IInv'
    <3>1. /\ DOMAIN slotOf' = {i.id} \cup DOMAIN map
          /\ \A id \in DOMAIN slotOf' : slotOf'[id] = IF id = i.id THEN slot ELSE map[id]
          /\ slotOf' = [id \in DOMAIN slotOf' |-> slotOf'[id]]
      BY <2>4
    <3> QED BY <2>1, <2>2, <3>1 DEF IInv, SlotsApart
  <2> QED BY <2>2, <2>3, <2>4
<1> QED BY <1>1, <1>2

\* A slot is freed with the reference that had it.
LEMMA DropKeepsApart ==
  ASSUME IInv, NEW i, DoDrop(i)
  PROVE  IInv'
<1> DEFINE gone  == {id \in DOMAIN slotOf :
                       \E n \in DOMAIN i.ids :
                         id = i.ids[n] /\ \A k \in 1 .. n : i.ids[k] \in DOMAIN slotOf}
           freed == {slotOf[id] : id \in gone}
<1>1. gone \subseteq DOMAIN slotOf
  OBVIOUS
<1>2. active' = active \ freed /\ slotOf' = [id \in DOMAIN slotOf \ gone |-> slotOf[id]]
  BY DEF DoDrop
<1>3. \A s : s \in freed <=> \E id \in gone : s = slotOf[id]
  OBVIOUS
<1> HIDE DEF gone, freed
<1>4. /\ DOMAIN slotOf' = DOMAIN slotOf \ gone
      /\ \A id \in DOMAIN slotOf' : slotOf'[id] = slotOf[id]
      /\ slotOf' = [id \in DOMAIN slotOf' |-> slotOf'[id]]
  BY <1>2
<1> QED BY <1>1, <1>2, <1>3, <1>4 DEF IInv, SlotsApart

LEMMA InitIInv == Init => IInv
BY DEF Init, IInv, SlotsApart

LEMMA NextIInv ==
  ASSUME IInv, [Next]_vars
  PROVE  IInv'
<1>1. ASSUME UNCHANGED <<active, slotOf>> PROVE IInv'
  BY <1>1 DEF IInv, SlotsApart
<1>2. ASSUME Execute PROVE IInv'
  <2> DEFINE i == Head(todo)
  <2>1. ASSUME DoDecode(i, {}, <<>>, [s \in Slots |-> NoPic]) PROVE IInv'
    <3>1. DOMAIN <<>> = {} /\ <<>> \in [DOMAIN <<>> -> Slots]
      OBVIOUS
    <3>2. {} \subseteq Slots /\ \A id \in DOMAIN <<>> : FALSE
      BY <3>1
    <3> QED BY <2>1, <3>1, <3>2, DecodeKeepsApart
  <2>2. ASSUME DoDecode(i, active, slotOf, content) PROVE IInv'
    BY <2>2, DecodeKeepsApart DEF IInv, SlotsApart
  <2>3. ASSUME DoDrop(i) PROVE IInv'
    BY <2>3, DropKeepsApart
  <2> QED BY <1>2, <2>1, <2>2, <2>3 DEF Execute
<1>3. ASSUME DecodeChunk \/ Flush \/ LosePicture \/ SkipPicture \/ ResultKnown \/ UNCHANGED vars
      PROVE  UNCHANGED <<active, slotOf>>
  BY <1>3 DEF DecodeChunk, Flush, LosePicture, SkipPicture, ResultKnown, ProcessEvent, vars, dpbVars
<1> QED BY <1>1, <1>2, <1>3 DEF Next

(* Two references never share a slot of the decoded picture buffer, and no *)
(* slot of a reference is free.                                            *)
THEOREM SlotsApartCorrect == Spec => []SlotsApart
<1>1. IInv => SlotsApart
  BY DEF IInv
<1> QED BY InitIInv, NextIInv, <1>1, PTL DEF Spec

-----------------------------------------------------------------------------
(* The types of the stream *)

Nums      == 0 .. MaxFrameNum - 1
EncRef    == [pic : Pics \cup {Ghost}, num : Nums]
Encoder   == [short : Seq(EncRef), long : Seq(EncRef), prev : Nums, age : Nat, uses : Features,
              whole : BOOLEAN, lost : Nat, skipped : Nat]
MarkOp    == [op : Kinds, idx : Int, diff : Int]
ListOp    == [op : {"Subtract", "LongTermRef"}, value : Int]
MarkKinds == {"idr", "sliding", "adaptive", "none"}

Headers ==
  {h \in [pic : Pics, wanted : Seq(Pics), whole : BOOLEAN, gaps : BOOLEAN, idr : BOOLEAN,
          longTerm : BOOLEAN, intra : BOOLEAN, num : Nums, marking : MarkKinds, ops : Seq(MarkOp),
          mods : Seq(ListOp), active : Nat] :
     (h.idr <=> h.marking = "idr") /\ (h.idr => h.intra)}

\* What it says of the references, and how it was predicted.
MarkingType    == [marking : {"sliding", "adaptive", "none"}, ops : Seq(MarkOp), short : Seq(EncRef),
                   long : Seq(EncRef), prev : Nums]
PredictionType == [intra : BOOLEAN, active : Nat, mods : Seq(ListOp), wanted : Seq(Pics)]

LEMMA NumsAreNumbers ==
  /\ 0 \in Nums /\ \A n \in Nums : n \in Nat /\ n \in Int /\ n < MaxFrameNum
  /\ \A n \in Int : n % MaxFrameNum \in Nums
BY StreamAssumption DEF Nums

LEMMA PicsAreNumbers == Pics \subseteq Nat /\ Ghost \notin Pics /\ NoPic \notin Pics /\ Ghost \in Nat
BY EncoderAssumption DEF Pics, Ghost, NoPic

LEMMA DistanceType ==
  ASSUME NEW num \in Nums, NEW r \in EncRef
  PROVE  Distance(num, r) \in Nums
<1>1. r.num \in Nums
  BY DEF EncRef
<1>2. num - r.num \in Int
  BY <1>1, NumsAreNumbers
<1> QED BY <1>2, NumsAreNumbers DEF Distance

LEMMA NextNumType ==
  ASSUME NEW e \in Encoder
  PROVE  NextNum(e) \in Nums
<1>1. e.prev \in Nums
  BY DEF Encoder
<1>2. e.prev + 1 \in Int
  BY <1>1, NumsAreNumbers
<1> QED BY <1>2, NumsAreNumbers DEF NextNum

LEMMA ReverseIs ==
  ASSUME NEW T, NEW s \in Seq(T)
  PROVE  /\ Reverse(s) \in Seq(T) /\ Len(Reverse(s)) = Len(s)
         /\ \A k \in 1 .. Len(s) : Reverse(s)[k] = s[Len(s) - k + 1]
<1>1. Len(s) \in Nat /\ \A k \in 1 .. Len(s) : s[k] \in T /\ Len(s) - k + 1 \in 1 .. Len(s)
  OBVIOUS
<1>2. Reverse(s) = [k \in 1 .. Len(s) |-> s[(Len(s) - k) + 1]]
  BY DEF Reverse
<1>3. \A k \in 1 .. Len(s) : s[(Len(s) - k) + 1] \in T
  BY <1>1
<1> QED BY <1>1, <1>2, <1>3

LEMMA DefaultListType ==
  ASSUME NEW short \in Seq(EncRef), NEW long \in Seq(EncRef)
  PROVE  DefaultList(short, long) \in Seq(EncRef)
BY ReverseIs DEF DefaultList

LEMMA LedIs ==
  ASSUME NEW T, NEW s \in Seq(T), NEW i \in DOMAIN s
  PROVE  /\ Led(s, i) \in Seq(T) /\ Len(Led(s, i)) = Len(s) /\ Led(s, i)[1] = s[i]
         /\ \A k \in 2 .. Len(s) : Led(s, i)[k] = IF k <= i THEN s[k - 1] ELSE s[k]
<1> DEFINE q == RemoveAt(s, i)
<1>1. /\ q \in Seq(T) /\ Len(q) = Len(s) - 1 /\ Len(s) \in Nat /\ s[i] \in T /\ i \in 1 .. Len(s)
      /\ \A k \in 1 .. Len(s) - 1 : q[k] = IF k < i THEN s[k] ELSE s[k + 1]
  BY RemoveAtIs
<1>2. Led(s, i) = <<s[i]>> \o q
  BY DEF Led
<1> HIDE DEF q
<1> DEFINE a == <<s[i]>>
<1>3. a \in Seq(T) /\ Len(a) = 1 /\ a[1] = s[i]
  BY <1>1
<1>4. Led(s, i) = a \o q
  BY <1>2
<1> HIDE DEF a
<1>8. /\ a \o q \in Seq(T) /\ Len(a \o q) = Len(a) + Len(q) /\ Len(q) \in Nat
      /\ \A x \in 1 .. Len(a) : (a \o q)[x] = a[x]
      /\ \A x \in 1 .. Len(q) : (a \o q)[Len(a) + x] = q[x]
  <2>1. a \in Seq(T) /\ q \in Seq(T)
    BY <1>1, <1>3
  <2> QED BY ONLY <2>1, ConcatIs
<1>5. Led(s, i) \in Seq(T) /\ Len(Led(s, i)) = 1 + Len(q) /\ Led(s, i)[1] = a[1]
  BY <1>3, <1>4, <1>8
<1>6. \A x \in 1 .. Len(q) : Led(s, i)[1 + x] = q[x]
  BY <1>3, <1>4, <1>8
<1>7. ASSUME NEW k \in 2 .. Len(s) PROVE Led(s, i)[k] = IF k <= i THEN s[k - 1] ELSE s[k]
  <2>1. k - 1 \in 1 .. Len(s) - 1 /\ 1 + (k - 1) = k /\ (k - 1 < i <=> k <= i) /\ k - 1 + 1 = k
    BY <1>1
  <2> QED BY <1>1, <1>6, <2>1
<1> QED BY <1>1, <1>3, <1>5, <1>7

\* The usable part of a list ends before the first inferred picture.
LEMMA UsableIs ==
  ASSUME NEW list \in Seq(EncRef)
  PROVE  \E n \in 0 .. Len(list) :
           Usable(list) = SubSeq(list, 1, n) /\ \A k \in 1 .. n : list[k].pic # Ghost
<1> DEFINE I == {k \in 1 .. Len(list) : list[k].pic = Ghost}
           ghost == SelectInSeq(list, LAMBDA r : r.pic = Ghost)
<1>1. Len(list) \in Nat
  OBVIOUS
<1>2. ghost = IF I # {} THEN Min(I) ELSE 0
  BY DEF SelectInSeq
<1>3. Usable(list) = IF ghost = 0 THEN list ELSE SubSeq(list, 1, ghost - 1)
  BY DEF Usable
<1> HIDE DEF ghost
<1>4. CASE I = {}
  <2>1. Usable(list) = SubSeq(list, 1, Len(list))
    BY <1>2, <1>3, <1>4
  <2>2. \A k \in 1 .. Len(list) : list[k].pic # Ghost
    BY <1>4
  <2>3. Len(list) \in 0 .. Len(list)
    BY <1>1
  <2> QED BY <2>1, <2>2, <2>3
<1>5. CASE I # {}
  <2>1. I \subseteq 1 .. Len(list)
    OBVIOUS
  <2>2. \A k \in 1 .. Len(list) : k \notin I => list[k].pic # Ghost
    OBVIOUS
  <2> HIDE DEF I
  <2>3. ghost \in I /\ \A k \in I : ghost <= k
    BY <1>2, <1>5, <2>1, FoundPosition
  <2>4. ghost \in 1 .. Len(list)
    BY <2>1, <2>3
  <2>5. Usable(list) = SubSeq(list, 1, ghost - 1) /\ ghost - 1 \in 0 .. Len(list)
    BY <1>1, <1>3, <2>4
  <2>6. \A k \in 1 .. ghost - 1 : k \in 1 .. Len(list) /\ ~(ghost <= k)
    BY <1>1, <2>4
  <2> QED BY <2>2, <2>3, <2>5, <2>6
<1> QED BY <1>4, <1>5

LEMMA NoOperations == <<>> \in Seq(MarkOp) /\ <<>> \in Seq(ListOp) /\ <<>> \in Seq(Pics)
OBVIOUS

LEMMA PredictedType ==
  ASSUME NEW short \in Seq(EncRef), NEW long \in Seq(EncRef), NEW num \in Nums,
         NEW i \in DOMAIN DefaultList(short, long)
  PROVE  Predicted(short, long, num, i) \in PredictionType
<1> DEFINE list == DefaultList(short, long)
           used == Usable(Led(list, i))
           mod  == IF i <= Len(short) THEN [op |-> "Subtract", value |-> Distance(num, list[i]) - 1]
                   ELSE [op |-> "LongTermRef", value |-> 0]
           mods == IF i = 1 THEN <<>> ELSE <<mod>>
           wanted == [k \in DOMAIN used |-> used[k].pic]
<1>1. Predicted(short, long, num, i) = [intra |-> FALSE, active |-> Len(used), mods |-> mods, wanted |-> wanted]
  BY DEF Predicted
<1>2. list \in Seq(EncRef)
  BY DefaultListType
<1>3. mods \in Seq(ListOp)
  <2>1. list[i] \in EncRef
    BY <1>2
  <2>4. Distance(num, list[i]) \in Nums
    BY <2>1, DistanceType
  <2>2. Distance(num, list[i]) - 1 \in Int
    BY <2>4, NumsAreNumbers
  <2>3. mod \in ListOp
    BY <2>2 DEF ListOp
  <2> HIDE DEF mod
  <2> QED BY <2>3
<1> HIDE DEF list, mods
<1>4. Led(list, i) \in Seq(EncRef) /\ Len(Led(list, i)) \in Nat
  BY <1>2, LedIs DEF list
<1>5. PICK n \in 0 .. Len(Led(list, i)) :
        used = SubSeq(Led(list, i), 1, n) /\ \A k \in 1 .. n : Led(list, i)[k].pic # Ghost
  BY <1>4, UsableIs
<1> HIDE DEF used
<1>6. /\ used \in Seq(EncRef) /\ Len(used) = n /\ DOMAIN used = 1 .. n /\ n \in Nat
      /\ \A k \in 1 .. n : used[k] \in EncRef /\ used[k] = Led(list, i)[k]
  BY <1>4, <1>5
<1>7. wanted = [k \in 1 .. n |-> used[k].pic] /\ \A k \in 1 .. n : used[k].pic \in Pics
  BY <1>5, <1>6 DEF EncRef
<1>8. wanted \in Seq(Pics)
  BY <1>6, <1>7
<1> HIDE DEF wanted
<1> QED BY <1>1, <1>3, <1>6, <1>8 DEF PredictionType

LEMMA PredictionsType ==
  ASSUME NEW short \in Seq(EncRef), NEW long \in Seq(EncRef), NEW num \in Nums,
         NEW p \in Predictions(short, long, num)
  PROVE  p \in PredictionType
<1>1. Intra \in PredictionType
  BY NoOperations DEF Intra, PredictionType
<1>2. \/ p = Intra
      \/ \E i \in DOMAIN DefaultList(short, long) : p = Predicted(short, long, num, i)
  BY DEF Predictions
<1> QED BY <1>1, <1>2, PredictedType
\* The ways to mark a reference picture.
Cur(pic, num) == [pic |-> pic, num |-> num]

Slides(m, short, long, num, pic) ==
  /\ CanSlide(short, long)
  /\ m = Marking("sliding", <<>>, Append(Slid(short, long), Cur(pic, num)), long, num)

Unmarks(m, short, long, num, pic) ==
  \E i \in DOMAIN short :
    m = Marking("adaptive", <<Take("ShortTermUnused", num, short[i])>>,
                Append(RemoveAt(short, i), Cur(pic, num)), long, num)

Converts(m, short, long, num, pic) ==
  \E i \in DOMAIN short :
    /\ short[i].pic # Ghost
    /\ m = Marking("adaptive", <<UseMaxIdx, Take("ShortTermToLongTerm", num, short[i])>>,
                   Append(RemoveAt(short, i), Cur(pic, num)), <<short[i]>>, num)

Promotes(m, short, long, num, pic) ==
  m = Marking("adaptive", <<UseMaxIdx, Unmark("CurrentToLongTerm", 0)>>, short, <<Cur(pic, num)>>, num)

Frees(m, short, long, num, pic) ==
  /\ long # <<>>
  /\ \E op \in {Unmark("LongTermUnused", 0), Unmark("MaxLongTermIdx", NoIdx)} :
       m = Marking("adaptive", <<op>>, Append(short, Cur(pic, num)), <<>>, num)

Resets(m, short, long, num, pic) ==
  m = Marking("adaptive", <<Unmark("AllUnused", 0)>>, <<[Cur(pic, num) EXCEPT !.num = 0]>>, <<>>, 0)

LEMMA MarkingForms ==
  ASSUME NEW short, NEW long, NEW num, NEW pic, NEW uses,
         NEW m \in Markings(short, long, num, pic, uses)
  PROVE  \/ Slides(m, short, long, num, pic) \/ Unmarks(m, short, long, num, pic)
         \/ Converts(m, short, long, num, pic) \/ Promotes(m, short, long, num, pic)
         \/ Frees(m, short, long, num, pic)
         \/ uses.resets /\ Resets(m, short, long, num, pic)
<1> DEFINE cur == [pic |-> pic, num |-> num]
           Adaptive(ops, left, kept) == Marking("adaptive", ops, Append(left, cur), kept, num)
           M1 == IF CanSlide(short, long)
                 THEN {Marking("sliding", <<>>, Append(Slid(short, long), cur), long, num)} ELSE {}
           M2 == {Adaptive(<<Take("ShortTermUnused", num, short[i])>>, RemoveAt(short, i), long) :
                    i \in DOMAIN short}
           M3 == {Adaptive(<<UseMaxIdx, Take("ShortTermToLongTerm", num, short[i])>>,
                           RemoveAt(short, i), <<short[i]>>) :
                    i \in {j \in DOMAIN short : short[j].pic # Ghost}}
           M4 == {Marking("adaptive", <<UseMaxIdx, Unmark("CurrentToLongTerm", 0)>>,
                          short, <<cur>>, num)}
           M5 == IF long = <<>> THEN {}
                 ELSE {Adaptive(<<Unmark("LongTermUnused", 0)>>, short, <<>>),
                       Adaptive(<<Unmark("MaxLongTermIdx", NoIdx)>>, short, <<>>)}
           M6 == IF ~uses.resets THEN {}
                 ELSE {Marking("adaptive", <<Unmark("AllUnused", 0)>>,
                               <<[cur EXCEPT !.num = 0]>>, <<>>, 0)}
<1>1. m \in M1 \/ m \in M2 \/ m \in M3 \/ m \in M4 \/ m \in M5 \/ m \in M6
  <2>1. Markings(short, long, num, pic, uses)
          = M1 \cup M2 \cup (IF ~uses.longTerms THEN {} ELSE M3 \cup M4 \cup M5) \cup M6
    BY DEF Markings
  <2> HIDE DEF M1, M2, M3, M4, M5, M6
  <2> QED BY <2>1
<1>2. cur = Cur(pic, num)
  BY DEF Cur
<1> HIDE DEF cur
<1>3. m \in M1 => Slides(m, short, long, num, pic)
  BY <1>2 DEF Slides
<1>4. m \in M2 => Unmarks(m, short, long, num, pic)
  BY <1>2 DEF Unmarks
<1>5. m \in M3 => Converts(m, short, long, num, pic)
  BY <1>2 DEF Converts
<1>6. m \in M4 => Promotes(m, short, long, num, pic)
  BY <1>2 DEF Promotes
<1>7. m \in M5 => Frees(m, short, long, num, pic)
  BY <1>2 DEF Frees
<1>8. m \in M6 => uses.resets /\ Resets(m, short, long, num, pic)
  BY <1>2 DEF Resets
<1> HIDE DEF M1, M2, M3, M4, M5, M6
<1> QED BY <1>1, <1>3, <1>4, <1>5, <1>6, <1>7, <1>8

LEMMA MarkOpTypes ==
  /\ UseMaxIdx \in MarkOp
  /\ Unmark("CurrentToLongTerm", 0) \in MarkOp /\ Unmark("LongTermUnused", 0) \in MarkOp
  /\ Unmark("MaxLongTermIdx", NoIdx) \in MarkOp /\ Unmark("AllUnused", 0) \in MarkOp
  /\ \A num \in Nums, r \in EncRef : /\ Take("ShortTermUnused", num, r) \in MarkOp
                                     /\ Take("ShortTermToLongTerm", num, r) \in MarkOp
<1>1. \A num \in Nums, r \in EncRef : Distance(num, r) - 1 \in Int
  <2> TAKE num \in Nums, r \in EncRef
  <2>1. Distance(num, r) \in Nums
    BY DistanceType
  <2> QED BY <2>1, NumsAreNumbers
<1> QED BY <1>1 DEF MarkOp, Kinds, UseMaxIdx, Unmark, Take, NoIdx

LEMMA CurType ==
  ASSUME NEW pic \in Pics, NEW num \in Nums
  PROVE  Cur(pic, num) \in EncRef /\ [Cur(pic, num) EXCEPT !.num = 0] \in EncRef
BY NumsAreNumbers DEF Cur, EncRef

LEMMA SlidType ==
  ASSUME NEW short \in Seq(EncRef), NEW long, CanSlide(short, long)
  PROVE  Slid(short, long) \in Seq(EncRef)
<1>1. CASE Len(short) + Len(long) < MaxRefs
  BY <1>1 DEF Slid
<1>2. CASE ~(Len(short) + Len(long) < MaxRefs)
  BY <1>2 DEF Slid, CanSlide
<1> QED BY <1>1, <1>2

LEMMA MarkingsType ==
  ASSUME NEW short \in Seq(EncRef), NEW long \in Seq(EncRef), NEW num \in Nums, NEW pic \in Pics,
         NEW uses, NEW m \in Markings(short, long, num, pic, uses)
  PROVE  m \in MarkingType
<1> DEFINE cur == Cur(pic, num)
<1>1. cur \in EncRef /\ [cur EXCEPT !.num = 0] \in EncRef
  BY CurType
<1> HIDE DEF cur
<1>2. ASSUME NEW ops \in Seq(MarkOp), NEW s \in Seq(EncRef), NEW l \in Seq(EncRef), NEW p \in Nums,
             NEW kind \in {"sliding", "adaptive", "none"}, m = Marking(kind, ops, s, l, p)
      PROVE  m \in MarkingType
  BY <1>2 DEF Marking, MarkingType
<1>3. \A s \in Seq(EncRef) : Append(s, cur) \in Seq(EncRef)
  BY <1>1
<1>4. \A i \in DOMAIN short : short[i] \in EncRef /\ RemoveAt(short, i) \in Seq(EncRef)
  BY RemoveAtIs
<1>5. \A op \in MarkOp : <<op>> \in Seq(MarkOp)
  OBVIOUS
<1>6. \A a, b \in MarkOp : <<a, b>> \in Seq(MarkOp)
  OBVIOUS
<1>7. \A r \in EncRef : <<r>> \in Seq(EncRef)
  OBVIOUS
<1>8. Slides(m, short, long, num, pic) => m \in MarkingType
  BY <1>2, <1>3, NoOperations, SlidType DEF Slides, cur
<1>9. Unmarks(m, short, long, num, pic) => m \in MarkingType
  <2> SUFFICES ASSUME NEW i \in DOMAIN short,
                      m = Marking("adaptive", <<Take("ShortTermUnused", num, short[i])>>,
                                  Append(RemoveAt(short, i), cur), long, num)
               PROVE  m \in MarkingType
    BY DEF Unmarks, cur
  <2>1. <<Take("ShortTermUnused", num, short[i])>> \in Seq(MarkOp)
    BY <1>4, <1>5, MarkOpTypes
  <2>2. Append(RemoveAt(short, i), cur) \in Seq(EncRef)
    BY <1>3, <1>4
  <2> QED BY <1>2, <2>1, <2>2
<1>10. Converts(m, short, long, num, pic) => m \in MarkingType
  <2> SUFFICES ASSUME NEW i \in DOMAIN short,
                      m = Marking("adaptive", <<UseMaxIdx, Take("ShortTermToLongTerm", num, short[i])>>,
                                  Append(RemoveAt(short, i), cur), <<short[i]>>, num)
               PROVE  m \in MarkingType
    BY DEF Converts, cur
  <2>1. <<UseMaxIdx, Take("ShortTermToLongTerm", num, short[i])>> \in Seq(MarkOp)
    BY <1>4, <1>6, MarkOpTypes
  <2>2. Append(RemoveAt(short, i), cur) \in Seq(EncRef) /\ <<short[i]>> \in Seq(EncRef)
    BY <1>3, <1>4, <1>7
  <2> QED BY <1>2, <2>1, <2>2
<1>11. Promotes(m, short, long, num, pic) => m \in MarkingType
  <2>1. <<UseMaxIdx, Unmark("CurrentToLongTerm", 0)>> \in Seq(MarkOp)
    BY <1>6, MarkOpTypes
  <2>2. <<cur>> \in Seq(EncRef)
    BY <1>1, <1>7
  <2> QED BY <1>2, <2>1, <2>2 DEF Promotes, cur
<1>12. Frees(m, short, long, num, pic) => m \in MarkingType
  <2> SUFFICES ASSUME NEW op \in {Unmark("LongTermUnused", 0), Unmark("MaxLongTermIdx", NoIdx)},
                      m = Marking("adaptive", <<op>>, Append(short, cur), <<>>, num)
               PROVE  m \in MarkingType
    BY DEF Frees, cur
  <2>1. <<op>> \in Seq(MarkOp)
    BY <1>5, MarkOpTypes
  <2>2. Append(short, cur) \in Seq(EncRef) /\ <<>> \in Seq(EncRef)
    BY <1>3
  <2> QED BY <1>2, <2>1, <2>2
<1>13. Resets(m, short, long, num, pic) => m \in MarkingType
  <2>1. <<Unmark("AllUnused", 0)>> \in Seq(MarkOp)
    BY <1>5, MarkOpTypes
  <2>2. <<[cur EXCEPT !.num = 0]>> \in Seq(EncRef) /\ <<>> \in Seq(EncRef)
    BY <1>1, <1>7
  <2> QED BY <1>2, <2>1, <2>2, NumsAreNumbers DEF Resets, cur
<1> QED BY <1>8, <1>9, <1>10, <1>11, <1>12, <1>13, MarkingForms

LEMMA LegalMarkingsType ==
  ASSUME NEW e \in Encoder, NEW pic \in Pics, NEW m \in LegalMarkings(e, pic)
  PROVE  m \in MarkingType
<1>1. e.short \in Seq(EncRef) /\ e.long \in Seq(EncRef) /\ e.prev \in Nums
  BY DEF Encoder
<1>2. CASE m \in Markings(e.short, e.long, NextNum(e), pic, e.uses)
  BY <1>1, <1>2, MarkingsType, NextNumType
<1>3. CASE m = Marking("none", <<>>, e.short, e.long, e.prev)
  BY <1>1, <1>3, NoOperations DEF Marking, MarkingType
<1> QED BY <1>2, <1>3 DEF LegalMarkings

LEMMA EncoderFields ==
  ASSUME NEW e \in Encoder
  PROVE  /\ e.short \in Seq(EncRef) /\ e.long \in Seq(EncRef) /\ e.prev \in Nums /\ e.age \in Nat
         /\ e.uses \in Features /\ e.whole \in BOOLEAN /\ e.lost \in Nat /\ e.skipped \in Nat
BY DEF Encoder

Changed(e, s, l, p, a, k) ==
  [e EXCEPT !.short = s, !.long = l, !.prev = p, !.age = a, !.skipped = k]

LEMMA EncoderChanged ==
  ASSUME NEW e \in Encoder, NEW s \in Seq(EncRef), NEW l \in Seq(EncRef), NEW p \in Nums,
         NEW a \in Nat, NEW k \in Nat
  PROVE  LET x == Changed(e, s, l, p, a, k)
         IN  /\ x \in Encoder /\ x.short = s /\ x.long = l /\ x.prev = p /\ x.age = a /\ x.skipped = k
             /\ x.uses = e.uses /\ x.whole = e.whole /\ x.lost = e.lost
<1> DEFINE d == [e EXCEPT !.short = s, !.long = l, !.prev = p]
           x == [d EXCEPT !.age = a, !.skipped = k]
<1>1. Changed(e, s, l, p, a, k) = x
  BY DEF Changed
<1>2. /\ d \in Encoder /\ d.short = s /\ d.long = l /\ d.prev = p
      /\ d.uses = e.uses /\ d.whole = e.whole /\ d.lost = e.lost
  BY DEF Encoder
<1> HIDE DEF d
<1>3. /\ x \in Encoder /\ x.short = d.short /\ x.long = d.long /\ x.prev = d.prev /\ x.age = a
      /\ x.skipped = k /\ x.uses = d.uses /\ x.whole = d.whole /\ x.lost = d.lost
  BY <1>2 DEF Encoder
<1> HIDE DEF x
<1> QED BY <1>1, <1>2, <1>3

LEMMA MarkedType ==
  ASSUME NEW e \in Encoder, NEW m \in MarkingType
  PROVE  LET x == Marked(e, m)
         IN  /\ x \in Encoder /\ x.short = m.short /\ x.long = m.long /\ x.prev = m.prev
             /\ x.skipped = 0 /\ x.uses = e.uses /\ x.whole = e.whole
<1>1. /\ m.short \in Seq(EncRef) /\ m.long \in Seq(EncRef) /\ m.prev \in Nums
  BY DEF MarkingType
<1>2. e.age + 1 \in Nat
  BY EncoderFields
<1>3. Marked(e, m) = Changed(e, m.short, m.long, m.prev, e.age + 1, 0)
  BY DEF Marked, Changed
<1>4. 0 \in Nat
  OBVIOUS
<1> QED BY <1>1, <1>2, <1>3, <1>4, EncoderChanged

LEMMA HeaderType ==
  ASSUME NEW e \in Encoder, NEW pic \in Pics, NEW p \in PredictionType, NEW m \in MarkingType
  PROVE  HeaderOf(e, pic, p, m) \in Headers
<1>1. NextNum(e) \in Nums
  BY NextNumType
<1>2. m.marking \in MarkKinds /\ m.marking # "idr" /\ m.ops \in Seq(MarkOp)
  BY DEF MarkingType, MarkKinds
<1>3. /\ p.wanted \in Seq(Pics) /\ p.intra \in BOOLEAN /\ p.active \in Nat /\ p.mods \in Seq(ListOp)
  BY DEF PredictionType
<1>4. e.whole \in BOOLEAN /\ e.uses.gaps \in BOOLEAN
  BY DEF Encoder, Features
<1> QED BY <1>1, <1>2, <1>3, <1>4 DEF HeaderOf, Headers

LEMMA OtherPicturesType ==
  ASSUME NEW e \in Encoder, NEW pic \in Pics, NEW x \in OtherPictures(e, pic)
  PROVE  x.h \in Headers /\ x.enc \in Encoder /\ x.enc.uses = e.uses
<1>1. PICK p \in Predictions(e.short, e.long, NextNum(e)), m \in LegalMarkings(e, pic) :
        x = [h |-> HeaderOf(e, pic, p, m), enc |-> Marked(e, m)]
  BY DEF OtherPictures
<1>2. e.short \in Seq(EncRef) /\ e.long \in Seq(EncRef) /\ NextNum(e) \in Nums
  BY NextNumType DEF Encoder
<1>3. p \in PredictionType /\ m \in MarkingType
  BY <1>2, PredictionsType, LegalMarkingsType
<1> QED BY <1>1, <1>3, HeaderType, MarkedType

LEMMA FreshEncoderType ==
  ASSUME NEW uses \in Features
  PROVE  FreshEncoder(uses) \in Encoder
BY NumsAreNumbers, EncoderAssumption DEF FreshEncoder, Encoder

\* The header of an IDR picture, and the encoder after it.
IdrHeader(e, pic, long) ==
  [pic |-> pic, wanted |-> <<>>, whole |-> TRUE, gaps |-> e.uses.gaps, idr |-> TRUE,
   longTerm |-> long, intra |-> TRUE, num |-> 0, marking |-> "idr", ops |-> <<>>,
   mods |-> <<>>, active |-> 0]

AfterIdr(e, pic, long) ==
  [FreshEncoder(e.uses) EXCEPT !.age = 1,
    !.short = IF long THEN <<>> ELSE <<[pic |-> pic, num |-> 0]>>,
    !.long = IF long THEN <<[pic |-> pic, num |-> 0]>> ELSE <<>>]

LEMMA IdrPicturesAre ==
  ASSUME NEW e, NEW pic, NEW x \in IdrPictures(e, pic)
  PROVE  \E long \in BOOLEAN : x.h = IdrHeader(e, pic, long) /\ x.enc = AfterIdr(e, pic, long)
<1>1. PICK long \in IF e.uses.longTerms THEN BOOLEAN ELSE {FALSE} :
        x = [h |-> IdrHeader(e, pic, long), enc |-> AfterIdr(e, pic, long)]
  BY DEF IdrPictures, IdrHeader, AfterIdr
<1>2. long \in BOOLEAN
  OBVIOUS
<1> QED BY <1>1, <1>2

LEMMA IdrPicturesType ==
  ASSUME NEW e \in Encoder, NEW pic \in Pics, NEW x \in IdrPictures(e, pic)
  PROVE  x.h \in Headers /\ x.enc \in Encoder /\ x.enc.uses = e.uses
<1>1. PICK long \in BOOLEAN : x.h = IdrHeader(e, pic, long) /\ x.enc = AfterIdr(e, pic, long)
  BY IdrPicturesAre
<1>2. e.uses \in Features /\ e.uses.gaps \in BOOLEAN
  BY DEF Encoder, Features
<1>3. IdrHeader(e, pic, long) \in Headers
  BY <1>2, NumsAreNumbers, NoOperations DEF IdrHeader, Headers, MarkKinds
<1>4. AfterIdr(e, pic, long) \in Encoder /\ AfterIdr(e, pic, long).uses = e.uses
  <2> DEFINE refs == <<[pic |-> pic, num |-> 0]>>
             s == IF long THEN <<>> ELSE refs
             l == IF long THEN refs ELSE <<>>
  <2>1. refs \in Seq(EncRef)
    <3>1. [pic |-> pic, num |-> 0] \in EncRef
      BY NumsAreNumbers DEF EncRef
    <3> QED BY <3>1
  <2>2. s \in Seq(EncRef) /\ l \in Seq(EncRef)
    BY <2>1
  <2>3. AfterIdr(e, pic, long) = [FreshEncoder(e.uses) EXCEPT !.age = 1, !.short = s, !.long = l]
    BY DEF AfterIdr
  <2> HIDE DEF s, l
  <2> DEFINE f == FreshEncoder(e.uses)
  <2>4. f \in Encoder /\ 1 \in Nat /\ f.uses = e.uses
    BY <1>2, FreshEncoderType DEF FreshEncoder
  <2>6. AfterIdr(e, pic, long) = [f EXCEPT !.age = 1, !.short = s, !.long = l]
    BY <2>3
  <2> HIDE DEF f
  <2>5. LET x2 == [f EXCEPT !.age = 1, !.short = s, !.long = l] IN x2 \in Encoder /\ x2.uses = f.uses
    BY <2>2, <2>4 DEF Encoder
  <2> QED BY <2>4, <2>5, <2>6
<1> QED BY <1>1, <1>3, <1>4

LEMMA PicturesType ==
  ASSUME NEW e \in Encoder, NEW pic \in Pics, NEW x \in Pictures(e, pic)
  PROVE  x.h \in Headers /\ x.enc \in Encoder /\ x.enc.uses = e.uses
<1>1. CASE x \in IdrPictures(e, pic)
  BY <1>1, IdrPicturesType
<1>2. CASE x \in OtherPictures(e, pic)
  BY <1>2, OtherPicturesType
<1> QED BY <1>1, <1>2 DEF Pictures

LEMMA LossesType ==
  ASSUME NEW e \in Encoder, NEW pic \in Pics, NEW x \in Losses(e, pic)
  PROVE  x \in Encoder /\ x.uses = e.uses
<1>1. PICK o \in OtherPictures(e, pic) : x = [o.enc EXCEPT !.whole = FALSE, !.lost = @ + 1]
  BY DEF Losses
<1>2. o.enc \in Encoder /\ o.enc.uses = e.uses
  BY OtherPicturesType
<1> DEFINE y == o.enc
<1> HIDE DEF y
<1>3. y \in Encoder /\ y.uses = e.uses /\ y.lost + 1 \in Nat /\ x = [y EXCEPT !.whole = FALSE, !.lost = y.lost + 1]
  BY <1>1, <1>2, EncoderFields DEF y
<1> QED BY <1>3 DEF Encoder

LEMMA SkippedType ==
  ASSUME NEW e \in Encoder, CanSkip(e)
  PROVE  LET x == Skipped(e)
         IN  /\ x \in Encoder /\ x.prev = NextNum(e) /\ x.skipped = e.skipped + 1 /\ x.long = e.long
             /\ x.short = Append(Slid(e.short, e.long), [pic |-> Ghost, num |-> NextNum(e)])
             /\ x.uses = e.uses /\ x.whole = e.whole
<1> DEFINE ghost == [pic |-> Ghost, num |-> NextNum(e)]
           s == Append(Slid(e.short, e.long), ghost)
<1>1. ghost \in EncRef /\ NextNum(e) \in Nums
  BY NextNumType DEF EncRef
<1>2. Slid(e.short, e.long) \in Seq(EncRef)
  BY SlidType, EncoderFields DEF CanSkip
<1>3. s \in Seq(EncRef)
  <2> HIDE DEF ghost
  <2> QED BY <1>1, <1>2
<1>4. Skipped(e) = [e EXCEPT !.short = s, !.prev = NextNum(e), !.age = e.age + 1, !.skipped = e.skipped + 1]
  BY DEF Skipped
<1>5. e.age + 1 \in Nat /\ e.skipped + 1 \in Nat
  BY EncoderFields
<1> HIDE DEF s
<1>6. LET x == [e EXCEPT !.short = s, !.prev = NextNum(e), !.age = e.age + 1, !.skipped = e.skipped + 1]
      IN  /\ x \in Encoder /\ x.prev = NextNum(e) /\ x.skipped = e.skipped + 1 /\ x.long = e.long
          /\ x.short = s /\ x.uses = e.uses /\ x.whole = e.whole
  <2> DEFINE d == [e EXCEPT !.short = s, !.prev = NextNum(e)]
             x == [d EXCEPT !.age = e.age + 1, !.skipped = e.skipped + 1]
  <2>1. [e EXCEPT !.short = s, !.prev = NextNum(e), !.age = e.age + 1, !.skipped = e.skipped + 1] = x
    OBVIOUS
  <2>2. /\ d \in Encoder /\ d.short = s /\ d.prev = NextNum(e) /\ d.long = e.long
        /\ d.uses = e.uses /\ d.whole = e.whole
    BY <1>1, <1>3 DEF Encoder
  <2> HIDE DEF d
  <2>3. /\ x \in Encoder /\ x.prev = d.prev /\ x.skipped = e.skipped + 1 /\ x.long = d.long
        /\ x.short = d.short /\ x.uses = d.uses /\ x.whole = d.whole
    BY <1>5, <2>2 DEF Encoder
  <2> HIDE DEF x
  <2> QED BY <2>1, <2>2, <2>3
<1> QED BY <1>4, <1>6 DEF s

\* The headers are what the reference manager expects of the parser.
LEMMA HeadersAreParsed == \A h \in Headers : IsHeader(h)
<1> SUFFICES ASSUME NEW h \in Headers PROVE IsHeader(h)
  OBVIOUS
<1>1. /\ h.num \in Nums /\ h.idr \in BOOLEAN /\ h.marking \in MarkKinds
      /\ h.idr <=> h.marking = "idr"
      /\ h.ops \in Seq(MarkOp)
  BY DEF Headers
<1>2. \A op \in MarkOp : IsOperation(op)
  BY DEF MarkOp, IsOperation
<1>3. h.ops \in Seq(ToSet(h.ops)) /\ \A op \in ToSet(h.ops) : op \in MarkOp
  BY <1>1 DEF ToSet
<1> QED BY <1>1, <1>2, <1>3, NumsAreNumbers DEF IsHeader, MarkKinds

-----------------------------------------------------------------------------
(* Type correctness *)

StreamTypes ==
  /\ scenario \in Scenarios /\ enc \in Encoder /\ enc.uses = scenario.uses
  /\ buffered \in Seq(Headers) /\ Len(buffered) <= MaxDelay
  /\ todo \in Seq(Instructions(Headers))
  /\ Sound(ctx) /\ ctx.strict = scenario.strict

BufferTypes ==
  /\ DOMAIN slotOf \subseteq Nat
  /\ content \in [Slots -> Pics \cup {NoPic}]
  /\ inFlight \in Seq(BOOLEAN) /\ Len(inFlight) <= MaxInFlight
  /\ decodeFailed \in BOOLEAN /\ following \in BOOLEAN

\* The flag for a corrupted state is not about references.
LEMMA CorruptedSound ==
  ASSUME NEW c, Sound(c)
  PROVE  /\ Sound([c EXCEPT !.corrupted = TRUE])
         /\ Refs([c EXCEPT !.corrupted = TRUE]) = Refs(c)
         /\ [c EXCEPT !.corrupted = TRUE].strict = c.strict
<1> DEFINE d == [c EXCEPT !.corrupted = TRUE]
<1>1. c \in Context /\ c.nextId \in Nat
  BY ContextFields DEF Sound
<1>2. d \in Context /\ d.short = c.short /\ d.long = c.long /\ d.nextId = c.nextId /\ d.strict = c.strict
  BY <1>1 DEF Context
<1> HIDE DEF d
<1>3. c.nextId <= d.nextId
  BY <1>1, <1>2
<1>4. Sound(d) /\ Refs(d) = Refs(c)
  BY <1>2, <1>3, SameReferences
<1> QED BY <1>2, <1>4 DEF d

\* Where an event starts.
From == IF decodeFailed THEN [ctx EXCEPT !.corrupted = TRUE] ELSE ctx

LEMMA FromIsSound ==
  ASSUME Sound(ctx)
  PROVE  Sound(From) /\ Refs(From) = Refs(ctx) /\ From.strict = ctx.strict
BY CorruptedSound DEF From

\* What an event makes of the access units.
LEMMA EventCompiles ==
  ASSUME StreamTypes, NEW aus \in Seq(Headers), ProcessEvent(aus)
  PROVE  LET r == Compile(From, aus)
         IN  /\ todo = <<>> /\ ctx' = r.ctx /\ todo' = r.instructions
             /\ following' = (following /\ ~decodeFailed /\ r.ok) /\ decodeFailed' = FALSE
             /\ UNCHANGED <<scenario, active, slotOf, content, inFlight>>
             /\ Sound(r.ctx) /\ r.ctx.strict = ctx.strict
             /\ r.instructions \in Seq(Instructions(Headers)) /\ r.ok \in BOOLEAN
             /\ r.ok => Leads(r.instructions, Refs(ctx), Refs(r.ctx))
             /\ ~r.ok => r.instructions = <<>>
<1> DEFINE r == Compile(From, aus)
<1>1. /\ todo = <<>> /\ ctx' = r.ctx /\ todo' = r.instructions
      /\ following' = (following /\ ~decodeFailed /\ r.ok) /\ decodeFailed' = FALSE
      /\ UNCHANGED <<scenario, active, slotOf, content, inFlight>>
  BY DEF ProcessEvent, dpbVars, From
<1>2. Sound(From) /\ Refs(From) = Refs(ctx) /\ From.strict = ctx.strict
  BY FromIsSound DEF StreamTypes
<1>3. r \in CompiledFrom(From, Headers)
  BY <1>2, HeadersAreParsed, CompileCompiles
<1> HIDE DEF r
<1>4. /\ Sound(r.ctx) /\ r.ctx.strict = From.strict /\ r.instructions \in Seq(Instructions(Headers))
      /\ r.ok \in BOOLEAN /\ (r.ok => Leads(r.instructions, Refs(From), Refs(r.ctx)))
      /\ (~r.ok => r.instructions = <<>>)
  BY <1>3, CompiledFields
<1>5. /\ Sound(r.ctx) /\ r.ctx.strict = ctx.strict /\ r.instructions \in Seq(Instructions(Headers))
      /\ r.ok \in BOOLEAN /\ (r.ok => Leads(r.instructions, Refs(ctx), Refs(r.ctx)))
      /\ (~r.ok => r.instructions = <<>>)
  BY <1>2, <1>4
<1> QED BY <1>1, <1>5 DEF r

LEMMA EventTypes ==
  ASSUME StreamTypes, NEW aus \in Seq(Headers), ProcessEvent(aus)
  PROVE  /\ scenario' = scenario /\ todo' \in Seq(Instructions(Headers))
         /\ Sound(ctx') /\ ctx'.strict = scenario.strict
         /\ UNCHANGED <<slotOf, content, inFlight>>
         /\ decodeFailed' \in BOOLEAN /\ following' \in BOOLEAN
<1> DEFINE r == Compile(From, aus)
<1>1. /\ ctx' = r.ctx /\ todo' = r.instructions
      /\ following' = (following /\ ~decodeFailed /\ r.ok) /\ decodeFailed' = FALSE
      /\ UNCHANGED <<scenario, active, slotOf, content, inFlight>>
      /\ Sound(r.ctx) /\ r.ctx.strict = ctx.strict
      /\ r.instructions \in Seq(Instructions(Headers))
  BY EventCompiles
<1> HIDE DEF r
<1> QED BY <1>1 DEF StreamTypes

\* The access units of a chunk: those held back, and the one that comes out of the splitters.
LEMMA ChunkSplit ==
  ASSUME NEW s \in Seq(Headers), NEW h \in Headers, Len(s) <= MaxDelay
  PROVE  LET held == Append(s, h)
             out  == IF Len(held) > MaxDelay THEN 1 ELSE 0
         IN  /\ held \in Seq(Headers) /\ out \in 0 .. Len(held)
             /\ SubSeq(held, 1, out) \in Seq(Headers)
             /\ SubSeq(held, out + 1, Len(held)) \in Seq(Headers)
             /\ Len(SubSeq(held, out + 1, Len(held))) <= MaxDelay
<1> DEFINE held == Append(s, h)
           out  == IF Len(held) > MaxDelay THEN 1 ELSE 0
<1>1. held \in Seq(Headers) /\ Len(held) = Len(s) + 1 /\ Len(s) \in Nat /\ MaxDelay \in Nat
  BY DecoderAssumption
<1> HIDE DEF held
<1>2. out \in 0 .. Len(held) /\ Len(held) - out <= MaxDelay /\ out + 1 \in 1 .. Len(held) + 1
  BY <1>1
<1> HIDE DEF out
<1>3. /\ SubSeq(held, 1, out) \in Seq(Headers)
      /\ SubSeq(held, out + 1, Len(held)) \in Seq(Headers)
  BY <1>1, <1>2
<1>4. Len(SubSeq(held, out + 1, Len(held))) = Len(held) - out
  BY <1>1, <1>2
<1> QED BY <1>1, <1>2, <1>3, <1>4 DEF held, out

LEMMA DecodeTypes ==
  ASSUME BufferTypes, Len(inFlight) < MaxInFlight, NEW i \in Instructions(Headers), i.op # "Drop",
         NEW used, NEW map, DOMAIN map \subseteq Nat, NEW pics \in [Slots -> Pics \cup {NoPic}],
         DoDecode(i, used, map, pics)
  PROVE  /\ DOMAIN slotOf' \subseteq Nat /\ content' \in [Slots -> Pics \cup {NoPic}]
         /\ inFlight' \in Seq(BOOLEAN) /\ Len(inFlight') <= MaxInFlight
         /\ following' \in BOOLEAN
         /\ todo' = <<>> \/ todo' = Tail(todo)
<1>1. i.id \in Nat /\ i.of.pic \in Pics
  BY DEF Instructions, Headers
<1>2. inFlight \in Seq(BOOLEAN) /\ Len(inFlight) <= MaxInFlight /\ Len(inFlight) \in Nat /\ MaxInFlight \in Nat
  BY DecoderAssumption DEF BufferTypes
<1>3. \A f \in BOOLEAN : Append(inFlight, f) \in Seq(BOOLEAN) /\ Len(Append(inFlight, f)) <= MaxInFlight
  BY <1>2
<1>4. ASSUME slotOf' = map, content' = pics, Abandon
      PROVE  /\ DOMAIN slotOf' \subseteq Nat /\ content' \in [Slots -> Pics \cup {NoPic}]
             /\ inFlight' \in Seq(BOOLEAN) /\ Len(inFlight') <= MaxInFlight
             /\ following' \in BOOLEAN
             /\ todo' = <<>> \/ todo' = Tail(todo)
  BY <1>2, <1>4 DEF Abandon
<1>5. ASSUME slotOf' = [id \in DOMAIN map \cup {i.id} |->
                          IF id = i.id THEN MinFree(used) ELSE map[id]],
             content' = [pics EXCEPT ![MinFree(used)] = i.of.pic], todo' = Tail(todo),
             NEW failed \in IF scenario.fails THEN BOOLEAN ELSE {FALSE},
             inFlight' = Append(inFlight, failed),
             following' = ((following \/ i.op = "Idr") /\ i.of.whole /\ ~failed)
      PROVE  /\ DOMAIN slotOf' \subseteq Nat /\ content' \in [Slots -> Pics \cup {NoPic}]
             /\ inFlight' \in Seq(BOOLEAN) /\ Len(inFlight') <= MaxInFlight
             /\ following' \in BOOLEAN
             /\ todo' = <<>> \/ todo' = Tail(todo)
  <2>1. DOMAIN slotOf' = DOMAIN map \cup {i.id}
    BY <1>5
  <2>2. content' \in [Slots -> Pics \cup {NoPic}]
    BY <1>1, <1>5
  <2>3. failed \in BOOLEAN
    OBVIOUS
  <2>4. following' \in BOOLEAN
    BY <1>5
  <2> QED BY <1>1, <1>3, <1>5, <2>1, <2>2, <2>3, <2>4
<1> QED BY <1>4, <1>5 DEF DoDecode

LEMMA DropTypes ==
  ASSUME BufferTypes, NEW i, DoDrop(i)
  PROVE  /\ DOMAIN slotOf' \subseteq Nat /\ content' \in [Slots -> Pics \cup {NoPic}]
         /\ inFlight' \in Seq(BOOLEAN) /\ Len(inFlight') <= MaxInFlight
         /\ following' \in BOOLEAN
         /\ todo' = <<>> \/ todo' = Tail(todo)
<1>1. PICK gone, freed :
        /\ slotOf' = [id \in DOMAIN slotOf \ gone |-> slotOf[id]]
        /\ content' = [s \in Slots |-> IF s \in freed THEN NoPic ELSE content[s]]
  BY DEF DoDrop
<1>2. content' \in [Slots -> Pics \cup {NoPic}]
  BY <1>1 DEF BufferTypes
<1>3. /\ inFlight' = inFlight /\ (following' = following \/ following' = FALSE)
      /\ todo' = <<>> \/ todo' = Tail(todo)
  BY DEF DoDrop, Abandon
<1> QED BY <1>1, <1>2, <1>3 DEF BufferTypes

LEMMA ExecuteTypes ==
  ASSUME StreamTypes, BufferTypes, Execute
  PROVE  StreamTypes' /\ BufferTypes'
<1> DEFINE i == Head(todo)
           none == [s \in Slots |-> NoPic]
<1>1. /\ todo # <<>> /\ Len(inFlight) < MaxInFlight
      /\ \/ i.op = "Idr" /\ DoDecode(i, {}, <<>>, none)
         \/ i.op = "Decode" /\ DoDecode(i, active, slotOf, content)
         \/ i.op = "Drop" /\ DoDrop(i)
      /\ UNCHANGED <<scenario, enc, buffered, ctx, decodeFailed>>
  BY DEF Execute
<1>2. i \in Instructions(Headers) /\ Tail(todo) \in Seq(Instructions(Headers))
  BY <1>1 DEF StreamTypes
<1>3. none \in [Slots -> Pics \cup {NoPic}] /\ DOMAIN <<>> \subseteq Nat
  OBVIOUS
<1>4. DOMAIN slotOf \subseteq Nat /\ content \in [Slots -> Pics \cup {NoPic}]
  BY DEF BufferTypes
<1> HIDE DEF i, none
<1> DEFINE Goal == /\ DOMAIN slotOf' \subseteq Nat /\ content' \in [Slots -> Pics \cup {NoPic}]
                   /\ inFlight' \in Seq(BOOLEAN) /\ Len(inFlight') <= MaxInFlight
                   /\ following' \in BOOLEAN
                   /\ todo' = <<>> \/ todo' = Tail(todo)
<1>5. ASSUME i.op = "Idr", DoDecode(i, {}, <<>>, none) PROVE Goal
  BY <1>1, <1>2, <1>3, <1>5, DecodeTypes
<1>6. ASSUME i.op = "Decode", DoDecode(i, active, slotOf, content) PROVE Goal
  BY <1>1, <1>2, <1>4, <1>6, DecodeTypes
<1>7. ASSUME i.op = "Drop", DoDrop(i) PROVE Goal
  BY <1>7, DropTypes
<1>8. Goal
  BY <1>1, <1>5, <1>6, <1>7
<1>9. <<>> \in Seq(Instructions(Headers))
  OBVIOUS
<1> QED BY <1>1, <1>2, <1>8, <1>9 DEF StreamTypes, BufferTypes

LEMMA InitTypes == Init => StreamTypes /\ BufferTypes
<1> SUFFICES ASSUME Init PROVE StreamTypes /\ BufferTypes
  OBVIOUS
<1>1. /\ scenario \in Scenarios /\ enc = FreshEncoder(scenario.uses) /\ ctx = FreshContext(scenario.strict)
      /\ buffered = <<>> /\ todo = <<>> /\ inFlight = <<>> /\ slotOf = <<>>
      /\ content = [s \in Slots |-> NoPic] /\ decodeFailed = FALSE /\ following = FALSE
  BY DEF Init
<1>2. scenario.strict \in BOOLEAN /\ scenario.uses \in Features
  BY <1>1, DecoderAssumption
<1>3. enc \in Encoder /\ enc.uses = scenario.uses
  <2>1. FreshEncoder(scenario.uses).uses = scenario.uses
    BY DEF FreshEncoder
  <2> QED BY <1>1, <1>2, <2>1, FreshEncoderType
<1>4. Sound(ctx) /\ ctx.strict = scenario.strict
  BY <1>1, <1>2, FreshIsSound
<1>5. /\ <<>> \in Seq(Headers) /\ <<>> \in Seq(Instructions(Headers)) /\ <<>> \in Seq(BOOLEAN)
      /\ Len(<<>>) = 0 /\ DOMAIN <<>> = {}
  OBVIOUS
<1>6. StreamTypes
  BY <1>1, <1>3, <1>4, <1>5, DecoderAssumption DEF StreamTypes
<1>7. content \in [Slots -> Pics \cup {NoPic}]
  BY <1>1
<1>8. BufferTypes
  <2>1. inFlight \in Seq(BOOLEAN) /\ Len(inFlight) = 0 /\ DOMAIN slotOf = {} /\ MaxInFlight \in Nat
    BY <1>1, <1>5, DecoderAssumption
  <2>2. 0 <= MaxInFlight
    BY <2>1
  <2> QED BY <1>1, <1>7, <2>1, <2>2 DEF BufferTypes
<1> QED BY <1>6, <1>8

LEMMA FreshPicIsPic == FreshPics \subseteq Pics
BY DEF FreshPics

LEMMA DecodeChunkTypes ==
  ASSUME StreamTypes, BufferTypes, DecodeChunk
  PROVE  StreamTypes' /\ BufferTypes'
<1>1. PICK pic \in FreshPics : \E e \in Pictures(enc, pic) :
        LET held == Append(buffered, e.h)
            out  == IF Len(held) > MaxDelay THEN 1 ELSE 0
        IN  /\ ProcessEvent(SubSeq(held, 1, out))
            /\ buffered' = SubSeq(held, out + 1, Len(held))
            /\ enc' = e.enc
  BY DEF DecodeChunk
<1>9. PICK e \in Pictures(enc, pic) :
        LET held == Append(buffered, e.h)
            out  == IF Len(held) > MaxDelay THEN 1 ELSE 0
        IN  /\ ProcessEvent(SubSeq(held, 1, out))
            /\ buffered' = SubSeq(held, out + 1, Len(held))
            /\ enc' = e.enc
  BY <1>1
<1> DEFINE held == Append(buffered, e.h)
           out  == IF Len(held) > MaxDelay THEN 1 ELSE 0
<1>2. /\ ProcessEvent(SubSeq(held, 1, out))
      /\ buffered' = SubSeq(held, out + 1, Len(held)) /\ enc' = e.enc
  BY <1>9
<1>3. e.h \in Headers /\ e.enc \in Encoder /\ e.enc.uses = enc.uses
  BY FreshPicIsPic, PicturesType DEF StreamTypes
<1>4. /\ SubSeq(held, 1, out) \in Seq(Headers) /\ SubSeq(held, out + 1, Len(held)) \in Seq(Headers)
      /\ Len(SubSeq(held, out + 1, Len(held))) <= MaxDelay
  BY <1>3, ChunkSplit DEF StreamTypes
<1> HIDE DEF held, out
<1>5. /\ scenario' = scenario /\ todo' \in Seq(Instructions(Headers))
      /\ Sound(ctx') /\ ctx'.strict = scenario.strict
      /\ UNCHANGED <<slotOf, content, inFlight>>
      /\ decodeFailed' \in BOOLEAN /\ following' \in BOOLEAN
  BY <1>2, <1>4, EventTypes
<1> QED BY <1>2, <1>3, <1>4, <1>5 DEF StreamTypes, BufferTypes

LEMMA FlushTypes ==
  ASSUME StreamTypes, BufferTypes, Flush
  PROVE  StreamTypes' /\ BufferTypes'
<1>1. ProcessEvent(buffered) /\ buffered' = <<>> /\ enc' = enc
  BY DEF Flush
<1>2. /\ scenario' = scenario /\ todo' \in Seq(Instructions(Headers))
      /\ Sound(ctx') /\ ctx'.strict = scenario.strict
      /\ UNCHANGED <<slotOf, content, inFlight>>
      /\ decodeFailed' \in BOOLEAN /\ following' \in BOOLEAN
  BY <1>1, EventTypes DEF StreamTypes
<1>3. buffered' \in Seq(Headers) /\ Len(buffered') <= MaxDelay
  BY <1>1, DecoderAssumption
<1> QED BY <1>1, <1>2, <1>3 DEF StreamTypes, BufferTypes

LEMMA NextTypes ==
  ASSUME StreamTypes, BufferTypes, [Next]_vars
  PROVE  StreamTypes' /\ BufferTypes'
<1>1. ASSUME LosePicture PROVE StreamTypes' /\ BufferTypes'
  <2>1. /\ \E pic \in FreshPics : enc' \in Losses(enc, pic)
        /\ \/ ctx' = ctx /\ decodeFailed' = decodeFailed /\ following' = following
           \/ ctx' = [ctx EXCEPT !.corrupted = TRUE] /\ decodeFailed' = FALSE /\ following' = FALSE
        /\ UNCHANGED <<scenario, buffered, todo, slotOf, content, inFlight>>
    BY <1>1 DEF LosePicture, dpbVars
  <2>2. enc' \in Encoder /\ enc'.uses = enc.uses
    BY <2>1, FreshPicIsPic, LossesType DEF StreamTypes
  <2>3. Sound(ctx') /\ ctx'.strict = ctx.strict
    BY <2>1, CorruptedSound DEF StreamTypes
  <2> QED BY <2>1, <2>2, <2>3 DEF StreamTypes, BufferTypes
<1>2. ASSUME SkipPicture PROVE StreamTypes' /\ BufferTypes'
  <2>1. CanSkip(enc) /\ enc' = Skipped(enc)
        /\ UNCHANGED <<scenario, buffered, ctx, todo, slotOf, content, inFlight, decodeFailed, following>>
    BY <1>2 DEF SkipPicture, dpbVars
  <2>2. enc' \in Encoder /\ enc'.uses = enc.uses
    BY <2>1, SkippedType DEF StreamTypes
  <2> QED BY <2>1, <2>2 DEF StreamTypes, BufferTypes
<1>3. ASSUME ResultKnown PROVE StreamTypes' /\ BufferTypes'
  <2>1. /\ inFlight # <<>> /\ inFlight' = Tail(inFlight) /\ decodeFailed' = (decodeFailed \/ Head(inFlight))
        /\ UNCHANGED <<scenario, enc, buffered, ctx, todo, slotOf, content, following>>
    BY <1>3 DEF ResultKnown, dpbVars
  <2>2. inFlight' \in Seq(BOOLEAN) /\ Len(inFlight') <= MaxInFlight
    <3>1. inFlight \in Seq(BOOLEAN) /\ Len(inFlight) <= MaxInFlight
      BY DEF BufferTypes
    <3>2. \A q \in Seq(BOOLEAN) : q # <<>> => /\ Tail(q) \in Seq(BOOLEAN) /\ Len(q) \in Nat
                                              /\ Len(Tail(q)) = Len(q) - 1
      OBVIOUS
    <3>3. inFlight' \in Seq(BOOLEAN) /\ Len(inFlight') = Len(inFlight) - 1 /\ Len(inFlight) \in Nat
      BY <2>1, <3>1, <3>2
    <3>4. MaxInFlight \in Nat
      BY DecoderAssumption
    <3> QED BY <3>1, <3>3, <3>4
  <2>3. decodeFailed' \in BOOLEAN
    BY <2>1
  <2> QED BY <2>1, <2>2, <2>3 DEF StreamTypes, BufferTypes
<1>4. ASSUME UNCHANGED vars PROVE StreamTypes' /\ BufferTypes'
  <2>1. UNCHANGED <<scenario, enc, buffered, ctx, todo, slotOf, content, inFlight, decodeFailed, following>>
    BY <1>4 DEF vars
  <2> QED BY <2>1 DEF StreamTypes, BufferTypes
<1> QED BY <1>1, <1>2, <1>3, <1>4, DecodeChunkTypes, FlushTypes, ExecuteTypes DEF Next

(* The types of the decoder's variables, for any bounds: a reference has a *)
(* slot there is, a slot holds a picture of the stream, and neither the    *)
(* splitters nor the waiter thread hold more than they may.                *)
THEOREM TypeCorrect == Spec => []TypeOK
<1>1. IInv /\ StreamTypes /\ BufferTypes => TypeOK
  BY DEF IInv, StreamTypes, BufferTypes, TypeOK
<1> QED BY InitIInv, NextIInv, InitTypes, NextTypes, <1>1, PTL DEF Spec

-----------------------------------------------------------------------------
(* The buffer and the references of the manager *)

\* What is still to execute leads from what is decoded to the references of the manager.  Off the
\* track, what is decoded stands for any K: the next IDR picture starts over.
OnTrack(ins, ids, refs, on) == \E K : Leads(ins, K, refs) /\ (on => K = ids)

Mirror ==
  /\ OnTrack(todo, DOMAIN slotOf, Refs(ctx), following)
  /\ following => active = {slotOf[id] : id \in DOMAIN slotOf}

LEMMA OnTrackAnyway ==
  ASSUME NEW ids, NEW c, Sound(c)
  PROVE  OnTrack(<<>>, ids, Refs(c), FALSE)
<1>1. Leads(<<>>, Refs(c), Refs(c))
  BY RefsAreNumbers, NothingLeads
<1> QED BY <1>1 DEF OnTrack

\* Between two events of a stream that is followed.
LEMMA NothingToDo ==
  ASSUME NEW ids, NEW refs, NEW on, OnTrack(<<>>, ids, refs, on), on
  PROVE  ids = refs
BY NothingLeadsBack DEF OnTrack

\* A new event starts from the references of the last one.
LEMMA EventMirrors ==
  ASSUME StreamTypes, Mirror, NEW aus \in Seq(Headers), ProcessEvent(aus)
  PROVE  Mirror'
<1> DEFINE r == Compile(From, aus)
<1>1. /\ todo = <<>> /\ ctx' = r.ctx /\ todo' = r.instructions
      /\ following' = (following /\ ~decodeFailed /\ r.ok)
      /\ active' = active /\ slotOf' = slotOf
      /\ Sound(r.ctx) /\ r.ok \in BOOLEAN
      /\ r.ok => Leads(r.instructions, Refs(ctx), Refs(r.ctx))
      /\ ~r.ok => r.instructions = <<>>
  BY EventCompiles
<1> HIDE DEF r
<1>2. OnTrack(todo', DOMAIN slotOf', Refs(ctx'), following')
  <2>1. CASE ~r.ok
    <3>1. OnTrack(<<>>, DOMAIN slotOf, Refs(r.ctx), FALSE)
      BY <1>1, OnTrackAnyway
    <3> QED BY <1>1, <2>1, <3>1 DEF OnTrack
  <2>2. CASE r.ok
    <3>1. following => DOMAIN slotOf = Refs(ctx)
      BY <1>1, NothingToDo DEF Mirror
    <3>2. Leads(todo', Refs(ctx), Refs(ctx')) /\ (following' => Refs(ctx) = DOMAIN slotOf')
      BY <1>1, <2>2, <3>1
    <3> QED BY <3>2 DEF OnTrack
  <2> QED BY <2>1, <2>2
<1>3. following' => active' = {slotOf'[id] : id \in DOMAIN slotOf'}
  BY <1>1 DEF Mirror
<1> QED BY <1>2, <1>3 DEF Mirror

LEMMA InitMirrors == Init => Mirror
<1> SUFFICES ASSUME Init PROVE Mirror
  OBVIOUS
<1>1. todo = <<>> /\ following = FALSE
  BY DEF Init
<1>2. Sound(ctx)
  BY InitTypes DEF StreamTypes
<1> QED BY <1>1, <1>2, OnTrackAnyway DEF Mirror

-----------------------------------------------------------------------------
(* The steps *)

LEMMA DecodeChunkMirrors ==
  ASSUME StreamTypes, Mirror, DecodeChunk
  PROVE  Mirror'
<1>1. PICK pic \in FreshPics : \E e \in Pictures(enc, pic) :
        LET held == Append(buffered, e.h)
            out  == IF Len(held) > MaxDelay THEN 1 ELSE 0
        IN  ProcessEvent(SubSeq(held, 1, out))
  BY DEF DecodeChunk
<1>2. PICK e \in Pictures(enc, pic) :
        LET held == Append(buffered, e.h)
            out  == IF Len(held) > MaxDelay THEN 1 ELSE 0
        IN  ProcessEvent(SubSeq(held, 1, out))
  BY <1>1
<1>3. e.h \in Headers
  BY FreshPicIsPic, PicturesType DEF StreamTypes
<1> DEFINE held == Append(buffered, e.h)
           out  == IF Len(held) > MaxDelay THEN 1 ELSE 0
<1>4. SubSeq(held, 1, out) \in Seq(Headers)
  BY <1>3, ChunkSplit DEF StreamTypes
<1> QED BY <1>2, <1>4, EventMirrors

\* What is signalled as lost is not followed; what is not, will be refused or is no reference.
LEMMA LosePictureMirrors ==
  ASSUME StreamTypes', Mirror, LosePicture
  PROVE  Mirror'
<1>1. todo = <<>> /\ todo' = todo /\ active' = active /\ slotOf' = slotOf
  BY DEF LosePicture, dpbVars
<1>2. \/ ctx' = ctx /\ following' = following
      \/ ctx' = [ctx EXCEPT !.corrupted = TRUE] /\ following' = FALSE
  BY DEF LosePicture
<1>3. Sound(ctx')
  BY DEF StreamTypes
<1>4. CASE ctx' = ctx /\ following' = following
  BY <1>1, <1>4 DEF Mirror
<1>5. CASE ctx' = [ctx EXCEPT !.corrupted = TRUE] /\ following' = FALSE
  <2>1. OnTrack(<<>>, DOMAIN slotOf', Refs(ctx'), FALSE)
    BY <1>3, OnTrackAnyway
  <2> QED BY <1>1, <1>5, <2>1 DEF Mirror
<1> QED BY <1>2, <1>4, <1>5

\* The next of the instructions: what is decoded stays what the rest starts from.
LEMMA ExecutedMirrors ==
  ASSUME Sound(ctx'), NEW M, NEW rest, Leads(rest, M, Refs(ctx')),
         \/ todo' = <<>> /\ following' = FALSE
         \/ /\ todo' = rest
            /\ following' => /\ DOMAIN slotOf' = M
                             /\ active' = {slotOf'[id] : id \in DOMAIN slotOf'}
  PROVE  Mirror'
<1>1. CASE todo' = <<>> /\ following' = FALSE
  <2>1. OnTrack(<<>>, DOMAIN slotOf', Refs(ctx'), FALSE)
    BY OnTrackAnyway
  <2> QED BY <1>1, <2>1 DEF Mirror
<1>2. CASE /\ todo' = rest
           /\ following' => /\ DOMAIN slotOf' = M
                            /\ active' = {slotOf'[id] : id \in DOMAIN slotOf'}
  BY <1>2 DEF Mirror, OnTrack
<1> QED BY <1>1, <1>2

\* A picture is decoded into the buffer.
LEMMA DecodedMirrors ==
  ASSUME NEW i, NEW used, NEW map, NEW pics, DoDecode(i, used, map, pics)
  PROVE  \/ todo' = <<>> /\ following' = FALSE
         \/ /\ todo' = Tail(todo)
            /\ following' => following \/ i.op = "Idr"
            /\ DOMAIN slotOf' = DOMAIN map \cup {i.id}
            /\ (i.id \notin DOMAIN map /\ used = {map[id] : id \in DOMAIN map})
                 => active' = {slotOf'[id] : id \in DOMAIN slotOf'}
<1> DEFINE slot   == MinFree(used)
           longer == [id \in DOMAIN map \cup {i.id} |-> IF id = i.id THEN slot ELSE map[id]]
<1> HIDE DEF slot
<1>1. \/ todo' = <<>> /\ following' = FALSE
      \/ /\ active' = used \cup {slot} /\ slotOf' = longer /\ todo' = Tail(todo)
         /\ following' => following \/ i.op = "Idr"
  BY DEF DoDecode, Abandon, slot
<1>2. ASSUME slotOf' = longer, active' = used \cup {slot}
      PROVE  /\ DOMAIN slotOf' = DOMAIN map \cup {i.id}
             /\ (i.id \notin DOMAIN map /\ used = {map[id] : id \in DOMAIN map})
                  => active' = {slotOf'[id] : id \in DOMAIN slotOf'}
  <2>1. /\ DOMAIN slotOf' = DOMAIN map \cup {i.id}
        /\ \A id \in DOMAIN slotOf' : slotOf'[id] = IF id = i.id THEN slot ELSE map[id]
    BY <1>2
  <2>2. ASSUME i.id \notin DOMAIN map, used = {map[id] : id \in DOMAIN map}
        PROVE  active' = {slotOf'[id] : id \in DOMAIN slotOf'}
    <3>1. \A s \in active' : \E id \in DOMAIN slotOf' : s = slotOf'[id]
      BY <1>2, <2>1, <2>2
    <3>2. \A id \in DOMAIN slotOf' : slotOf'[id] \in active'
      BY <1>2, <2>1, <2>2
    <3> QED BY <3>1, <3>2
  <2> QED BY <2>1, <2>2
<1> QED BY <1>1, <1>2

\* References are dropped: all of them are known, so each loses its slot, and no other one does.
LEMMA DroppedMirrors ==
  ASSUME IInv, NEW i, i.ids \in Seq(Nat), DoDrop(i), ToSet(i.ids) \subseteq DOMAIN slotOf
  PROVE  /\ todo' = Tail(todo) /\ following' = following
         /\ DOMAIN slotOf' = DOMAIN slotOf \ ToSet(i.ids)
         /\ active = {slotOf[id] : id \in DOMAIN slotOf}
              => active' = {slotOf'[id] : id \in DOMAIN slotOf'}
<1> DEFINE gone  == {id \in DOMAIN slotOf :
                       \E n \in DOMAIN i.ids :
                         id = i.ids[n] /\ \A k \in 1 .. n : i.ids[k] \in DOMAIN slotOf}
           freed == {slotOf[id] : id \in gone}
<1>1. DOMAIN i.ids = 1 .. Len(i.ids) /\ Len(i.ids) \in Nat
  OBVIOUS
<1>2. \A y : y \in ToSet(i.ids) <=> \E n \in DOMAIN i.ids : y = i.ids[n]
  BY DEF ToSet
<1>3. gone = ToSet(i.ids)
  <2>1. \A n \in DOMAIN i.ids : i.ids[n] \in DOMAIN slotOf
    BY <1>2
  <2>2. \A n \in DOMAIN i.ids : \A k \in 1 .. n : k \in DOMAIN i.ids
    BY <1>1
  <2> QED BY <1>2, <2>1, <2>2
<1>4. /\ active' = active \ freed /\ slotOf' = [id \in DOMAIN slotOf \ gone |-> slotOf[id]]
      /\ todo' = Tail(todo) /\ following' = following
  BY DEF DoDrop
<1>5. \A s : s \in freed <=> \E id \in gone : s = slotOf[id]
  OBVIOUS
<1> HIDE DEF gone, freed
<1>6. /\ DOMAIN slotOf' = DOMAIN slotOf \ gone
      /\ \A id \in DOMAIN slotOf' : slotOf'[id] = slotOf[id]
  BY <1>4
<1>7. ASSUME active = {slotOf[id] : id \in DOMAIN slotOf}
      PROVE  active' = {slotOf'[id] : id \in DOMAIN slotOf'}
  <2>1. \A a, b \in DOMAIN slotOf : slotOf[a] = slotOf[b] => a = b
    BY DEF IInv, SlotsApart
  <2>2. gone \subseteq DOMAIN slotOf
    BY <1>3
  <2>3. \A s \in active' : \E id \in DOMAIN slotOf' : s = slotOf'[id]
    BY <1>4, <1>5, <1>6, <1>7
  <2>4. \A id \in DOMAIN slotOf' : slotOf'[id] \in active'
    BY <1>4, <1>5, <1>6, <1>7, <2>1, <2>2
  <2> QED BY <2>3, <2>4
<1> QED BY <1>3, <1>4, <1>6, <1>7

LEMMA ExecuteMirrors ==
  ASSUME IInv, StreamTypes, Mirror, Execute
  PROVE  Mirror'
<1> DEFINE i == Head(todo)
<1>1. /\ todo # <<>> /\ ctx' = ctx
      /\ \/ i.op = "Idr" /\ DoDecode(i, {}, <<>>, [s \in Slots |-> NoPic])
         \/ i.op = "Decode" /\ DoDecode(i, active, slotOf, content)
         \/ i.op = "Drop" /\ DoDrop(i)
  BY DEF Execute
<1>2. todo \in Seq(Instructions(Headers))
  BY DEF StreamTypes
<1>3. i \in Instructions(Headers)
  BY <1>1, <1>2
<1>4. i.op = "Drop" => i.ids \in Seq(Nat)
  BY <1>3 DEF Instructions
<1>5. PICK K : Leads(todo, K, Refs(ctx)) /\ (following => K = DOMAIN slotOf)
  BY DEF Mirror, OnTrack
<1>6. PICK M \in RefSets : Effect(i, K, M) /\ Leads(Tail(todo), M, Refs(ctx))
  BY <1>1, <1>2, <1>5, LeadsFirst
<1> HIDE DEF i
<1>7. following => active = {slotOf[id] : id \in DOMAIN slotOf}
  BY DEF Mirror
<1>8. \/ todo' = <<>> /\ following' = FALSE
      \/ /\ todo' = Tail(todo)
         /\ following' => /\ DOMAIN slotOf' = M
                          /\ active' = {slotOf'[id] : id \in DOMAIN slotOf'}
  <2>1. CASE i.op = "Idr" /\ DoDecode(i, {}, <<>>, [s \in Slots |-> NoPic])
    <3>1. M = {i.id}
      BY <1>6, <2>1 DEF Effect
    <3>2. DOMAIN <<>> = {} /\ {} = {<<>>[id] : id \in DOMAIN <<>>}
      OBVIOUS
    <3>3. \/ todo' = <<>> /\ following' = FALSE
          \/ /\ todo' = Tail(todo)
             /\ DOMAIN slotOf' = DOMAIN <<>> \cup {i.id}
             /\ (i.id \notin DOMAIN <<>> /\ {} = {<<>>[id] : id \in DOMAIN <<>>})
                  => active' = {slotOf'[id] : id \in DOMAIN slotOf'}
      BY <2>1, DecodedMirrors
    <3> QED BY <3>1, <3>2, <3>3
  <2>2. CASE i.op = "Decode" /\ DoDecode(i, active, slotOf, content)
    <3>1. i.id \notin K /\ M = K \cup {i.id}
      BY <1>6, <2>2 DEF Effect
    <3>2. \/ todo' = <<>> /\ following' = FALSE
          \/ /\ todo' = Tail(todo)
             /\ following' => following
             /\ DOMAIN slotOf' = DOMAIN slotOf \cup {i.id}
             /\ (i.id \notin DOMAIN slotOf /\ active = {slotOf[id] : id \in DOMAIN slotOf})
                  => active' = {slotOf'[id] : id \in DOMAIN slotOf'}
      BY <2>2, DecodedMirrors
    <3> QED BY <1>5, <1>7, <3>1, <3>2
  <2>3. CASE i.op = "Drop" /\ DoDrop(i)
    <3>1. ToSet(i.ids) \subseteq K /\ M = K \ ToSet(i.ids)
      BY <1>6, <2>3 DEF Effect
    <3>2. CASE ToSet(i.ids) \subseteq DOMAIN slotOf
      <4>1. /\ todo' = Tail(todo) /\ following' = following
            /\ DOMAIN slotOf' = DOMAIN slotOf \ ToSet(i.ids)
            /\ active = {slotOf[id] : id \in DOMAIN slotOf}
                 => active' = {slotOf'[id] : id \in DOMAIN slotOf'}
        BY <1>4, <2>3, <3>2, DroppedMirrors
      <4> QED BY <1>5, <1>7, <3>1, <4>1
    <3>3. CASE ~(ToSet(i.ids) \subseteq DOMAIN slotOf)
      BY <2>3, <3>3 DEF DoDrop, Abandon
    <3> QED BY <3>2, <3>3
  <2> QED BY <1>1, <2>1, <2>2, <2>3
<1>9. Sound(ctx') /\ Leads(Tail(todo), M, Refs(ctx'))
  BY <1>1, <1>6 DEF StreamTypes
<1> QED BY <1>8, <1>9, ExecutedMirrors

LEMMA NextMirrors ==
  ASSUME IInv, StreamTypes, StreamTypes', Mirror, [Next]_vars
  PROVE  Mirror'
<1>1. ASSUME SkipPicture \/ ResultKnown \/ UNCHANGED vars PROVE Mirror'
  <2>1. UNCHANGED <<ctx, todo, active, slotOf, following>>
    BY <1>1 DEF SkipPicture, ResultKnown, vars, dpbVars
  <2> QED BY <2>1 DEF Mirror
<1>2. ASSUME Flush PROVE Mirror'
  BY <1>2, EventMirrors DEF Flush, StreamTypes
<1> QED BY <1>1, <1>2, DecodeChunkMirrors, LosePictureMirrors, ExecuteMirrors DEF Next

(* Between two events of a stream that arrives whole, the buffer holds the *)
(* existing references of the reference manager and nothing else: the      *)
(* instructions a chunk is compiled into lead exactly from the one to the  *)
(* other, and are executed one by one.                                     *)
THEOREM BufferMirrorsReferencesCorrect == Spec => []BufferMirrorsReferences
<1>1. StreamTypes /\ Mirror => BufferMirrorsReferences
  <2> SUFFICES ASSUME StreamTypes, Mirror, following, todo = <<>>
               PROVE  DOMAIN slotOf = ExistingIds /\ active = {slotOf[id] : id \in DOMAIN slotOf}
    BY DEF BufferMirrorsReferences
  <2>1. DOMAIN slotOf = Refs(ctx)
    BY NothingToDo DEF Mirror
  <2>2. Refs(ctx) = ExistingIds
    BY RefsAreExisting DEF StreamTypes, Sound, ExistingIds
  <2> QED BY <2>1, <2>2 DEF Mirror
<1>2. Init => IInv /\ StreamTypes /\ BufferTypes /\ Mirror
  BY InitIInv, InitTypes, InitMirrors
<1>3. IInv /\ StreamTypes /\ BufferTypes /\ Mirror /\ [Next]_vars
        => (IInv /\ StreamTypes /\ BufferTypes /\ Mirror)'
  BY NextIInv, NextTypes, NextMirrors
<1> QED BY <1>1, <1>2, <1>3, PTL DEF Spec

-----------------------------------------------------------------------------
(* Runs *)

\* f has the states between the elements of s, each of which makes a step of R.
Run(f, R, X, s, x, y) ==
  /\ f \in [0 .. Len(s) -> X]
  /\ f[0] = x /\ f[Len(s)] = y
  /\ \A k \in 1 .. Len(s) : <<s[k], f[k - 1], f[k]>> \in R

Runs(R, X, s, x, y) == \E f : Run(f, R, X, s, x, y)

LEMMA NothingRuns ==
  ASSUME NEW R, NEW X, NEW x \in X
  PROVE  Runs(R, X, <<>>, x, x)
<1> DEFINE f == [k \in 0 .. 0 |-> x]
<1>1. f \in [0 .. 0 -> X] /\ f[0] = x
  BY ConstantFunction
<1> HIDE DEF f
<1>2. Len(<<>>) = 0 /\ 1 .. 0 = {}
  OBVIOUS
<1>3. Run(f, R, X, <<>>, x, x)
  BY <1>1, <1>2 DEF Run
<1> QED BY <1>3 DEF Runs

LEMMA NothingRunsBack ==
  ASSUME NEW R, NEW X, NEW x, NEW y, Runs(R, X, <<>>, x, y)
  PROVE  x = y
BY DEF Runs, Run

LEMMA OneRuns ==
  ASSUME NEW R, NEW X, NEW i, NEW x \in X, NEW y \in X, <<i, x, y>> \in R
  PROVE  Runs(R, X, <<i>>, x, y)
<1>1. PICK f \in [0 .. 1 -> X] : f[0] = x /\ f[1] = y
  BY TwoValues
<1>2. Len(<<i>>) = 1 /\ <<i>>[1] = i
  BY OneElement, Zenon
<1>3. \A k \in 1 .. 1 : <<<<i>>[k], f[k - 1], f[k]>> \in R
  <2> SUFFICES <<<<i>>[1], f[1 - 1], f[1]>> \in R
    OBVIOUS
  <2>1. f[1 - 1] = x
    BY <1>1
  <2> QED BY <1>1, <1>2, <2>1
<1>4. Run(f, R, X, <<i>>, x, y)
  BY <1>1, <1>2, <1>3 DEF Run
<1> QED BY <1>4 DEF Runs

LEMMA RunsOn ==
  ASSUME NEW R, NEW X, NEW I, NEW a \in Seq(I), NEW b \in Seq(I), NEW K, NEW M, NEW L,
         Runs(R, X, a, K, M), Runs(R, X, b, M, L)
  PROVE  Runs(R, X, a \o b, K, L)
<1>1. PICK f : Run(f, R, X, a, K, M)
  BY DEF Runs
<1>2. PICK g : Run(g, R, X, b, M, L)
  BY DEF Runs
<1> DEFINE m == Len(a)
           n == Len(b)
           ab == a \o b
           h == [k \in 0 .. m + n |-> IF k <= m THEN f[k] ELSE g[k - m]]
<1>3. m \in Nat /\ n \in Nat
  OBVIOUS
<1>4. /\ Len(ab) = m + n
      /\ \A k \in 1 .. m : ab[k] = a[k]
      /\ \A k \in 1 .. n : ab[m + k] = b[k]
  OBVIOUS
<1>5. /\ f \in [0 .. m -> X] /\ f[0] = K /\ f[m] = M
      /\ \A k \in 1 .. m : <<a[k], f[k - 1], f[k]>> \in R
  BY <1>1 DEF Run
<1>6. /\ g \in [0 .. n -> X] /\ g[0] = M /\ g[n] = L
      /\ \A k \in 1 .. n : <<b[k], g[k - 1], g[k]>> \in R
  BY <1>2 DEF Run
<1> HIDE DEF m, n, ab
<1>7. \A k \in 0 .. m : h[k] = f[k]
  BY <1>3
<1>8. \A k \in 0 .. n : h[m + k] = g[k]
  <2> TAKE k \in 0 .. n
  <2>1. m + k \in 0 .. m + n /\ m + k - m = k
    BY <1>3
  <2>2. CASE k = 0
    BY <1>3, <1>5, <1>6, <2>1, <2>2
  <2>3. CASE k # 0
    <3>1. ~(m + k <= m)
      BY <1>3, <2>3
    <3>2. h[m + k] = g[k]
      <4> DEFINE x == m + k
      <4>1. x \in 0 .. m + n /\ ~(x <= m) /\ x - m = k
        BY <1>3, <2>1, <3>1
      <4> HIDE DEF x
      <4>2. h[x] = g[x - m]
        BY <4>1
      <4>3. h[x] = g[k]
        BY <4>1, <4>2
      <4> QED BY <4>3 DEF x
    <3> QED BY <3>2
  <2> QED BY <2>2, <2>3
<1>9. h \in [0 .. m + n -> X]
  <2>1. ASSUME NEW k \in 0 .. m + n PROVE h[k] \in X
    <3>1. CASE k <= m
      <4>1. k \in 0 .. m
        BY <1>3, <3>1
      <4>2. h[k] = f[k]
        BY <1>7, <4>1
      <4> QED BY <1>5, <4>1, <4>2
    <3>2. CASE ~(k <= m)
      <4>1. k - m \in 0 .. n
        BY <1>3, <3>2
      <4>2. h[k] = g[k - m]
        BY <3>2
      <4> QED BY <1>6, <4>1, <4>2
    <3> QED BY <3>1, <3>2
  <2> QED BY <2>1
<1> HIDE DEF h
<1>10. h[0] = K /\ h[m + n] = L
  <2>1. 0 \in 0 .. m /\ n \in 0 .. n
    BY <1>3
  <2> QED BY <1>5, <1>6, <1>7, <1>8, <2>1
<1>11. ASSUME NEW k \in 1 .. m + n PROVE <<ab[k], h[k - 1], h[k]>> \in R
  <2>1. CASE k <= m
    <3>1. k \in 1 .. m /\ k \in 0 .. m /\ k - 1 \in 0 .. m
      BY <1>3, <2>1
    <3>2. ab[k] = a[k] /\ h[k - 1] = f[k - 1] /\ h[k] = f[k]
      BY <1>4, <1>7, <3>1
    <3> QED BY <1>5, <3>1, <3>2
  <2>2. CASE ~(k <= m)
    <3> DEFINE j == k - m
    <3>1. j \in 1 .. n /\ j \in 0 .. n /\ j - 1 \in 0 .. n /\ k = m + j /\ k - 1 = m + (j - 1)
      BY <1>3, <2>2
    <3> HIDE DEF j
    <3>2. ab[k] = b[j] /\ h[k - 1] = g[j - 1] /\ h[k] = g[j]
      BY <1>4, <1>8, <3>1
    <3> QED BY <1>6, <3>1, <3>2
  <2> QED BY <2>1, <2>2
<1>12. Run(h, R, X, ab, K, L)
  BY <1>4, <1>9, <1>10, <1>11 DEF Run
<1> QED BY <1>12 DEF Runs, ab

LEMMA RunsFirst ==
  ASSUME NEW R, NEW X, NEW I, NEW s \in Seq(I), s # <<>>, NEW K, NEW L, Runs(R, X, s, K, L)
  PROVE  \E M \in X : <<Head(s), K, M>> \in R /\ Runs(R, X, Tail(s), M, L)
<1>1. PICK f : Run(f, R, X, s, K, L)
  BY DEF Runs
<1> DEFINE n == Len(s)
           t == Tail(s)
           g == [k \in 0 .. n - 1 |-> f[k + 1]]
<1>2. n \in Nat /\ n >= 1 /\ Head(s) = s[1] /\ Len(t) = n - 1 /\ \A k \in 1 .. n - 1 : t[k] = s[k + 1]
  OBVIOUS
<1>3. /\ f \in [0 .. n -> X] /\ f[0] = K /\ f[n] = L
      /\ \A k \in 1 .. n : <<s[k], f[k - 1], f[k]>> \in R
  BY <1>1 DEF Run
<1> HIDE DEF n, t
<1>4. <<Head(s), K, f[1]>> \in R /\ f[1] \in X
  <2>1. 1 \in 1 .. n /\ 1 \in 0 .. n /\ 1 - 1 = 0
    BY <1>2
  <2>2. <<s[1], f[1 - 1], f[1]>> \in R
    BY <1>3, <2>1
  <2> QED BY <1>2, <1>3, <2>1, <2>2
<1>5. \A k \in 0 .. n - 1 : k + 1 \in 0 .. n /\ g[k] = f[k + 1]
  BY <1>2
<1>6. g \in [0 .. n - 1 -> X]
  BY <1>3, <1>5
<1> HIDE DEF g
<1>7. g[0] = f[1] /\ g[n - 1] = L
  <2>1. 0 \in 0 .. n - 1 /\ n - 1 \in 0 .. n - 1 /\ n - 1 + 1 = n /\ 0 + 1 = 1
    BY <1>2
  <2>2. g[0] = f[0 + 1] /\ g[n - 1] = f[n - 1 + 1]
    BY <1>5, <2>1
  <2> QED BY <1>3, <2>1, <2>2
<1>8. ASSUME NEW k \in 1 .. n - 1 PROVE <<t[k], g[k - 1], g[k]>> \in R
  <2>1. k + 1 \in 1 .. n /\ k \in 0 .. n - 1 /\ k - 1 \in 0 .. n - 1 /\ k - 1 + 1 = k /\ k + 1 - 1 = k
    BY <1>2
  <2>2. <<s[k + 1], f[k + 1 - 1], f[k + 1]>> \in R
    BY <1>3, <2>1
  <2>3. g[k - 1] = f[k] /\ g[k] = f[k + 1] /\ t[k] = s[k + 1]
    BY <1>2, <1>5, <2>1
  <2> QED BY <2>1, <2>2, <2>3
<1>9. Run(g, R, X, t, f[1], L)
  BY <1>2, <1>6, <1>7, <1>8 DEF Run
<1>10. Runs(R, X, t, f[1], L)
  BY <1>9 DEF Runs
<1> QED BY <1>4, <1>10 DEF t

\* The first n elements, and the others.
LEMMA RunsSplit ==
  ASSUME NEW R, NEW X, NEW I, NEW s \in Seq(I), NEW x, NEW y, Runs(R, X, s, x, y),
         NEW n \in 0 .. Len(s)
  PROVE  \E z \in X : /\ Runs(R, X, SubSeq(s, 1, n), x, z)
                      /\ Runs(R, X, SubSeq(s, n + 1, Len(s)), z, y)
<1>1. PICK f : Run(f, R, X, s, x, y)
  BY DEF Runs
<1> DEFINE l == Len(s)
           a == SubSeq(s, 1, n)
           b == SubSeq(s, n + 1, Len(s))
           g == [k \in 0 .. n |-> f[k]]
           h == [k \in 0 .. l - n |-> f[n + k]]
<1>2. l \in Nat /\ n \in Nat /\ n <= l
  OBVIOUS
<1>3. /\ Len(a) = n /\ Len(b) = l - n
      /\ \A k \in 1 .. n : a[k] = s[k]
      /\ \A k \in 1 .. l - n : b[k] = s[n + k]
  OBVIOUS
<1>4. /\ f \in [0 .. l -> X] /\ f[0] = x /\ f[l] = y
      /\ \A k \in 1 .. l : <<s[k], f[k - 1], f[k]>> \in R
  BY <1>1 DEF Run
<1> HIDE DEF l, a, b
<1>5. \A k \in 0 .. n : k \in 0 .. l /\ g[k] = f[k]
  BY <1>2
<1>6. \A k \in 0 .. l - n : n + k \in 0 .. l /\ h[k] = f[n + k]
  BY <1>2
<1>7. g \in [0 .. n -> X] /\ h \in [0 .. l - n -> X]
  BY <1>4, <1>5, <1>6
<1> HIDE DEF g, h
<1>8. Run(g, R, X, a, x, f[n])
  <2>1. 0 \in 0 .. n /\ n \in 0 .. n
    BY <1>2
  <2>2. g[0] = x /\ g[n] = f[n]
    BY <1>4, <1>5, <2>1
  <2>3. ASSUME NEW k \in 1 .. n PROVE <<a[k], g[k - 1], g[k]>> \in R
    <3>1. k \in 1 .. l /\ k \in 0 .. n /\ k - 1 \in 0 .. n
      BY <1>2
    <3> QED BY <1>3, <1>4, <1>5, <3>1
  <2> QED BY <1>3, <1>7, <2>2, <2>3 DEF Run
<1>9. Run(h, R, X, b, f[n], y)
  <2>1. 0 \in 0 .. l - n /\ l - n \in 0 .. l - n /\ n + 0 = n /\ n + (l - n) = l
    BY <1>2
  <2>2. h[0] = f[n] /\ h[l - n] = y
    BY <1>4, <1>6, <2>1
  <2>3. ASSUME NEW k \in 1 .. l - n PROVE <<b[k], h[k - 1], h[k]>> \in R
    <3>1. n + k \in 1 .. l /\ k \in 0 .. l - n /\ k - 1 \in 0 .. l - n /\ n + (k - 1) = n + k - 1
      BY <1>2
    <3>2. <<s[n + k], f[n + k - 1], f[n + k]>> \in R
      BY <1>4, <3>1
    <3> QED BY <1>3, <1>6, <3>1, <3>2
  <2> QED BY <1>3, <1>7, <2>2, <2>3 DEF Run
<1>10. f[n] \in X
  BY <1>2, <1>4
<1> QED BY <1>8, <1>9, <1>10 DEF Runs, a, b

-----------------------------------------------------------------------------
(* Frame numbers of the encoder *)

LEMMA ModIs ==
  ASSUME NEW x \in Int
  PROVE  /\ 0 <= x /\ x < MaxFrameNum => x % MaxFrameNum = x
         /\ -MaxFrameNum <= x /\ x < 0 => x % MaxFrameNum = x + MaxFrameNum
         /\ MaxFrameNum <= x /\ x < 2 * MaxFrameNum => x % MaxFrameNum = x - MaxFrameNum
<1>1. MaxFrameNum \in Int /\ MaxFrameNum > 0
  BY StreamAssumption
<1>2. x % MaxFrameNum \in 0 .. MaxFrameNum - 1 /\ x \div MaxFrameNum \in Int
  BY <1>1
<1>3. x = MaxFrameNum * (x \div MaxFrameNum) + (x % MaxFrameNum)
  BY <1>1
<1> DEFINE q == x \div MaxFrameNum
<1>4. \A k \in Int : /\ k >= 2 => MaxFrameNum * k >= 2 * MaxFrameNum
                     /\ k >= 1 => MaxFrameNum * k >= MaxFrameNum
                     /\ k <= -1 => MaxFrameNum * k <= -MaxFrameNum
                     /\ k <= -2 => MaxFrameNum * k <= -2 * MaxFrameNum
                     /\ k = 0 => MaxFrameNum * k = 0
                     /\ k = 1 => MaxFrameNum * k = MaxFrameNum
                     /\ k = -1 => MaxFrameNum * k = -MaxFrameNum
  BY <1>1
<1> DEFINE m == x % MaxFrameNum
           p == MaxFrameNum * q
<1>5. p \in Int /\ x = p + m /\ m \in 0 .. MaxFrameNum - 1 /\ q \in Int
  BY <1>1, <1>2, <1>3
<1>6. /\ q >= 2 => p >= 2 * MaxFrameNum
      /\ q >= 1 => p >= MaxFrameNum
      /\ q <= -1 => p <= -MaxFrameNum
      /\ q <= -2 => p <= -2 * MaxFrameNum
      /\ q = 0 => p = 0
      /\ q = 1 => p = MaxFrameNum
      /\ q = -1 => p = -MaxFrameNum
  BY <1>4, <1>5
<1> HIDE DEF q, m, p
<1>7. /\ 0 <= x /\ x < MaxFrameNum => m = x
      /\ -MaxFrameNum <= x /\ x < 0 => m = x + MaxFrameNum
      /\ MaxFrameNum <= x /\ x < 2 * MaxFrameNum => m = x - MaxFrameNum
  BY <1>1, <1>5, <1>6
<1> QED BY <1>7 DEF m

\* The successor of a frame_num, and how far the others are behind it.
LEMMA NextIs ==
  ASSUME NEW p \in Nums
  PROVE  /\ (p + 1) % MaxFrameNum \in Nums
         /\ (p + 1) % MaxFrameNum = IF p + 1 = MaxFrameNum THEN 0 ELSE p + 1
<1>1. p \in Int /\ 0 <= p /\ p < MaxFrameNum /\ MaxFrameNum \in Nat /\ MaxFrameNum > 2
  BY StreamAssumption DEF Nums
<1> DEFINE x == p + 1
<1>2. x \in Int /\ 0 <= x /\ x <= MaxFrameNum
  BY <1>1
<1> HIDE DEF x
<1>3. /\ x < MaxFrameNum => x % MaxFrameNum = x
      /\ x = MaxFrameNum => x % MaxFrameNum = 0
  <2>1. /\ 0 <= x /\ x < MaxFrameNum => x % MaxFrameNum = x
        /\ MaxFrameNum <= x /\ x < 2 * MaxFrameNum => x % MaxFrameNum = x - MaxFrameNum
    BY <1>2, ModIs
  <2> QED BY <1>1, <1>2, <2>1
<1>4. x % MaxFrameNum \in Nums
  BY <1>2, NumsAreNumbers
<1> QED BY <1>1, <1>2, <1>3, <1>4 DEF x

LEMMA DistanceIs ==
  ASSUME NEW num \in Nums, NEW r \in EncRef
  PROVE  /\ Distance(num, r) \in Nums /\ r.num \in Nums
         /\ Distance(num, r) = IF r.num <= num THEN num - r.num ELSE num - r.num + MaxFrameNum
         /\ Wrap(r.num, num) = num - Distance(num, r)
         /\ (num - Distance(num, r)) % MaxFrameNum = r.num
<1>1. r.num \in Nums
  BY DEF EncRef
<1> DEFINE n == r.num
           x == num - n
           d == x % MaxFrameNum
<1>2. /\ n \in Int /\ 0 <= n /\ n < MaxFrameNum /\ num \in Int /\ 0 <= num /\ num < MaxFrameNum
      /\ MaxFrameNum \in Nat
  BY <1>1, StreamAssumption DEF Nums
<1>3. Distance(num, r) = d /\ Wrap(r.num, num) = IF n > num THEN n - MaxFrameNum ELSE n
  BY DEF Distance, Wrap
<1> HIDE DEF n
<1>4. x \in Int /\ -MaxFrameNum <= x /\ x < MaxFrameNum
  BY <1>2
<1>5. d = (IF n <= num THEN num - n ELSE num - n + MaxFrameNum) /\ d \in Nums
  <2>1. /\ 0 <= x /\ x < MaxFrameNum => d = x
        /\ -MaxFrameNum <= x /\ x < 0 => d = x + MaxFrameNum
    BY <1>4, ModIs
  <2>2. d \in Nums
    BY <1>4, NumsAreNumbers
  <2> QED BY <1>2, <1>4, <2>1, <2>2
<1> HIDE DEF d
<1>6. (num - d) % MaxFrameNum = n
  <2> DEFINE y == num - d
  <2>1. y \in Int /\ y = IF n <= num THEN n ELSE n - MaxFrameNum
    BY <1>2, <1>5
  <2> HIDE DEF y
  <2>2. /\ 0 <= y /\ y < MaxFrameNum => y % MaxFrameNum = y
        /\ -MaxFrameNum <= y /\ y < 0 => y % MaxFrameNum = y + MaxFrameNum
    BY <2>1, ModIs
  <2>3. y % MaxFrameNum = n
    BY <1>2, <2>1, <2>2
  <2> QED BY <2>3 DEF y
<1>7. Wrap(r.num, num) = num - d
  BY <1>2, <1>3, <1>5
<1> QED BY <1>1, <1>3, <1>5, <1>6, <1>7 DEF n

\* One picture on, every reference is one further behind.
LEMMA DistanceGrows ==
  ASSUME NEW p \in Nums, NEW r \in EncRef, r.num # (p + 1) % MaxFrameNum
  PROVE  /\ Distance((p + 1) % MaxFrameNum, r) = Distance(p, r) + 1
         /\ Distance((p + 1) % MaxFrameNum, r) \in 1 .. MaxFrameNum - 1
<1> DEFINE num == (p + 1) % MaxFrameNum
           a == Distance(num, r)
           b == Distance(p, r)
           n == r.num
<1>1. num \in Nums /\ num = IF p + 1 = MaxFrameNum THEN 0 ELSE p + 1
  BY NextIs
<1> HIDE DEF num
<1>2. /\ n \in Nums
      /\ a = IF n <= num THEN num - n ELSE num - n + MaxFrameNum
      /\ b = IF n <= p THEN p - n ELSE p - n + MaxFrameNum
  BY <1>1, DistanceIs
<1>3. n # num
  BY DEF num
<1> HIDE DEF a, b, n
<1>4. /\ n \in Int /\ 0 <= n /\ n < MaxFrameNum /\ p \in Int /\ 0 <= p /\ p < MaxFrameNum
      /\ MaxFrameNum \in Nat /\ num \in Int /\ 0 <= num /\ num < MaxFrameNum
  BY <1>1, <1>2, StreamAssumption DEF Nums
<1>5. a = b + 1 /\ a \in 1 .. MaxFrameNum - 1
  BY <1>1, <1>2, <1>3, <1>4
<1> QED BY <1>5 DEF a, b, num

\* The newest reference is not behind at all.
LEMMA NoDistance ==
  ASSUME NEW num \in Nums, NEW r, r.num = num
  PROVE  Distance(num, r) = 0
<1>1. num \in Int /\ num - num = 0 /\ 0 < MaxFrameNum
  BY NumsAreNumbers, StreamAssumption
<1>2. 0 % MaxFrameNum = 0
  BY <1>1, ModIs
<1> QED BY <1>1, <1>2 DEF Distance

-----------------------------------------------------------------------------
(* The order of the encoder's references *)

\* The earlier in the list, the further behind.
Rising(s, p) == \A i, j \in DOMAIN s : i < j => Distance(p, s[i]) > Distance(p, s[j])
Behind(s, p) == \A i \in DOMAIN s : Distance(p, s[i]) \in 1 .. MaxFrameNum - 1

Orderly(e) ==
  /\ Rising(e.short, e.prev)
  /\ Len(e.long) <= 1 /\ \A i \in DOMAIN e.long : e.long[i].pic # Ghost
  /\ Len(e.short) + Len(e.long) <= MaxRefs
  /\ e.skipped > 0 => e.uses.gaps
  /\ e.skipped <= MaxGapSize /\ e.skipped + 1 < MaxFrameNum
  /\ ~e.uses.resets

LEMMA RisesOn ==
  ASSUME NEW e \in Encoder, Rising(e.short, e.prev), CanGoOn(e)
  PROVE  Rising(e.short, NextNum(e)) /\ Behind(e.short, NextNum(e))
<1>1. e.prev \in Nums /\ e.short \in Seq(EncRef)
  BY EncoderFields
<1>2. ASSUME NEW i \in DOMAIN e.short
      PROVE  /\ Distance(NextNum(e), e.short[i]) = Distance(e.prev, e.short[i]) + 1
             /\ Distance(NextNum(e), e.short[i]) \in 1 .. MaxFrameNum - 1
             /\ Distance(e.prev, e.short[i]) \in Nat
  <2>1. e.short[i] \in EncRef /\ e.short[i].num # NextNum(e)
    BY <1>1 DEF CanGoOn
  <2>2. Distance(e.prev, e.short[i]) \in Nums
    BY <1>1, <2>1, DistanceIs
  <2>3. Distance(e.prev, e.short[i]) \in Nat
    BY <2>2, NumsAreNumbers
  <2> QED BY <1>1, <2>1, <2>3, DistanceGrows DEF NextNum
<1> QED BY <1>2 DEF Rising, Behind

LEMMA TailIs ==
  ASSUME NEW T, NEW s \in Seq(T), s # <<>>
  PROVE  1 \in DOMAIN s /\ Tail(s) = RemoveAt(s, 1)
<1>1. 1 \in DOMAIN s /\ Len(s) \in Nat /\ Len(s) >= 1
  OBVIOUS
<1>2. RemoveAt(s, 1) \in Seq(T) /\ Len(RemoveAt(s, 1)) = Len(s) - 1
      /\ \A k \in 1 .. Len(s) - 1 : RemoveAt(s, 1)[k] = IF k < 1 THEN s[k] ELSE s[k + 1]
  BY <1>1, RemoveAtIs
<1>3. /\ Tail(s) \in Seq(T) /\ Len(Tail(s)) = Len(s) - 1
      /\ \A k \in 1 .. Len(s) - 1 : Tail(s)[k] = s[k + 1]
  <2>1. \A q \in Seq(T) : q # <<>> => /\ Tail(q) \in Seq(T) /\ Len(Tail(q)) = Len(q) - 1
                                      /\ \A k \in 1 .. Len(q) - 1 : Tail(q)[k] = q[k + 1]
    OBVIOUS
  <2> QED BY <2>1
<1>4. \A k \in 1 .. Len(s) - 1 : ~(k < 1)
  BY <1>1
<1> DEFINE a == Tail(s)
           b == RemoveAt(s, 1)
<1>5. a \in Seq(T) /\ b \in Seq(T) /\ Len(a) = Len(b) /\ \A k \in 1 .. Len(a) : a[k] = b[k]
  BY <1>2, <1>3, <1>4
<1> HIDE DEF a, b
<1>6. a = b
  BY <1>5
<1> QED BY <1>1, <1>6 DEF a, b

LEMMA RisingRemoved ==
  ASSUME NEW s \in Seq(EncRef), NEW p \in Nums, Rising(s, p), Behind(s, p), NEW i \in DOMAIN s
  PROVE  Rising(RemoveAt(s, i), p) /\ Behind(RemoveAt(s, i), p)
<1> DEFINE q == RemoveAt(s, i)
           f(k) == IF k < i THEN k ELSE k + 1
<1>1. /\ DOMAIN q = 1 .. Len(s) - 1 /\ DOMAIN s = 1 .. Len(s) /\ Len(s) \in Nat /\ i \in 1 .. Len(s)
      /\ \A k \in 1 .. Len(s) - 1 : q[k] = IF k < i THEN s[k] ELSE s[k + 1]
  <2>1. DOMAIN s = 1 .. Len(s) /\ Len(s) \in Nat /\ i \in 1 .. Len(s)
    OBVIOUS
  <2> QED BY <2>1, RemoveAtIs
<1> HIDE DEF q
<1>2. \A k \in DOMAIN q : f(k) \in DOMAIN s /\ q[k] = s[f(k)] /\ k \in Int
  BY <1>1
<1>3. \A j, k \in DOMAIN q : j < k => f(j) < f(k)
  BY <1>1
<1> HIDE DEF f
<1> QED BY <1>2, <1>3 DEF Rising, Behind, q

LEMMA RisingAppended ==
  ASSUME NEW s \in Seq(EncRef), NEW p \in Nums, Rising(s, p), Behind(s, p), NEW r \in EncRef, r.num = p
  PROVE  Rising(Append(s, r), p)
<1> DEFINE q == Append(s, r)
           l == Len(s)
<1>1. /\ DOMAIN q = 1 .. l + 1 /\ DOMAIN s = 1 .. l /\ l \in Nat
      /\ q[l + 1] = r /\ \A k \in 1 .. l : q[k] = s[k]
  OBVIOUS
<1>2. Distance(p, r) = 0
  BY NoDistance
<1> HIDE DEF q, l
<1> SUFFICES ASSUME NEW i \in DOMAIN q, NEW j \in DOMAIN q, i < j
             PROVE  Distance(p, q[i]) > Distance(p, q[j])
  BY DEF Rising, q
<1>3. i \in 1 .. l
  BY <1>1
<1>4. CASE j = l + 1
  <2>1. Distance(p, q[i]) \in 1 .. MaxFrameNum - 1 /\ Distance(p, q[j]) = 0
    BY <1>1, <1>2, <1>3, <1>4 DEF Behind
  <2> QED BY <2>1, StreamAssumption
<1>5. CASE j # l + 1
  <2>1. j \in 1 .. l
    BY <1>1, <1>5
  <2> QED BY <1>1, <1>3, <2>1 DEF Rising
<1> QED BY <1>4, <1>5

\* One more reference, after one had to go or not.
LEMMA RisingSlid ==
  ASSUME NEW short \in Seq(EncRef), NEW long \in Seq(EncRef), NEW p \in Nums,
         Rising(short, p), Behind(short, p), CanSlide(short, long), NEW r \in EncRef, r.num = p,
         Len(short) + Len(long) <= MaxRefs
  PROVE  /\ Rising(Append(Slid(short, long), r), p)
         /\ Len(Append(Slid(short, long), r)) + Len(long) <= MaxRefs
<1>1. Len(short) \in Nat /\ Len(long) \in Nat /\ MaxRefs \in Nat
  BY StreamAssumption
<1>2. CASE Len(short) + Len(long) < MaxRefs
  <2>1. Slid(short, long) = short
    BY <1>2 DEF Slid
  <2>2. Rising(Append(short, r), p)
    BY RisingAppended
  <2>3. Len(Append(short, r)) = Len(short) + 1
    OBVIOUS
  <2> QED BY <1>1, <1>2, <2>1, <2>2, <2>3
<1>3. CASE ~(Len(short) + Len(long) < MaxRefs)
  <2>1. 1 \in DOMAIN short /\ Slid(short, long) = RemoveAt(short, 1)
    BY <1>3, TailIs DEF Slid, CanSlide
  <2> DEFINE q == RemoveAt(short, 1)
  <2>2. q \in Seq(EncRef) /\ Len(q) = Len(short) - 1
    BY <2>1, RemoveAtIs
  <2>3. Rising(q, p) /\ Behind(q, p)
    BY <2>1, RisingRemoved
  <2> HIDE DEF q
  <2>4. Rising(Append(q, r), p)
    BY <2>2, <2>3, RisingAppended
  <2>5. Len(Append(q, r)) = Len(q) + 1
    BY <2>2
  <2> QED BY <1>1, <2>1, <2>2, <2>4, <2>5 DEF q
<1> QED BY <1>2, <1>3

\* What is not about the order.
LEMMA OrderlyStays ==
  ASSUME NEW e, Orderly(e), NEW x, x.short = e.short, x.long = e.long, x.prev = e.prev,
         x.skipped = e.skipped \/ x.skipped = 0, x.uses = e.uses
  PROVE  Orderly(x)
<1>1. CASE x.skipped = e.skipped
  BY <1>1 DEF Orderly
<1>2. CASE x.skipped = 0
  <2>1. 0 <= MaxGapSize /\ 0 + 1 < MaxFrameNum /\ ~(0 > 0)
    BY StreamAssumption
  <2> QED BY <1>2, <2>1 DEF Orderly
<1> QED BY <1>1, <1>2

LEMMA FreshIsOrderly ==
  ASSUME NEW uses \in Features, ~uses.resets
  PROVE  Orderly(FreshEncoder(uses))
<1> DEFINE e == FreshEncoder(uses)
<1>1. /\ e.short = <<>> /\ e.long = <<>> /\ e.prev = 0 /\ e.skipped = 0 /\ e.uses = uses
  BY DEF FreshEncoder
<1> HIDE DEF e
<1>2. Len(<<>>) = 0 /\ DOMAIN <<>> = {}
  OBVIOUS
<1>3. Orderly(e)
  BY <1>1, <1>2, StreamAssumption DEF Orderly, Rising
<1> QED BY <1>3 DEF e

LEMMA IdrIsOrderly ==
  ASSUME NEW e \in Encoder, ~e.uses.resets, NEW pic \in Pics, MaxRefs >= 1, NEW long \in BOOLEAN
  PROVE  /\ Orderly(AfterIdr(e, pic, long))
         /\ AfterIdr(e, pic, long).skipped = 0 /\ AfterIdr(e, pic, long).prev = 0
         /\ AfterIdr(e, pic, long).whole = TRUE
<1> DEFINE x == AfterIdr(e, pic, long)
           r == [pic |-> pic, num |-> 0]
<1>1. /\ x.short = IF long THEN <<>> ELSE <<r>>
      /\ x.long = IF long THEN <<r>> ELSE <<>>
      /\ x.prev = 0 /\ x.skipped = 0 /\ x.uses = e.uses /\ x.whole = TRUE
  BY DEF AfterIdr, FreshEncoder
<1>2. r.pic # Ghost
  BY PicsAreNumbers
<1> HIDE DEF x, r
<1>3. Len(<<>>) = 0 /\ DOMAIN <<>> = {} /\ Len(<<r>>) = 1 /\ DOMAIN <<r>> = {1} /\ <<r>>[1] = r
  OBVIOUS
<1>4. Rising(x.short, x.prev)
  <2>1. \A i, j \in DOMAIN x.short : ~(i < j)
    BY <1>1, <1>3
  <2> QED BY <2>1 DEF Rising
<1>5. Orderly(x)
  BY <1>1, <1>2, <1>3, <1>4, StreamAssumption DEF Orderly
<1> QED BY <1>1, <1>5 DEF x

InOrder(short, long, p) ==
  /\ Rising(short, p)
  /\ Len(long) <= 1 /\ \A i \in DOMAIN long : long[i].pic # Ghost

LEMMA CurIs ==
  ASSUME NEW pic \in Pics, NEW num \in Nums
  PROVE  Cur(pic, num) \in EncRef /\ Cur(pic, num).num = num /\ Cur(pic, num).pic = pic /\ pic # Ghost
BY CurType, PicsAreNumbers DEF Cur

LEMMA NoneOrOne ==
  ASSUME NEW r, r.pic # Ghost
  PROVE  /\ Len(<<>>) <= 1 /\ \A i \in DOMAIN <<>> : <<>>[i].pic # Ghost
         /\ Len(<<r>>) <= 1 /\ \A i \in DOMAIN <<r>> : <<r>>[i].pic # Ghost
<1>1. Len(<<>>) = 0 /\ DOMAIN <<>> = {}
  OBVIOUS
<1>2. Len(<<r>>) = 1 /\ DOMAIN <<r>> = {1} /\ <<r>>[1] = r
  OBVIOUS
<1> QED BY <1>1, <1>2

LEMMA MarkingInOrder ==
  ASSUME NEW e \in Encoder, Orderly(e), CanGoOn(e), NEW pic \in Pics, NEW m \in LegalMarkings(e, pic)
  PROVE  /\ InOrder(m.short, m.long, m.prev) /\ Len(m.short) + Len(m.long) <= MaxRefs
         /\ m.marking = "none" => m.prev = e.prev
<1> DEFINE num == NextNum(e)
           cur == Cur(pic, num)
           short == e.short
           long == e.long
<1>1. /\ short \in Seq(EncRef) /\ long \in Seq(EncRef) /\ num \in Nums
      /\ Rising(short, e.prev) /\ InOrder(<<>>, long, num)
      /\ Len(short) + Len(long) <= MaxRefs
  <2>1. DOMAIN <<>> = {}
    OBVIOUS
  <2> HIDE DEF num
  <2>2. Rising(<<>>, num)
    BY <2>1 DEF Rising
  <2>3. Rising(short, e.prev) /\ InOrder(<<>>, long, num) /\ Len(short) + Len(long) <= MaxRefs
    BY <2>2 DEF Orderly, InOrder
  <2> QED BY <2>3, EncoderFields, NextNumType DEF num
<1>2. Rising(short, num) /\ Behind(short, num)
  BY RisesOn DEF Orderly
<1>3. CASE m = Marking("none", <<>>, e.short, e.long, e.prev)
  <2>1. m.short = short /\ m.long = long /\ m.prev = e.prev
    BY <1>3 DEF Marking
  <2> QED BY <1>1, <2>1 DEF InOrder
<1>4. CASE m \in Markings(e.short, e.long, num, pic, e.uses) /\ Len(m.short) + Len(m.long) <= MaxRefs
  <2>1. ~e.uses.resets
    BY DEF Orderly
  <2>2. cur \in EncRef /\ cur.num = num /\ cur.pic # Ghost
    BY <1>1, CurIs
  <2>3. \/ Slides(m, short, long, num, pic) \/ Unmarks(m, short, long, num, pic)
        \/ Converts(m, short, long, num, pic) \/ Promotes(m, short, long, num, pic)
        \/ Frees(m, short, long, num, pic)
    BY <1>4, <2>1, MarkingForms
  <2> HIDE DEF num, cur
  <2>4. ASSUME NEW kind, NEW ops, NEW s, NEW l, m = Marking(kind, ops, s, l, num),
               Rising(s, num), Len(l) <= 1 /\ \A i \in DOMAIN l : l[i].pic # Ghost,
               kind # "none"
        PROVE  InOrder(m.short, m.long, m.prev) /\ m.marking # "none"
    <3>1. m.short = s /\ m.long = l /\ m.prev = num /\ m.marking = kind
      BY <2>4 DEF Marking
    <3> QED BY <2>4, <3>1 DEF InOrder
  <2>5. Len(long) <= 1 /\ \A i \in DOMAIN long : long[i].pic # Ghost
    BY <1>1 DEF InOrder
  <2>6. Rising(Append(short, cur), num)
    BY <1>1, <1>2, <2>2, RisingAppended
  <2>7. \A i \in DOMAIN short : Rising(Append(RemoveAt(short, i), cur), num)
    <3> TAKE i \in DOMAIN short
    <3>1. RemoveAt(short, i) \in Seq(EncRef) /\ Rising(RemoveAt(short, i), num) /\ Behind(RemoveAt(short, i), num)
      BY <1>1, <1>2, RemoveAtIs, RisingRemoved
    <3> QED BY <1>1, <2>2, <3>1, RisingAppended
  <2>8. CASE Slides(m, short, long, num, pic)
    <3>1. CanSlide(short, long) /\ m = Marking("sliding", <<>>, Append(Slid(short, long), cur), long, num)
      BY <2>8 DEF Slides, cur
    <3>2. Rising(Append(Slid(short, long), cur), num)
      BY <1>1, <1>2, <2>2, <3>1, RisingSlid
    <3>3. InOrder(m.short, m.long, m.prev) /\ m.marking # "none"
      BY <2>4, <2>5, <3>1, <3>2
    <3> QED BY <1>4, <3>3
  <2>9. CASE Unmarks(m, short, long, num, pic)
    <3>1. PICK i \in DOMAIN short : m = Marking("adaptive", <<Take("ShortTermUnused", num, short[i])>>,
                                                Append(RemoveAt(short, i), cur), long, num)
      BY <2>9 DEF Unmarks, cur
    <3>2. InOrder(m.short, m.long, m.prev) /\ m.marking # "none"
      BY <2>4, <2>5, <2>7, <3>1
    <3> QED BY <1>4, <3>2
  <2>10. CASE Converts(m, short, long, num, pic)
    <3>1. PICK i \in DOMAIN short :
            /\ short[i].pic # Ghost
            /\ m = Marking("adaptive", <<UseMaxIdx, Take("ShortTermToLongTerm", num, short[i])>>,
                           Append(RemoveAt(short, i), cur), <<short[i]>>, num)
      BY <2>10 DEF Converts, cur
    <3> DEFINE l == <<short[i]>>
    <3>2. Len(l) <= 1 /\ \A k \in DOMAIN l : l[k].pic # Ghost
      BY <3>1, NoneOrOne
    <3> HIDE DEF l
    <3>4. m = Marking("adaptive", <<UseMaxIdx, Take("ShortTermToLongTerm", num, short[i])>>,
                      Append(RemoveAt(short, i), cur), l, num)
      BY <3>1 DEF l
    <3>3. InOrder(m.short, m.long, m.prev) /\ m.marking # "none"
      BY <2>4, <2>7, <3>2, <3>4
    <3> QED BY <1>4, <3>3
  <2>11. CASE Promotes(m, short, long, num, pic)
    <3> DEFINE l == <<cur>>
    <3>1. m = Marking("adaptive", <<UseMaxIdx, Unmark("CurrentToLongTerm", 0)>>, short, l, num)
      BY <2>11 DEF Promotes, cur
    <3>2. Len(l) <= 1 /\ \A i \in DOMAIN l : l[i].pic # Ghost
      BY <2>2, NoneOrOne
    <3> HIDE DEF l
    <3>3. InOrder(m.short, m.long, m.prev) /\ m.marking # "none"
      BY <1>2, <2>4, <3>1, <3>2
    <3> QED BY <1>4, <3>3
  <2>12. CASE Frees(m, short, long, num, pic)
    <3>1. PICK op : m = Marking("adaptive", <<op>>, Append(short, cur), <<>>, num)
      BY <2>12 DEF Frees, cur
    <3>2. Len(<<>>) <= 1 /\ \A i \in DOMAIN <<>> : <<>>[i].pic # Ghost
      BY <2>2, NoneOrOne
    <3>3. InOrder(m.short, m.long, m.prev) /\ m.marking # "none"
      BY <2>4, <2>6, <3>1, <3>2
    <3> QED BY <1>4, <3>3
  <2> QED BY <2>3, <2>8, <2>9, <2>10, <2>11, <2>12
<1> QED BY <1>3, <1>4 DEF LegalMarkings

LEMMA MarkedIsOrderly ==
  ASSUME NEW e \in Encoder, Orderly(e), CanGoOn(e), NEW pic \in Pics, NEW m \in LegalMarkings(e, pic)
  PROVE  Orderly(Marked(e, m))
<1> DEFINE x == Marked(e, m)
<1>1. /\ x.short = m.short /\ x.long = m.long /\ x.prev = m.prev /\ x.skipped = 0 /\ x.uses = e.uses
  BY LegalMarkingsType, MarkedType
<1>2. InOrder(m.short, m.long, m.prev) /\ Len(m.short) + Len(m.long) <= MaxRefs
  BY MarkingInOrder
<1> HIDE DEF x
<1>3. 0 <= MaxGapSize /\ 0 + 1 < MaxFrameNum /\ ~(0 > 0)
  BY StreamAssumption
<1>4. Orderly(x)
  BY <1>1, <1>2, <1>3 DEF Orderly, InOrder
<1> QED BY <1>4 DEF x

LEMMA SkippedIsOrderly ==
  ASSUME NEW e \in Encoder, Orderly(e), CanSkip(e)
  PROVE  Orderly(Skipped(e))
<1> DEFINE x == Skipped(e)
           num == NextNum(e)
           ghost == [pic |-> Ghost, num |-> num]
<1>1. /\ x.short = Append(Slid(e.short, e.long), ghost) /\ x.long = e.long
      /\ x.prev = num /\ x.skipped = e.skipped + 1 /\ x.uses = e.uses
  BY SkippedType
<1>2. /\ e.short \in Seq(EncRef) /\ e.long \in Seq(EncRef) /\ num \in Nums /\ e.skipped \in Nat
  BY EncoderFields, NextNumType
<1>3. Rising(e.short, num) /\ Behind(e.short, num)
  BY RisesOn DEF Orderly, CanSkip
<1>4. ghost \in EncRef /\ ghost.num = num
  BY <1>2 DEF EncRef
<1>5. e.uses.gaps /\ e.skipped < MaxGapSize /\ e.skipped + 2 < MaxFrameNum /\ CanSlide(e.short, e.long)
  BY DEF CanSkip
<1> HIDE DEF ghost, num, x
<1>6. Rising(x.short, x.prev) /\ Len(x.short) + Len(x.long) <= MaxRefs
  BY <1>1, <1>2, <1>3, <1>4, <1>5, RisingSlid DEF Orderly
<1>7. x.skipped <= MaxGapSize /\ x.skipped + 1 < MaxFrameNum
  BY <1>1, <1>2, <1>5, StreamAssumption
<1>8. Orderly(x)
  BY <1>1, <1>5, <1>6, <1>7 DEF Orderly
<1> QED BY <1>8 DEF x

-----------------------------------------------------------------------------
(* The references of the encoder and of the manager *)

(* q is s under the numbers and ids of the manager; the picture with an id *)
(* is map[id].                                                             *)
SameShort(map, s, q) ==
  /\ Len(q) = Len(s)
  /\ \A i \in 1 .. Len(s) : /\ q[i].num = s[i].num
                            /\ q[i].ghost <=> s[i].pic = Ghost
                            /\ ~q[i].ghost => map[q[i].id] = s[i].pic

SameLong(map, s, q) ==
  /\ Len(q) = Len(s)
  /\ \A i \in 1 .. Len(s) : q[i].idx = 0 /\ map[q[i].id] = s[i].pic

Agree(map, short, long, d) ==
  /\ SameShort(map, short, d.short) /\ SameLong(map, long, d.long)
  /\ d.maxIdx \in {NoIdx, 0} /\ (d.long # <<>> => d.maxIdx = 0)

LEMMA SameShortRemoved ==
  ASSUME NEW map, NEW s \in Seq(EncRef), NEW q \in Seq(ShortRef), SameShort(map, s, q), NEW i \in 1 .. Len(s)
  PROVE  SameShort(map, RemoveAt(s, i), RemoveAt(q, i))
<1> DEFINE a == RemoveAt(s, i)
           b == RemoveAt(q, i)
           l == Len(s)
<1>1. l \in Nat /\ Len(q) = l /\ i \in DOMAIN s /\ i \in DOMAIN q
  BY DEF SameShort
<1>2. /\ Len(a) = l - 1 /\ Len(b) = l - 1
      /\ \A k \in 1 .. l - 1 : a[k] = IF k < i THEN s[k] ELSE s[k + 1]
      /\ \A k \in 1 .. l - 1 : b[k] = IF k < i THEN q[k] ELSE q[k + 1]
  BY <1>1, RemoveAtIs
<1>3. \A k \in 1 .. l - 1 : \E j \in 1 .. l : a[k] = s[j] /\ b[k] = q[j]
  BY <1>1, <1>2
<1> HIDE DEF a, b, l
<1>5. ASSUME NEW k \in 1 .. l - 1
      PROVE  b[k].num = a[k].num /\ (b[k].ghost <=> a[k].pic = Ghost) /\ (~b[k].ghost => map[b[k].id] = a[k].pic)
  <2>1. PICK j \in 1 .. l : a[k] = s[j] /\ b[k] = q[j]
    BY <1>3
  <2>2. q[j].num = s[j].num /\ (q[j].ghost <=> s[j].pic = Ghost) /\ (~q[j].ghost => map[q[j].id] = s[j].pic)
    BY DEF SameShort, l
  <2> QED BY <2>1, <2>2
<1>4. SameShort(map, a, b)
  BY <1>2, <1>5 DEF SameShort
<1> QED BY <1>4 DEF a, b

LEMMA SameShortAppended ==
  ASSUME NEW map, NEW s \in Seq(EncRef), NEW q \in Seq(ShortRef), SameShort(map, s, q),
         NEW r \in EncRef, NEW x \in ShortRef, x.num = r.num, x.ghost <=> r.pic = Ghost,
         ~x.ghost => map[x.id] = r.pic
  PROVE  SameShort(map, Append(s, r), Append(q, x))
<1> DEFINE a == Append(s, r)
           b == Append(q, x)
           l == Len(s)
<1>1. l \in Nat /\ Len(q) = l
  BY DEF SameShort
<1>2. /\ Len(a) = l + 1 /\ a[l + 1] = r /\ \A k \in 1 .. l : a[k] = s[k]
      /\ Len(b) = l + 1 /\ b[l + 1] = x /\ \A k \in 1 .. l : b[k] = q[k]
  BY <1>1
<1> HIDE DEF a, b
<1>3. \A k \in 1 .. l : /\ b[k].num = a[k].num
                        /\ b[k].ghost <=> a[k].pic = Ghost
                        /\ ~b[k].ghost => map[b[k].id] = a[k].pic
  BY <1>2 DEF SameShort
<1>4. ASSUME NEW k \in 1 .. l + 1
      PROVE  /\ b[k].num = a[k].num
             /\ b[k].ghost <=> a[k].pic = Ghost
             /\ ~b[k].ghost => map[b[k].id] = a[k].pic
  <2>1. CASE k = l + 1
    BY <1>2, <2>1
  <2>2. CASE k # l + 1
    <3>1. k \in 1 .. l
      BY <1>1, <2>2
    <3> QED BY <1>3, <3>1
  <2> QED BY <2>1, <2>2
<1>5. SameShort(map, a, b)
  BY <1>2, <1>4 DEF SameShort
<1> QED BY <1>5 DEF a, b

\* A picture gets an id that names no other.
NewName(map, short, long, d, pic) ==
  map \in [Nat -> Pics] /\ Sound(d) /\ Agree(map, short, long, d) /\ pic \in Pics

Renamed(map, short, long, d, pic) ==
  LET to == [map EXCEPT ![d.nextId] = pic]
  IN  Agree(to, short, long, d) /\ to \in [Nat -> Pics] /\ to[d.nextId] = pic

LEMMA AgreeStill ==
  ASSUME NEW map, NEW short, NEW long, NEW d, NEW pic, NewName(map, short, long, d, pic)
  PROVE  Renamed(map, short, long, d, pic)
<1> USE DEF NewName
<1> DEFINE to == [map EXCEPT ![d.nextId] = pic]
<1>1. d \in Context /\ d.nextId \in Nat /\ d.short \in Seq(ShortRef) /\ d.long \in Seq(LongRef)
  BY ContextFields DEF Sound
<1>2. to \in [Nat -> Pics] /\ to[d.nextId] = pic /\ \A x \in Nat : x # d.nextId => to[x] = map[x]
  BY <1>1
<1>3. /\ \A i \in DOMAIN d.short : d.short[i].id \in Nat /\ d.short[i].id # d.nextId
      /\ \A i \in DOMAIN d.long : d.long[i].id \in Nat /\ d.long[i].id # d.nextId
  <2>1. /\ \A i \in DOMAIN d.short : d.short[i].id \in Nat /\ d.short[i].id < d.nextId
        /\ \A i \in DOMAIN d.long : d.long[i].id \in Nat /\ d.long[i].id < d.nextId
    BY <1>1, ContextFields DEF Sound, IdsApart
  <2> QED BY <1>1, <2>1
<1>4. DOMAIN d.short = 1 .. Len(d.short) /\ DOMAIN d.long = 1 .. Len(d.long)
  BY <1>1
<1> HIDE DEF to
<1>5. SameShort(to, short, d.short) /\ SameLong(to, long, d.long)
  BY <1>2, <1>3, <1>4 DEF Agree, SameShort, SameLong
<1>6. Agree(to, short, long, d)
  BY <1>5 DEF Agree
<1> QED BY <1>2, <1>6 DEF to, Renamed

LEMMA AddShortIs ==
  ASSUME NEW d, Sound(d), NEW num \in Nat, NEW ghost \in BOOLEAN
  PROVE  LET a == AddShort(d, num, ghost)
             x == [id |-> d.nextId, num |-> num, ghost |-> ghost]
         IN  /\ a \in Context /\ x \in ShortRef /\ a.short = Append(d.short, x) /\ a.long = d.long
             /\ a.prev = d.prev /\ a.maxIdx = d.maxIdx /\ a.corrupted = d.corrupted
             /\ a.strict = d.strict /\ a.nextId = d.nextId + 1
<1> DEFINE x == [id |-> d.nextId, num |-> num, ghost |-> ghost]
           s == Append(d.short, x)
           a == [d EXCEPT !.short = s, !.nextId = d.nextId + 1]
<1>1. d \in Context /\ d.nextId \in Nat /\ d.nextId + 1 \in Nat /\ d.short \in Seq(ShortRef)
  BY ContextFields DEF Sound
<1>2. x \in ShortRef
  BY <1>1 DEF ShortRef
<1>3. AddShort(d, num, ghost) = a
  BY DEF AddShort
<1> HIDE DEF x
<1>4. s \in Seq(ShortRef)
  BY <1>1, <1>2
<1> HIDE DEF s
<1>5. /\ a \in Context /\ a.short = s /\ a.long = d.long /\ a.prev = d.prev /\ a.maxIdx = d.maxIdx
      /\ a.corrupted = d.corrupted /\ a.strict = d.strict /\ a.nextId = d.nextId + 1
  BY <1>1, <1>4 DEF Context
<1> QED BY <1>2, <1>3, <1>5 DEF s, x

LEMMA AppendThenRemoved ==
  ASSUME NEW T, NEW s \in Seq(T), s # <<>>, NEW x \in T
  PROVE  /\ RemoveAt(Append(s, x), 1) = Append(Tail(s), x)
         /\ 1 \in DOMAIN Append(s, x) /\ Append(s, x) \in Seq(T)
<1> DEFINE p == Append(s, x)
           a == RemoveAt(p, 1)
           t == Tail(s)
           b == Append(t, x)
           l == Len(s)
<1>1. l \in Nat /\ l >= 1 /\ p \in Seq(T) /\ Len(p) = l + 1 /\ p[l + 1] = x /\ \A k \in 1 .. l : p[k] = s[k]
  OBVIOUS
<1>2. 1 \in DOMAIN p
  BY <1>1
<1>9. \A q \in Seq(T) : q # <<>> => /\ Tail(q) \in Seq(T) /\ Len(Tail(q)) = Len(q) - 1
                                    /\ \A k \in 1 .. Len(q) - 1 : Tail(q)[k] = q[k + 1]
  OBVIOUS
<1>3. t \in Seq(T) /\ Len(t) = l - 1 /\ \A k \in 1 .. l - 1 : t[k] = s[k + 1]
  BY <1>9
<1>4. /\ a \in Seq(T) /\ Len(a) = Len(p) - 1
      /\ \A k \in 1 .. Len(p) - 1 : a[k] = IF k < 1 THEN p[k] ELSE p[k + 1]
  BY <1>1, <1>2, RemoveAtIs
<1> HIDE DEF t, a
<1>5. b \in Seq(T) /\ Len(b) = Len(t) + 1 /\ b[Len(t) + 1] = x /\ \A k \in 1 .. Len(t) : b[k] = t[k]
  BY <1>3
<1>6. Len(a) = l /\ Len(b) = l
  BY <1>1, <1>3, <1>4, <1>5
<1> HIDE DEF b, p, l
<1>7. ASSUME NEW k \in 1 .. l PROVE a[k] = b[k]
  <2>1. a[k] = p[k + 1]
    BY <1>1, <1>4
  <2>2. CASE k = l
    <3>1. p[k + 1] = x /\ b[k] = x
      BY <1>1, <1>3, <1>5, <2>2
    <3> QED BY <2>1, <3>1
  <2>3. CASE k # l
    <3>1. k \in 1 .. l - 1 /\ k + 1 \in 1 .. l
      BY <1>1, <2>3
    <3> QED BY <1>1, <1>3, <1>5, <2>1, <3>1
  <2> QED BY <2>2, <2>3
<1>8. a = b
  BY <1>4, <1>5, <1>6, <1>7
<1> QED BY <1>1, <1>2, <1>8 DEF a, b, p, t

-----------------------------------------------------------------------------
(* The sliding window *)

\* FrameNumWrap rises as the distance falls.
LEMMA WrapsRise ==
  ASSUME NEW s \in Seq(EncRef), NEW num \in Nums, Rising(s, num), NEW q, Len(q) = Len(s),
         \A i \in 1 .. Len(s) : q[i].num = s[i].num
  PROVE  /\ \A i \in 1 .. Len(s) : Wrap(q[i].num, num) \in Int /\ Wrap(q[i].num, num) = num - Distance(num, s[i])
         /\ \A i, j \in 1 .. Len(s) : i < j => Wrap(q[i].num, num) < Wrap(q[j].num, num)
<1> DEFINE w(i) == Wrap(q[i].num, num)
<1>1. DOMAIN s = 1 .. Len(s) /\ Len(s) \in Nat /\ num \in Int
  BY NumsAreNumbers
<1>2. ASSUME NEW i \in 1 .. Len(s) PROVE w(i) = num - Distance(num, s[i]) /\ Distance(num, s[i]) \in Int
  <2>1. s[i] \in EncRef /\ q[i].num = s[i].num
    BY <1>1
  <2>2. Distance(num, s[i]) \in Nums /\ Wrap(s[i].num, num) = num - Distance(num, s[i])
    BY <2>1, DistanceIs
  <2>3. Distance(num, s[i]) \in Int
    BY <2>2, NumsAreNumbers
  <2> QED BY <2>1, <2>2, <2>3
<1> HIDE DEF w
<1>3. ASSUME NEW i \in 1 .. Len(s), NEW j \in 1 .. Len(s), i < j PROVE w(i) < w(j)
  <2>1. Distance(num, s[i]) > Distance(num, s[j])
    BY <1>1, <1>3 DEF Rising
  <2>2. w(i) = num - Distance(num, s[i]) /\ Distance(num, s[i]) \in Int
        /\ w(j) = num - Distance(num, s[j]) /\ Distance(num, s[j]) \in Int
    BY <1>2
  <2> QED BY <1>1, <2>1, <2>2
<1>4. \A i \in 1 .. Len(s) : w(i) \in Int /\ w(i) = num - Distance(num, s[i])
  <2> SUFFICES ASSUME NEW i \in 1 .. Len(s) PROVE w(i) \in Int /\ w(i) = num - Distance(num, s[i])
    OBVIOUS
  <2>1. w(i) = num - Distance(num, s[i]) /\ Distance(num, s[i]) \in Int
    BY <1>2
  <2> QED BY <1>1, <2>1
<1> QED BY <1>3, <1>4 DEF w

\* The encoder drops the first of its references, the manager the one with the least FrameNumWrap.
LEMMA OldestIsFirst ==
  ASSUME NEW s \in Seq(EncRef), NEW num \in Nums, Rising(s, num), NEW c, c.short \in Seq(ShortRef),
         Len(c.short) = Len(s), s # <<>>, \A i \in 1 .. Len(s) : c.short[i].num = s[i].num
  PROVE  Oldest(c, num) = 1 /\ 1 \in DOMAIN c.short
<1> DEFINE w(i) == Wrap(c.short[i].num, num)
           P(i) == \A j \in DOMAIN c.short : w(i) < w(j) \/ (w(i) = w(j) /\ i <= j)
<1>1. DOMAIN c.short = 1 .. Len(s) /\ Len(s) \in Nat /\ Len(s) >= 1
  OBVIOUS
<1>2. /\ \A i \in 1 .. Len(s) : w(i) \in Int
      /\ \A i, j \in 1 .. Len(s) : i < j => w(i) < w(j)
  BY WrapsRise
<1>3. Oldest(c, num) = CHOOSE i \in DOMAIN c.short : P(i)
  BY DEF Oldest
<1> HIDE DEF w
<1>4. P(1)
  <2> SUFFICES ASSUME NEW j \in 1 .. Len(s) PROVE w(1) < w(j) \/ (w(1) = w(j) /\ 1 <= j)
    BY <1>1
  <2>1. CASE j = 1
    BY <2>1
  <2>2. CASE j # 1
    BY <1>1, <1>2, <2>2
  <2> QED BY <2>1, <2>2
<1>5. \A i \in DOMAIN c.short : P(i) => i = 1
  <2> SUFFICES ASSUME NEW i \in 1 .. Len(s), P(i), i # 1 PROVE FALSE
    BY <1>1
  <2>1. 1 \in 1 .. Len(s) /\ 1 < i
    BY <1>1
  <2>2. w(1) < w(i) /\ w(1) \in Int /\ w(i) \in Int
    BY <1>2, <2>1
  <2>3. w(i) < w(1) \/ (w(i) = w(1) /\ i <= 1)
    BY <1>1, <2>1
  <2> QED BY <2>2, <2>3
<1>6. 1 \in DOMAIN c.short
  BY <1>1
<1> HIDE DEF P
<1>7. (CHOOSE i \in DOMAIN c.short : P(i)) = 1
  BY <1>4, <1>5, <1>6
<1> QED BY <1>3, <1>6, <1>7

SlidesOn(map, short, long, d, num, r, ghost) ==
  /\ short \in Seq(EncRef) /\ long \in Seq(EncRef) /\ Sound(d) /\ Agree(map, short, long, d)
  /\ num \in Nums /\ Rising(short, num) /\ Behind(short, num) /\ CanSlide(short, long)
  /\ Len(short) + Len(long) <= MaxRefs /\ r \in EncRef /\ r.num = num
  /\ ghost \in BOOLEAN /\ (ghost <=> r.pic = Ghost) /\ (~ghost => map[d.nextId] = r.pic)

\* The references after the sliding window took one, and the new one joined.
SlidAgrees(map, short, long, d, num, r, ghost) ==
  LET e == Evict(AddShort(d, num, ghost), num).ctx
  IN  /\ Agree(map, Append(Slid(short, long), r), long, e)
      /\ e.prev = d.prev /\ e.corrupted = d.corrupted

LEMMA SlideAgrees ==
  ASSUME MaxRefs >= 1, NEW map, NEW short, NEW long, NEW d, NEW num, NEW r, NEW ghost,
         SlidesOn(map, short, long, d, num, r, ghost)
  PROVE  SlidAgrees(map, short, long, d, num, r, ghost)
<1> USE DEF SlidesOn, SlidAgrees
<1> DEFINE a == AddShort(d, num, ghost)
           x == [id |-> d.nextId, num |-> num, ghost |-> ghost]
           s == Append(short, r)
<1>0. num \in Nat
  BY NumsAreNumbers
<1>1. /\ a \in Context /\ x \in ShortRef /\ a.short = Append(d.short, x) /\ a.long = d.long
      /\ a.prev = d.prev /\ a.maxIdx = d.maxIdx /\ a.corrupted = d.corrupted
  BY <1>0, AddShortIs
<1>2. d.short \in Seq(ShortRef) /\ d.long \in Seq(LongRef)
  BY ContextFields DEF Sound
<1>3. x.num = num /\ x.ghost = ghost /\ x.id = d.nextId
  OBVIOUS
<1> HIDE DEF a, x
<1>4. SameShort(map, s, a.short)
  <2>1. SameShort(map, short, d.short)
    BY DEF Agree
  <2> QED BY <1>1, <1>2, <1>3, <2>1, SameShortAppended
<1>5. /\ s \in Seq(EncRef) /\ s # <<>> /\ Len(s) = Len(short) + 1 /\ Len(short) \in Nat /\ Len(long) \in Nat
      /\ a.short \in Seq(ShortRef) /\ a.long \in Seq(LongRef)
  <2>1. s \in Seq(EncRef) /\ s # <<>> /\ Len(s) = Len(short) + 1 /\ Len(short) \in Nat /\ Len(long) \in Nat
    OBVIOUS
  <2>2. a.short \in Seq(ShortRef) /\ a.long \in Seq(LongRef)
    BY <1>1, ContextFields
  <2> QED BY <2>1, <2>2
<1>6. Rising(s, num)
  BY RisingAppended
<1>7. Len(a.short) = Len(s) /\ Len(a.long) = Len(long)
  BY <1>1, <1>4 DEF SameShort, Agree, SameLong
<1>8. a.short # <<>>
  BY <1>5, <1>7
<1>9. OverCapacity(a) <=> ~(Len(short) + Len(long) < MaxRefs)
  BY <1>5, <1>7, <1>8, StreamAssumption DEF OverCapacity
<1>10. CASE Len(short) + Len(long) < MaxRefs
  <2>1. Evict(a, num).ctx = a /\ Slid(short, long) = short
    BY <1>9, <1>10 DEF Evict, Slid
  <2>2. Agree(map, s, long, a)
    BY <1>1, <1>4 DEF Agree
  <2> QED BY <1>1, <2>1, <2>2 DEF a
<1>11. CASE ~(Len(short) + Len(long) < MaxRefs)
  <2> DEFINE q == RemoveAt(a.short, 1)
             e == [a EXCEPT !.short = q]
  <2>1. Oldest(a, num) = 1 /\ 1 \in DOMAIN a.short
    <3>1. \A i \in 1 .. Len(s) : a.short[i].num = s[i].num
      BY <1>4 DEF SameShort
    <3> HIDE DEF s
    <3> QED BY <1>5, <1>6, <1>7, <3>1, OldestIsFirst
  <2>2. Evict(a, num).ctx = e
    BY <1>9, <1>11, <2>1 DEF Evict, ShortEvicted
  <2>3. e.short = q /\ e.long = a.long /\ e.prev = a.prev /\ e.maxIdx = a.maxIdx /\ e.corrupted = a.corrupted
    BY <1>1 DEF Context
  <2>4. short # <<>> /\ Slid(short, long) = Tail(short)
    BY <1>11 DEF CanSlide, Slid
  <2>5. RemoveAt(s, 1) = Append(Tail(short), r)
    BY <2>4, AppendThenRemoved
  <2>6. SameShort(map, RemoveAt(s, 1), q)
    <3>1. 1 \in 1 .. Len(s)
      BY <1>5
    <3> HIDE DEF s
    <3> QED BY <1>4, <1>5, <3>1, SameShortRemoved
  <2> HIDE DEF e, q, s
  <2>7. Agree(map, Append(Tail(short), r), long, e)
    BY <1>1, <2>3, <2>5, <2>6 DEF Agree
  <2> QED BY <1>1, <2>2, <2>3, <2>4, <2>7 DEF a
<1> QED BY <1>10, <1>11

-----------------------------------------------------------------------------
(* Gaps *)

LEMMA NumsOn ==
  ASSUME NEW p \in Nums, NEW k \in Nat, k + 1 < MaxFrameNum
  PROVE  /\ (p + k) % MaxFrameNum \in Nums /\ (p + (k + 1)) % MaxFrameNum \in Nums
         /\ (((p + k) % MaxFrameNum) + 1) % MaxFrameNum = (p + (k + 1)) % MaxFrameNum
         /\ (((p + (k + 1)) % MaxFrameNum) - p - 1) % MaxFrameNum = k
         /\ k >= 1 => /\ (p + (k + 1)) % MaxFrameNum # p
                      /\ (p + (k + 1)) % MaxFrameNum # (p + 1) % MaxFrameNum
<1> DEFINE x == p + k
           y == p + (k + 1)
           m == x % MaxFrameNum
           n == y % MaxFrameNum
<1>1. p \in Int /\ 0 <= p /\ p < MaxFrameNum /\ MaxFrameNum \in Nat /\ MaxFrameNum > 2
  BY StreamAssumption DEF Nums
<1>2. /\ x \in Int /\ 0 <= x /\ x < 2 * MaxFrameNum /\ x = p + k
      /\ y \in Int /\ 0 <= y /\ y < 2 * MaxFrameNum /\ y = p + k + 1
  BY <1>1
<1> HIDE DEF x, y
<1>3. m \in Nums /\ n \in Nums
  BY <1>2, NumsAreNumbers
<1>4. /\ x < MaxFrameNum => m = x
      /\ MaxFrameNum <= x => m = x - MaxFrameNum
      /\ y < MaxFrameNum => n = y
      /\ MaxFrameNum <= y => n = y - MaxFrameNum
  BY <1>2, ModIs
<1> HIDE DEF m, n
<1>5. m \in Int /\ 0 <= m /\ m < MaxFrameNum /\ n \in Int /\ 0 <= n /\ n < MaxFrameNum
  BY <1>1, <1>3 DEF Nums
<1>6. (m + 1) % MaxFrameNum = n
  <2>1. (m + 1) % MaxFrameNum = IF m + 1 = MaxFrameNum THEN 0 ELSE m + 1
    BY <1>3, NextIs
  <2> QED BY <1>1, <1>2, <1>4, <1>5, <2>1
<1>7. (n - p - 1) % MaxFrameNum = k
  <2> DEFINE z == n - p - 1
  <2>1. z \in Int /\ -MaxFrameNum <= z /\ z < MaxFrameNum /\ (z = k \/ z = k - MaxFrameNum)
    BY <1>1, <1>2, <1>4, <1>5
  <2> HIDE DEF z
  <2>2. /\ 0 <= z /\ z < MaxFrameNum => z % MaxFrameNum = z
        /\ -MaxFrameNum <= z /\ z < 0 => z % MaxFrameNum = z + MaxFrameNum
    BY <2>1, ModIs
  <2>3. z % MaxFrameNum = k
    BY <1>1, <2>1, <2>2
  <2> QED BY <2>3 DEF z
<1>8. k >= 1 => n # p /\ n # (p + 1) % MaxFrameNum
  <2>1. (p + 1) % MaxFrameNum = IF p + 1 = MaxFrameNum THEN 0 ELSE p + 1
    BY NextIs
  <2> QED BY <1>1, <1>2, <1>4, <1>5, <2>1
<1> QED BY <1>3, <1>6, <1>7, <1>8 DEF m, n, x, y

(* The context after the inferred pictures is what the encoder has after   *)
(* the pictures it has left out.                                           *)
Inferred(r, c, k) ==
  /\ r \in [0 .. k -> FilledFrom(c)]
  /\ r[0] = [ctx |-> c, drops |-> <<>>, ok |-> TRUE]
  /\ \A j \in 1 .. k : r[j] = WithGhost(r[j - 1], (c.prev + j) % MaxFrameNum)

Matches(map, e, d) ==
  /\ d.prev = e.prev /\ d.corrupted = FALSE
  /\ Agree(map, e.short, e.long, d)

Sim(map, e, c) ==
  /\ Sound(c) /\ c.corrupted = FALSE /\ c.prev \in Nums
  /\ e.prev = (c.prev + e.skipped) % MaxFrameNum
  /\ \E r : Inferred(r, c, e.skipped) /\ Matches(map, e, r[e.skipped].ctx)

LEMMA OneMoreInferred ==
  ASSUME NEW r, NEW c, NEW k \in Nat, Inferred(r, c, k), c.prev \in Nat
  PROVE  LET x == WithGhost(r[k], (c.prev + (k + 1)) % MaxFrameNum)
             q == [j \in 0 .. k + 1 |-> IF j <= k THEN r[j] ELSE x]
         IN  Inferred(q, c, k + 1) /\ q[k + 1] = x
<1> DEFINE num == (c.prev + (k + 1)) % MaxFrameNum
           x == WithGhost(r[k], num)
           q == [j \in 0 .. k + 1 |-> IF j <= k THEN r[j] ELSE x]
<1>1. /\ r \in [0 .. k -> FilledFrom(c)]
      /\ r[0] = [ctx |-> c, drops |-> <<>>, ok |-> TRUE]
      /\ \A j \in 1 .. k : r[j] = WithGhost(r[j - 1], (c.prev + j) % MaxFrameNum)
  BY DEF Inferred
<1>2. num \in Nat
  BY StreamAssumption
<1>3. k \in 0 .. k
  OBVIOUS
<1> HIDE DEF num
<1>4. x \in FilledFrom(c)
  BY <1>1, <1>2, <1>3, WithGhostBalanced
<1> HIDE DEF x
<1>5. /\ \A j \in 0 .. k : q[j] = r[j]
      /\ q[k + 1] = x /\ q \in [0 .. k + 1 -> FilledFrom(c)]
  BY <1>1, <1>4
<1> HIDE DEF q
<1>6. q[0] = [ctx |-> c, drops |-> <<>>, ok |-> TRUE]
  <2>1. 0 \in 0 .. k
    OBVIOUS
  <2> QED BY <1>1, <1>5, <2>1
<1>7. ASSUME NEW j \in 1 .. k + 1 PROVE q[j] = WithGhost(q[j - 1], (c.prev + j) % MaxFrameNum)
  <2>1. CASE j = k + 1
    <3>1. j - 1 = k /\ q[j - 1] = r[k]
      BY <1>3, <1>5, <2>1
    <3> QED BY <1>5, <2>1, <3>1 DEF x, num
  <2>2. CASE j # k + 1
    <3>1. j \in 1 .. k /\ j \in 0 .. k /\ j - 1 \in 0 .. k
      BY <2>2
    <3>2. q[j] = r[j] /\ q[j - 1] = r[j - 1]
      BY <1>5, <3>1
    <3> QED BY <1>1, <3>1, <3>2
  <2> QED BY <2>1, <2>2
<1>8. Inferred(q, c, k + 1)
  BY <1>5, <1>6, <1>7 DEF Inferred
<1> QED BY <1>5, <1>8 DEF q, x, num

LEMMA FilledFields ==
  ASSUME NEW c, NEW acc \in FilledFrom(c)
  PROVE  Sound(acc.ctx) /\ acc.ctx \in Context /\ acc \in Fills /\ Balanced(c, acc.ctx, acc.drops)
BY DEF FilledFrom, Fills, Balanced

\* A picture is left out.
LEMMA SkippedSim ==
  ASSUME MaxRefs >= 1, NEW map, NEW e \in Encoder, Orderly(e), CanSkip(e), NEW c, Sim(map, e, c)
  PROVE  Sim(map, Skipped(e), c)
<1> DEFINE k == e.skipped
           num == NextNum(e)
           ghost == [pic |-> Ghost, num |-> num]
           f == Skipped(e)
<1>1. /\ Sound(c) /\ c.corrupted = FALSE /\ c.prev \in Nums /\ c.prev \in Nat
      /\ e.prev = (c.prev + k) % MaxFrameNum
  BY NumsAreNumbers DEF Sim
<1>2. PICK r : Inferred(r, c, k) /\ Matches(map, e, r[k].ctx)
  BY DEF Sim
<1>3. k \in Nat /\ e.short \in Seq(EncRef) /\ e.long \in Seq(EncRef) /\ num \in Nums
  BY EncoderFields, NextNumType
<1>4. k + 1 < MaxFrameNum
  BY DEF Orderly
<1>5. num = (c.prev + (k + 1)) % MaxFrameNum
  <2>1. (((c.prev + k) % MaxFrameNum) + 1) % MaxFrameNum = (c.prev + (k + 1)) % MaxFrameNum
    BY <1>1, <1>3, <1>4, NumsOn
  <2> QED BY <1>1, <2>1 DEF NextNum
<1>6. /\ f.prev = num /\ f.skipped = k + 1 /\ f.long = e.long /\ f.short = Append(Slid(e.short, e.long), ghost)
  BY SkippedType
<1>7. ghost \in EncRef /\ ghost.num = num /\ ghost.pic = Ghost
  BY <1>3 DEF EncRef
<1>8. Rising(e.short, num) /\ Behind(e.short, num) /\ CanSlide(e.short, e.long)
      /\ Len(e.short) + Len(e.long) <= MaxRefs
  BY RisesOn DEF Orderly, CanSkip
<1> DEFINE d == r[k].ctx
           x == WithGhost(r[k], num)
           q == [j \in 0 .. k + 1 |-> IF j <= k THEN r[j] ELSE x]
           g == Evict(AddShort(d, num, TRUE), num)
<1> HIDE DEF k, num
<1>9. Inferred(q, c, k + 1) /\ q[k + 1] = x
  <2> DEFINE y == WithGhost(r[k], (c.prev + (k + 1)) % MaxFrameNum)
             p == [j \in 0 .. k + 1 |-> IF j <= k THEN r[j] ELSE y]
  <2>1. Inferred(p, c, k + 1) /\ p[k + 1] = y
    BY <1>1, <1>2, <1>3, OneMoreInferred
  <2>2. y = x
    BY <1>5
  <2> HIDE DEF y, x
  <2>3. p = q
    BY <2>2
  <2> QED BY <2>1, <2>2, <2>3
<1>10. r[k] \in FilledFrom(c)
  BY <1>2, <1>3 DEF Inferred
<1>11. Sound(d)
  BY <1>10, FilledFields
<1>12. num \in Nat
  BY <1>3, NumsAreNumbers
<1>13. Sound(g.ctx) /\ g.ctx \in Context
  <2>1. Sound(AddShort(d, num, TRUE))
    BY <1>11, <1>12, ShortAdded
  <2> QED BY <1>12, <2>1, EvictBalanced DEF Balanced, Sound
<1>14. x.ctx = [g.ctx EXCEPT !.prev = num]
  <2>1. r[k] \in Fills
    BY <1>10 DEF FilledFrom
  <2>2. x = [r[k] EXCEPT !.ctx = [g.ctx EXCEPT !.prev = num], !.drops = @ \o g.drops]
    BY DEF WithGhost
  <2> HIDE DEF g, x
  <2> QED BY <2>1, <2>2 DEF Fills
<1> HIDE DEF ghost, f, k, num
<1>15. /\ Agree(map, Append(Slid(e.short, e.long), ghost), e.long, g.ctx)
       /\ g.ctx.corrupted = d.corrupted
  <2> DEFINE t == TRUE
  <2>1. Agree(map, e.short, e.long, d)
    BY <1>2 DEF Matches
  <2>2. t \in BOOLEAN /\ (t <=> ghost.pic = Ghost) /\ (~t => map[d.nextId] = ghost.pic) /\ t = TRUE
    BY <1>7
  <2> DEFINE s == e.short
             l == e.long
  <2>4. /\ s \in Seq(EncRef) /\ l \in Seq(EncRef) /\ num \in Nums /\ Sound(d) /\ Agree(map, s, l, d)
        /\ Rising(s, num) /\ Behind(s, num) /\ CanSlide(s, l) /\ Len(s) + Len(l) <= MaxRefs
    BY <1>3, <1>8, <1>11, <2>1
  <2> HIDE DEF t, d, s, l, g, x, q
  <2>3. /\ Agree(map, Append(Slid(s, l), ghost), l, Evict(AddShort(d, num, t), num).ctx)
        /\ Evict(AddShort(d, num, t), num).ctx.corrupted = d.corrupted
    <3>1. SlidesOn(map, s, l, d, num, ghost, t)
      BY <1>7, <2>2, <2>4 DEF SlidesOn
    <3>2. SlidAgrees(map, s, l, d, num, ghost, t)
      BY <3>1, SlideAgrees
    <3> QED BY <3>2 DEF SlidAgrees
  <2> QED BY <2>2, <2>3 DEF s, l, g
<1> HIDE DEF g, x, q
<1>16. /\ x.ctx.prev = num /\ x.ctx.corrupted = g.ctx.corrupted /\ x.ctx.short = g.ctx.short
       /\ x.ctx.long = g.ctx.long /\ x.ctx.maxIdx = g.ctx.maxIdx
  BY <1>13, <1>14 DEF Context
<1>17. Matches(map, f, x.ctx)
  <2>1. d.corrupted = FALSE
    BY <1>2 DEF Matches
  <2>2. Agree(map, f.short, f.long, x.ctx)
    BY <1>6, <1>15, <1>16 DEF Agree
  <2> QED BY <1>6, <1>15, <1>16, <2>1, <2>2 DEF Matches
<1>18. Sim(map, f, c)
  BY <1>1, <1>5, <1>6, <1>9, <1>17 DEF Sim
<1> QED BY <1>18 DEF f

\* The same pictures are inferred from the gap in frame_num.
LEMMA GapFilled ==
  ASSUME NEW map, NEW e \in Encoder, Orderly(e), NEW c, Sim(map, e, c),
         NEW h, h.num = NextNum(e), h.gaps = e.uses.gaps, h.idr = FALSE
  PROVE  /\ ~Refused(c, h) /\ FillGap(c, h).ok = TRUE
         /\ Matches(map, e, FillGap(c, h).ctx) /\ Sound(FillGap(c, h).ctx)
<1> DEFINE k == e.skipped
           nums == MissingNums(c, h)
           base == [ctx |-> c, drops |-> <<>>, ok |-> TRUE]
<1>1. /\ Sound(c) /\ c.corrupted = FALSE /\ c.prev \in Nums /\ c.prev \in Nat
      /\ e.prev = (c.prev + k) % MaxFrameNum
  BY NumsAreNumbers DEF Sim
<1>2. PICK r : Inferred(r, c, k) /\ Matches(map, e, r[k].ctx)
  BY DEF Sim
<1>3. k \in Nat /\ k + 1 < MaxFrameNum /\ k <= MaxGapSize /\ (k > 0 => e.uses.gaps)
  BY EncoderFields DEF Orderly
<1> HIDE DEF k
<1>4. /\ h.num = (c.prev + (k + 1)) % MaxFrameNum
      /\ (h.num - c.prev - 1) % MaxFrameNum = k
      /\ k >= 1 => ~Follows(c, h.num)
  <2>1. /\ (((c.prev + k) % MaxFrameNum) + 1) % MaxFrameNum = (c.prev + (k + 1)) % MaxFrameNum
        /\ (((c.prev + (k + 1)) % MaxFrameNum) - c.prev - 1) % MaxFrameNum = k
        /\ k >= 1 => /\ (c.prev + (k + 1)) % MaxFrameNum # c.prev
                     /\ (c.prev + (k + 1)) % MaxFrameNum # (c.prev + 1) % MaxFrameNum
    BY <1>1, <1>3, NumsOn
  <2>2. h.num = (c.prev + (k + 1)) % MaxFrameNum
    BY <1>1, <2>1 DEF NextNum
  <2> QED BY <2>1, <2>2 DEF Follows
<1>5. k = 0 => Follows(c, h.num)
  <2>1. k = 0 => h.num = (c.prev + 1) % MaxFrameNum
    BY <1>3, <1>4
  <2> QED BY <2>1 DEF Follows
<1>6. ~Refused(c, h)
  <2>1. CASE k = 0
    BY <1>1, <1>5, <2>1 DEF Refused
  <2>2. CASE k # 0
    BY <1>1, <1>3, <2>2 DEF Refused
  <2> QED BY <2>1, <2>2
<1>7. nums \in Seq(Nat) /\ Len(nums) = k /\ \A i \in 1 .. k : nums[i] = (c.prev + i) % MaxFrameNum
  <2>1. CASE k = 0
    <3>1. nums = <<>>
      BY <1>5, <2>1 DEF MissingNums
    <3> HIDE DEF nums
    <3>2. <<>> \in Seq(Nat) /\ Len(<<>>) = 0 /\ 1 .. 0 = {}
      OBVIOUS
    <3> QED BY <2>1, <3>1, <3>2
  <2>2. CASE k # 0
    <3>1. h.gaps /\ ~h.idr /\ ~Follows(c, h.num)
      BY <1>3, <1>4, <2>2
    <3>2. nums = [i \in 1 .. k |-> (c.prev + i) % MaxFrameNum]
      BY <1>4, <3>1 DEF MissingNums
    <3>3. \A i \in 1 .. k : (c.prev + i) % MaxFrameNum \in Nat
      BY <1>1, StreamAssumption
    <3> HIDE DEF nums
    <3> QED BY <1>3, <3>2, <3>3
  <2> QED BY <2>1, <2>2
<1>8. FillGap(c, h) = FoldLeft(WithGhost, base, nums)
  <2>1. Len(nums) <= MaxGapSize
    BY <1>3, <1>7
  <2> QED BY <2>1 DEF FillGap
<1> HIDE DEF nums, base
<1>9. PICK g : GhostTrace(g, c, nums)
  BY <1>1, <1>7, GhostsTraced
<1>10. /\ g[0] = base /\ g[k] = FoldLeft(WithGhost, base, nums)
       /\ \A j \in 1 .. k : g[j] = WithGhost(g[j - 1], (c.prev + j) % MaxFrameNum)
  <2>1. /\ g[0] = base /\ g[k] = FoldLeft(WithGhost, base, nums)
        /\ \A j \in 1 .. k : g[j] = WithGhost(g[j - 1], nums[j])
    BY <1>7, <1>9 DEF GhostTrace, base
  <2> QED BY <1>7, <2>1
<1>11. /\ r[0] = base /\ r \in [0 .. k -> FilledFrom(c)]
       /\ \A j \in 1 .. k : r[j] = WithGhost(r[j - 1], (c.prev + j) % MaxFrameNum)
  BY <1>2 DEF Inferred, base
<1>12. r[k] = g[k]
  <2> DEFINE S == {j \in Nat : j <= k => r[j] = g[j]}
  <2>1. 0 \in S
    BY <1>10, <1>11
  <2>2. \A n \in Nat : n \in S => n + 1 \in S
    <3> SUFFICES ASSUME NEW n \in S, n + 1 <= k PROVE r[n + 1] = g[n + 1]
      OBVIOUS
    <3>1. n \in Nat /\ n <= k /\ n + 1 \in 1 .. k /\ n + 1 - 1 = n
      BY <1>3
    <3>2. r[n] = g[n]
      BY <3>1
    <3> DEFINE m == n + 1
    <3>3. m \in 1 .. k /\ m - 1 = n
      BY <3>1
    <3> HIDE DEF m
    <3>4. r[m] = g[m]
      BY <1>10, <1>11, <3>2, <3>3
    <3> QED BY <3>4 DEF m
  <2> HIDE DEF S
  <2>3. k \in S
    BY <1>3, <2>1, <2>2, AllNumbers
  <2> QED BY <1>3, <2>3 DEF S
<1>13. r[k] \in FilledFrom(c)
  BY <1>3, <1>11
<1>14. r[k].ok = TRUE
  <2> DEFINE Q(j) == r[j].ok = TRUE
             S == {j \in Nat : j <= k => Q(j)}
  <2>1. 0 \in S
    BY <1>11 DEF base
  <2>2. \A n \in Nat : n \in S => n + 1 \in S
    <3> HIDE DEF Q
    <3> SUFFICES ASSUME NEW n \in S, n + 1 <= k PROVE Q(n + 1)
      OBVIOUS
    <3> DEFINE m == n + 1
    <3>1. n \in Nat /\ n <= k /\ m \in 1 .. k /\ m - 1 = n /\ n \in 0 .. k
      BY <1>3
    <3>2. r[n].ok = TRUE
      BY <3>1 DEF Q
    <3> HIDE DEF m
    <3>3. r[m] = WithGhost(r[n], (c.prev + m) % MaxFrameNum)
      BY <1>11, <3>1
    <3>4. r[n] \in Fills
      BY <1>11, <3>1, FilledFields
    <3>5. \A acc \in Fills : \A num : WithGhost(acc, num).ok = acc.ok
      BY DEF WithGhost, Fills
    <3>6. r[m].ok = TRUE
      BY <3>2, <3>3, <3>4, <3>5
    <3> QED BY <3>6 DEF m, Q
  <2> HIDE DEF S
  <2>3. k \in S
    BY <1>3, <2>1, <2>2, AllNumbers
  <2> QED BY <1>3, <2>3 DEF S
<1>15. FillGap(c, h) = r[k]
  BY <1>8, <1>10, <1>12
<1> QED BY <1>2, <1>6, <1>13, <1>14, <1>15, FilledFields

-----------------------------------------------------------------------------
(* The reference list *)

\* Sorting by a key that falls turns a list round.
LEMMA SortedReverses ==
  ASSUME NEW T, NEW pics \in Seq(T), NEW key, \A i \in DOMAIN pics : key[i] \in Int,
         \A i, j \in DOMAIN pics : i < j => key[j] < key[i]
  PROVE  Sorted(pics, key) = Reverse(pics)
<1> DEFINE n == Len(pics)
           Before(i) == {j \in DOMAIN pics : key[j] < key[i] \/ (key[j] = key[i] /\ j < i)}
           At(k) == CHOOSE i \in DOMAIN pics : Cardinality(Before(i)) = k - 1
<1>1. n \in Nat /\ DOMAIN pics = 1 .. n
  OBVIOUS
<1>2. Sorted(pics, key) = [k \in DOMAIN pics |-> pics[At(k)]]
  BY DEF Sorted
<1> HIDE DEF n
<1>3. ASSUME NEW i \in 1 .. n PROVE Cardinality(Before(i)) = n - i
  <2>1. Before(i) = i + 1 .. n
    <3>1. ASSUME NEW j \in 1 .. n PROVE (key[j] < key[i] \/ (key[j] = key[i] /\ j < i)) <=> j > i
      <4>1. key[i] \in Int /\ key[j] \in Int /\ i \in Int /\ j \in Int
        BY <1>1
      <4>2. CASE j > i
        <5>1. key[j] < key[i]
          BY <1>1, <4>1, <4>2
        <5> QED BY <4>2, <5>1
      <4>3. CASE j = i
        BY <4>1, <4>3
      <4>4. CASE j < i
        <5>1. key[i] < key[j]
          BY <1>1, <4>4
        <5> QED BY <4>1, <4>4, <5>1
      <4> QED BY <4>1, <4>2, <4>3, <4>4
    <3>2. \A j : j \in Before(i) <=> j \in 1 .. n /\ j > i
      BY <1>1, <3>1
    <3> HIDE DEF Before
    <3>3. \A j : j \in Before(i) <=> j \in i + 1 .. n
      BY <1>1, <3>2
    <3> QED BY <3>3
  <2>2. Cardinality(i + 1 .. n) = IF i + 1 > n THEN 0 ELSE n - (i + 1) + 1
    BY <1>1, FS_Interval
  <2>3. (IF i + 1 > n THEN 0 ELSE n - (i + 1) + 1) = n - i
    BY <1>1
  <2> HIDE DEF Before
  <2> QED BY <2>1, <2>2, <2>3
<1> HIDE DEF Before
<1>4. ASSUME NEW k \in 1 .. n PROVE At(k) = (n - k) + 1
  <2> DEFINE i == (n - k) + 1
  <2>1. i \in 1 .. n /\ Cardinality(Before(i)) = k - 1
    <3>1. i \in 1 .. n
      BY <1>1
    <3>2. Cardinality(Before(i)) = n - i
      BY <1>3, <3>1
    <3> QED BY <1>1, <3>1, <3>2
  <2>2. \A j \in 1 .. n : Cardinality(Before(j)) = k - 1 => j = i
    <3> TAKE j \in 1 .. n
    <3>1. Cardinality(Before(j)) = n - j
      BY <1>3
    <3> QED BY <1>1, <3>1
  <2> HIDE DEF i
  <2>3. At(k) = i
    BY <1>1, <2>1, <2>2
  <2> QED BY <2>3 DEF i
<1> HIDE DEF At
<1>5. Sorted(pics, key) = [k \in 1 .. n |-> pics[(n - k) + 1]]
  BY <1>1, <1>2, <1>4
<1> QED BY <1>5 DEF Reverse, n

LEMMA OneReversed ==
  ASSUME NEW T, NEW s \in Seq(T), Len(s) <= 1
  PROVE  Reverse(s) = s
<1>1. Len(s) \in Nat /\ s = [k \in 1 .. Len(s) |-> s[k]]
  OBVIOUS
<1>2. \A k \in 1 .. Len(s) : (Len(s) - k) + 1 = k
  BY <1>1
<1>3. Reverse(s) = [k \in 1 .. Len(s) |-> s[(Len(s) - k) + 1]]
  BY DEF Reverse
<1> QED BY <1>1, <1>2, <1>3

ListRef == [id : Nat, num : Nat, idx : Int, ghost : BOOLEAN]

ShortEntry(x) == [id |-> x.id, num |-> x.num, idx |-> NoIdx, ghost |-> x.ghost]
LongEntry(x)  == [id |-> x.id, num |-> x.num, idx |-> x.idx, ghost |-> FALSE]

\* From the last decoded to the first, the long-term picture behind them.
LEMMA InitialListIs ==
  ASSUME NEW d \in Context, NEW num \in Nat, Len(d.long) <= 1,
         \A i, j \in DOMAIN d.short : i < j => Wrap(d.short[i].num, num) < Wrap(d.short[j].num, num)
  PROVE  LET n == Len(d.short)
             m == Len(d.long)
             q == InitialList(d, num)
         IN  /\ n \in Nat /\ m \in Nat /\ q \in Seq(ListRef) /\ Len(q) = n + m
             /\ \A k \in 1 .. n : (n - k) + 1 \in 1 .. n /\ q[k] = ShortEntry(d.short[(n - k) + 1])
             /\ \A k \in 1 .. m : q[n + k] = LongEntry(d.long[k])
<1> DEFINE n == Len(d.short)
           m == Len(d.long)
           s == [i \in DOMAIN d.short |-> ShortEntry(d.short[i])]
           l == [i \in DOMAIN d.long |-> LongEntry(d.long[i])]
           ks == [i \in DOMAIN d.short |-> -Wrap(d.short[i].num, num)]
           kl == [i \in DOMAIN d.long |-> d.long[i].idx]
<1>1. /\ d.short \in Seq(ShortRef) /\ d.long \in Seq(LongRef)
      /\ \A i \in DOMAIN d.short : d.short[i].id \in Nat /\ d.short[i].num \in Nat /\ d.short[i].ghost \in BOOLEAN
      /\ \A i \in DOMAIN d.long : d.long[i].id \in Nat /\ d.long[i].idx \in Int
  BY ContextFields
<1>2. \A i \in DOMAIN d.long : d.long[i].num \in Nat
  <2>1. \A i \in DOMAIN d.long : d.long[i] \in LongRef
    BY <1>1
  <2> QED BY <2>1 DEF LongRef
<1>3. n \in Nat /\ m \in Nat /\ DOMAIN d.short = 1 .. n /\ DOMAIN d.long = 1 .. m
  BY <1>1
<1>4. InitialList(d, num) = Sorted(s, ks) \o Sorted(l, kl)
  BY DEF InitialList, ShortEntry, LongEntry
<1>5. s \in Seq(ListRef) /\ Len(s) = n /\ \A i \in 1 .. n : s[i] = ShortEntry(d.short[i])
  <2>1. \A i \in 1 .. n : ShortEntry(d.short[i]) \in ListRef
    BY <1>1, <1>3 DEF ShortEntry, ListRef, NoIdx
  <2>2. s = [i \in 1 .. n |-> ShortEntry(d.short[i])]
    BY <1>3
  <2> QED BY <1>3, <2>1, <2>2
<1>6. l \in Seq(ListRef) /\ Len(l) = m /\ \A i \in 1 .. m : l[i] = LongEntry(d.long[i])
  <2>1. \A i \in 1 .. m : LongEntry(d.long[i]) \in ListRef
    BY <1>1, <1>2, <1>3 DEF LongEntry, ListRef
  <2>2. l = [i \in 1 .. m |-> LongEntry(d.long[i])]
    BY <1>3
  <2> QED BY <1>3, <2>1, <2>2
<1>7. \A i \in 1 .. n : ks[i] = -Wrap(d.short[i].num, num) /\ Wrap(d.short[i].num, num) \in Int
  BY <1>1, <1>3, WrapBounds
<1>8. \A i \in 1 .. m : kl[i] \in Int
  BY <1>1, <1>3
<1> HIDE DEF s, l, ks, kl
<1>9. Sorted(s, ks) = Reverse(s)
  <2>1. DOMAIN s = 1 .. n
    BY <1>5
  <2>2. \A i \in DOMAIN s : ks[i] \in Int
    BY <1>7, <2>1
  <2>3. ASSUME NEW i \in DOMAIN s, NEW j \in DOMAIN s, i < j PROVE ks[j] < ks[i]
    <3>1. Wrap(d.short[i].num, num) < Wrap(d.short[j].num, num)
      BY <1>3, <2>1, <2>3
    <3> QED BY <1>7, <2>1, <3>1
  <2> QED BY <1>5, <2>2, <2>3, SortedReverses
<1>10. Sorted(l, kl) = l
  <2>1. DOMAIN l = 1 .. m
    BY <1>6
  <2>2. \A i \in DOMAIN l : kl[i] \in Int
    BY <1>8, <2>1
  <2>3. \A i, j \in DOMAIN l : ~(i < j)
    BY <1>3, <2>1
  <2>4. Sorted(l, kl) = Reverse(l)
    BY <1>6, <2>2, <2>3, SortedReverses
  <2> QED BY <1>6, <2>4, OneReversed
<1> DEFINE t == Reverse(s)
<1>11. t \in Seq(ListRef) /\ Len(t) = n /\ \A k \in 1 .. n : t[k] = s[(n - k) + 1]
  <2>1. t \in Seq(ListRef) /\ Len(t) = Len(s) /\ \A k \in 1 .. Len(s) : t[k] = s[Len(s) - k + 1]
    BY <1>5, ReverseIs
  <2> QED BY <1>5, <2>1
<1> HIDE DEF t
<1>12. /\ t \o l \in Seq(ListRef) /\ Len(t \o l) = Len(t) + Len(l)
       /\ \A i \in 1 .. Len(t) : (t \o l)[i] = t[i]
       /\ \A i \in 1 .. Len(l) : (t \o l)[Len(t) + i] = l[i]
  <2>1. t \in Seq(ListRef) /\ l \in Seq(ListRef)
    BY <1>6, <1>11
  <2> QED BY ONLY <2>1, ConcatIs
<1>13. InitialList(d, num) = t \o l
  BY <1>4, <1>9, <1>10 DEF t
<1> HIDE DEF n, m
<1>14. ASSUME NEW k \in 1 .. n
       PROVE  (n - k) + 1 \in 1 .. n /\ (t \o l)[k] = ShortEntry(d.short[(n - k) + 1])
  <2>1. (n - k) + 1 \in 1 .. n
    BY <1>3
  <2> QED BY <1>5, <1>11, <1>12, <2>1
<1>15. \A k \in 1 .. m : (t \o l)[n + k] = LongEntry(d.long[k])
  BY <1>6, <1>11, <1>12
<1>16. Len(t \o l) = n + m
  BY <1>6, <1>11, <1>12
<1> QED BY <1>3, <1>12, <1>13, <1>14, <1>15, <1>16 DEF n, m

\* x of the manager's list is r of the encoder's.
Names(map, d, x, r) ==
  /\ x.ghost <=> r.pic = Ghost
  /\ ~x.ghost => map[x.id] = r.pic /\ x.id \in Refs(d)

\* The list of the manager is q, that of the encoder L, and n of the pictures are short-term ones.
ListsMatch(map, d, q, L, n, m, num) ==
  /\ q \in Seq(ListRef) /\ L \in Seq(EncRef) /\ Len(q) = n + m /\ Len(L) = Len(q)
  /\ n \in Nat /\ m \in {0, 1}
  /\ \A k \in 1 .. Len(q) : Names(map, d, q[k], L[k])
  /\ \A k \in 1 .. n : q[k].num = L[k].num /\ q[k].idx = NoIdx
  /\ \A k \in n + 1 .. Len(q) : q[k].idx = 0
  /\ \A j, k \in 1 .. n : Wrap(q[j].num, num) = Wrap(q[k].num, num) => j = k

LEMMA ListsAgree ==
  ASSUME NEW map, NEW short \in Seq(EncRef), NEW long \in Seq(EncRef), NEW num \in Nums,
         InOrder(short, long, num), NEW d, Sound(d), Agree(map, short, long, d)
  PROVE  ListsMatch(map, d, InitialList(d, num), DefaultList(short, long), Len(short), Len(long), num)
<1> DEFINE q == InitialList(d, num)
           L == DefaultList(short, long)
           n == Len(short)
           m == Len(long)
<1>1. /\ n \in Nat /\ m \in {0, 1} /\ d \in Context /\ num \in Nat
      /\ d.short \in Seq(ShortRef) /\ d.long \in Seq(LongRef) /\ Len(d.short) = n /\ Len(d.long) = m
  <2>1. Len(short) \in Nat /\ Len(long) \in Nat /\ Len(long) <= 1
    BY DEF InOrder
  <2>2. d \in Context /\ num \in Nat /\ d.short \in Seq(ShortRef) /\ d.long \in Seq(LongRef)
    BY ContextFields, NumsAreNumbers DEF Sound
  <2>3. Len(d.short) = n /\ Len(d.long) = m
    BY DEF Agree, SameShort, SameLong
  <2>5. \A x \in Nat : x <= 1 => x \in {0, 1}
    OBVIOUS
  <2>4. m \in {0, 1}
    BY <2>1, <2>5
  <2> QED BY <2>1, <2>2, <2>3, <2>4
<1>2. /\ \A i \in 1 .. n : /\ d.short[i].num = short[i].num
                           /\ d.short[i].ghost <=> short[i].pic = Ghost
                           /\ ~d.short[i].ghost => map[d.short[i].id] = short[i].pic
      /\ \A i \in 1 .. m : d.long[i].idx = 0 /\ map[d.long[i].id] = long[i].pic
  BY DEF Agree, SameShort, SameLong
<1>3. /\ \A i \in 1 .. n : ~d.short[i].ghost => d.short[i].id \in Refs(d)
      /\ \A i \in 1 .. m : d.long[i].id \in Refs(d)
  <2>1. DOMAIN d.short = 1 .. n /\ DOMAIN d.long = 1 .. m
    BY <1>1
  <2> QED BY <2>1, RefsMembers
<1>4. \A i \in 1 .. m : long[i].pic # Ghost
  <2>1. DOMAIN long = 1 .. m
    OBVIOUS
  <2> QED BY <2>1 DEF InOrder
<1>5. /\ \A i \in 1 .. n : Wrap(d.short[i].num, num) \in Int
      /\ \A i, j \in 1 .. n : i < j => Wrap(d.short[i].num, num) < Wrap(d.short[j].num, num)
  <2>1. Rising(short, num) /\ Len(d.short) = Len(short)
    BY <1>1 DEF InOrder
  <2> QED BY <1>2, <2>1, WrapsRise
<1>6. L \in Seq(EncRef) /\ Len(L) = n + m
      /\ (\A k \in 1 .. n : L[k] = short[(n - k) + 1]) /\ (\A k \in 1 .. m : L[n + k] = long[k])
  <2> DEFINE t == Reverse(short)
  <2>1. t \in Seq(EncRef) /\ Len(t) = n /\ \A k \in 1 .. n : t[k] = short[n - k + 1]
    BY ReverseIs
  <2>2. L = t \o long
    BY DEF DefaultList
  <2> HIDE DEF t
  <2>3. /\ t \o long \in Seq(EncRef) /\ Len(t \o long) = Len(t) + Len(long)
        /\ \A i \in 1 .. Len(t) : (t \o long)[i] = t[i]
        /\ \A i \in 1 .. Len(long) : (t \o long)[Len(t) + i] = long[i]
    <3>1. t \in Seq(EncRef) /\ long \in Seq(EncRef)
      BY <2>1
    <3> QED BY ONLY <3>1, ConcatIs
  <2> HIDE DEF L, n, m
  <2> QED BY <2>1, <2>2, <2>3 DEF m
<1>7. /\ q \in Seq(ListRef) /\ Len(q) = n + m
      /\ \A k \in 1 .. n : (n - k) + 1 \in 1 .. n /\ q[k] = ShortEntry(d.short[(n - k) + 1])
      /\ \A k \in 1 .. m : q[n + k] = LongEntry(d.long[k])
  <2>4. \A s \in Seq(ShortRef) : DOMAIN s = 1 .. Len(s)
    OBVIOUS
  <2>6. \A x \in {0, 1} : x <= 1
    OBVIOUS
  <2>5. Len(d.long) = m /\ m <= 1
    BY <1>1, <2>6
  <2>1. DOMAIN d.short = 1 .. n /\ Len(d.long) <= 1
    BY <1>1, <2>4, <2>5
  <2>2. \A i, j \in DOMAIN d.short : i < j => Wrap(d.short[i].num, num) < Wrap(d.short[j].num, num)
    BY <1>5, <2>1
  <2>3. LET nn == Len(d.short)
            mm == Len(d.long)
        IN  /\ q \in Seq(ListRef) /\ Len(q) = nn + mm
            /\ \A k \in 1 .. nn : (nn - k) + 1 \in 1 .. nn /\ q[k] = ShortEntry(d.short[(nn - k) + 1])
            /\ \A k \in 1 .. mm : q[nn + k] = LongEntry(d.long[k])
    BY <1>1, <2>1, <2>2, InitialListIs
  <2> HIDE DEF q, n, m
  <2> QED BY <1>1, <2>3
<1> HIDE DEF q, L, n, m
<1>8. ASSUME NEW k \in 1 .. n
      PROVE  /\ Names(map, d, q[k], L[k]) /\ q[k].num = L[k].num /\ q[k].idx = NoIdx
             /\ q[k].num = d.short[(n - k) + 1].num
  <2> DEFINE j == (n - k) + 1
             x == d.short[j]
  <2>1. j \in 1 .. n /\ q[k] = ShortEntry(x) /\ L[k] = short[j]
    BY <1>6, <1>7
  <2> HIDE DEF j
  <2>2. q[k].num = x.num /\ q[k].idx = NoIdx /\ q[k].ghost = x.ghost /\ q[k].id = x.id
    BY <2>1 DEF ShortEntry
  <2>3. x.num = short[j].num /\ (x.ghost <=> short[j].pic = Ghost) /\ (~x.ghost => map[x.id] = short[j].pic)
        /\ (~x.ghost => x.id \in Refs(d))
    BY <1>2, <1>3, <2>1
  <2> QED BY <2>1, <2>2, <2>3 DEF Names, j
<1>9. ASSUME NEW k \in n + 1 .. Len(q)
      PROVE  Names(map, d, q[k], L[k]) /\ q[k].idx = 0
  <2> DEFINE j == k - n
             x == d.long[j]
  <2>1. j \in 1 .. m /\ n + j = k
    BY <1>1, <1>7
  <2>2. q[k] = LongEntry(x) /\ L[k] = long[j]
    BY <1>6, <1>7, <2>1
  <2> HIDE DEF j
  <2>3. q[k].idx = x.idx /\ q[k].ghost = FALSE /\ q[k].id = x.id
    BY <2>2 DEF LongEntry
  <2>4. x.idx = 0 /\ map[x.id] = long[j].pic /\ long[j].pic # Ghost /\ x.id \in Refs(d)
    BY <1>2, <1>3, <1>4, <2>1
  <2> QED BY <2>2, <2>3, <2>4 DEF Names
<1>10. ASSUME NEW k \in 1 .. Len(q) PROVE Names(map, d, q[k], L[k])
  <2>1. k \in 1 .. n \/ k \in n + 1 .. Len(q)
    BY <1>1, <1>7
  <2> QED BY <1>8, <1>9, <2>1
<1>11. ASSUME NEW j \in 1 .. n, NEW k \in 1 .. n, Wrap(q[j].num, num) = Wrap(q[k].num, num)
       PROVE  j = k
  <2> DEFINE a == (n - j) + 1
             b == (n - k) + 1
             w(i) == Wrap(d.short[i].num, num)
  <2>1. a \in 1 .. n /\ b \in 1 .. n /\ (a = b => j = k)
    BY <1>1
  <2>2. w(a) = w(b)
    BY <1>8, <1>11
  <2> HIDE DEF a, b, w
  <2>3. w(a) \in Int /\ w(b) \in Int /\ (a < b => w(a) < w(b)) /\ (b < a => w(b) < w(a))
    BY <1>5, <2>1 DEF w
  <2>4. a = b
    BY <1>1, <2>1, <2>2, <2>3
  <2> QED BY <2>1, <2>4
<1>12. Len(L) = Len(q)
  BY <1>6, <1>7
<1>13. ListsMatch(map, d, q, L, n, m, num)
  <2>1. Len(q) = n + m
    BY <1>7
  <2> HIDE DEF q, L, n, m
  <2>2. \A k \in n + 1 .. Len(q) : q[k].idx = 0
    BY <1>9
  <2>3. \A k \in 1 .. n : q[k].num = L[k].num /\ q[k].idx = NoIdx
    BY <1>8
  <2>4. \A k \in 1 .. Len(q) : Names(map, d, q[k], L[k])
    BY <1>10
  <2>5. \A j, k \in 1 .. n : Wrap(q[j].num, num) = Wrap(q[k].num, num) => j = k
    BY <1>11
  <2> QED BY <1>1, <1>6, <1>7, <1>12, <2>1, <2>2, <2>3, <2>4, <2>5 DEF ListsMatch
<1> QED BY <1>13 DEF q, L, n, m

\* What one modification of the list does.
Modify(acc, op, num) ==
  IF ~acc.ok THEN acc
  ELSE IF op.op = "LongTermRef" THEN ModifyLong(acc, op)
  ELSE ModifyShort(acc, op, num)

Unmodified(list, h) == [list |-> list, at |-> 1, pred |-> h.num, ok |-> TRUE]

LEMMA NotModified ==
  ASSUME NEW list, NEW h, h.mods = <<>>
  PROVE  Modified(list, h) = Unmodified(list, h)
<1> DEFINE base == Unmodified(list, h)
           next(acc, op) == Modify(acc, op, h.num)
           s == <<>>
           it[u \in SUBSET DOMAIN s] == IF u = {} THEN base ELSE next(it[u \ {Max(u)}], s[Max(u)])
           g == [u \in SUBSET DOMAIN s |-> base]
<1>1. DOMAIN s = {} /\ Len(s) = 0 /\ 1 .. 0 = {}
  OBVIOUS
<1>2. Modified(list, h) = it[{}]
  BY <1>1 DEF Modified, Modify, Unmodified, FoldLeft, MapThenFoldSet
<1> HIDE DEF base, next
<1>3. g = [u \in SUBSET DOMAIN s |-> IF u = {} THEN base ELSE next(g[u \ {Max(u)}], s[Max(u)])]
  <2>1. \A u \in SUBSET DOMAIN s : u = {}
    BY <1>1
  <2> QED BY <2>1
<1>4. it = [u \in SUBSET DOMAIN s |-> IF u = {} THEN base ELSE next(it[u \ {Max(u)}], s[Max(u)])]
  BY <1>3
<1> HIDE DEF it
<1>5. it[{}] = base
  BY <1>4
<1> QED BY <1>2, <1>5 DEF base

LEMMA ModifiedOnce ==
  ASSUME NEW list, NEW m, NEW h, h.mods = <<m>>
  PROVE  Modified(list, h) = Modify(Unmodified(list, h), m, h.num)
<1> DEFINE base == Unmodified(list, h)
           next(acc, op) == Modify(acc, op, h.num)
           s == <<m>>
           it[u \in SUBSET DOMAIN s] == IF u = {} THEN base ELSE next(it[u \ {Max(u)}], s[Max(u)])
           g == [u \in SUBSET DOMAIN s |-> IF u = {} THEN base ELSE next(base, m)]
<1>1. Len(s) = 1 /\ s[1] = m
  BY OneElement, Zenon
<1>2. DOMAIN s = 1 .. 1
  OBVIOUS
<1>3. Modified(list, h) = it[1 .. 1]
  BY <1>2 DEF Modified, Modify, Unmodified, FoldLeft, MapThenFoldSet
<1>4. Max(1 .. 1) = 1 /\ (1 .. 1) \ {Max(1 .. 1)} = {}
  <2>1. 1 \in Nat \ {0} /\ 1 .. 1 - 1 = {}
    OBVIOUS
  <2> QED BY <2>1, MaxOfInterval
<1> HIDE DEF base, next, s
<1>5. g = [u \in SUBSET DOMAIN s |-> IF u = {} THEN base ELSE next(g[u \ {Max(u)}], s[Max(u)])]
  <2>1. ASSUME NEW u \in SUBSET DOMAIN s, u # {}
        PROVE  next(base, m) = next(g[u \ {Max(u)}], s[Max(u)])
    <3>1. u = 1 .. 1
      BY <1>2, <2>1
    <3>2. {} \in SUBSET DOMAIN s
      OBVIOUS
    <3>3. g[{}] = base
      BY <3>2
    <3> HIDE DEF g
    <3> QED BY <1>1, <1>4, <3>1, <3>3
  <2> QED BY <2>1
<1>6. it = [u \in SUBSET DOMAIN s |-> IF u = {} THEN base ELSE next(it[u \ {Max(u)}], s[Max(u)])]
  BY <1>5
<1> HIDE DEF it, g
<1>7. it[{}] = base
  BY <1>6
<1>8. it[1 .. 1] = next(base, m)
  <2>1. 1 .. 1 \in SUBSET DOMAIN s /\ 1 .. 1 # {}
    BY <1>2
  <2> QED BY <1>1, <1>4, <1>6, <1>7, <2>1
<1> QED BY <1>3, <1>8 DEF next, base

\* Copying picture i to the front and removing the original, or the other way round.
LEMMA InsertedFirst ==
  ASSUME NEW T, NEW s \in Seq(T), NEW x \in T
  PROVE  /\ InsertAt(s, 1, x) \in Seq(T)
         /\ Len(InsertAt(s, 1, x)) = Len(s) + 1 /\ InsertAt(s, 1, x)[1] = x
         /\ \A k \in 1 .. Len(s) : InsertAt(s, 1, x)[k + 1] = s[k]
<1> DEFINE a == <<x>>
<1>1. a \in Seq(T) /\ Len(a) = 1 /\ a[1] = x /\ Len(s) \in Nat
  OBVIOUS
<1>2. SubSeq(s, 1, 1 - 1) = <<>> /\ SubSeq(s, 1, Len(s)) = s
  OBVIOUS
<1>3. InsertAt(s, 1, x) = <<>> \o a \o s
  BY <1>2 DEF InsertAt
<1> HIDE DEF a
<1>4. <<>> \o a = a
  BY <1>1
<1>5. /\ a \o s \in Seq(T) /\ Len(a \o s) = Len(a) + Len(s)
      /\ \A i \in 1 .. Len(a) : (a \o s)[i] = a[i]
      /\ \A i \in 1 .. Len(s) : (a \o s)[Len(a) + i] = s[i]
  <2>1. a \in Seq(T) /\ s \in Seq(T)
    BY <1>1
  <2> QED BY ONLY <2>1, ConcatIs
<1> DEFINE q == a \o s
<1>6. InsertAt(s, 1, x) = q
  BY <1>3, <1>4
<1>7. q \in Seq(T) /\ Len(q) = 1 + Len(s) /\ (\A i \in 1 .. Len(s) : q[1 + i] = s[i]) /\ q[1] = a[1]
  BY <1>1, <1>5
<1> HIDE DEF q
<1>8. \A k \in 1 .. Len(s) : q[k + 1] = s[k]
  <2>1. \A k \in 1 .. Len(s) : k + 1 = 1 + k
    BY <1>1
  <2> QED BY <1>7, <2>1
<1>9. Len(q) = Len(s) + 1
  BY <1>1, <1>7
<1> QED BY <1>1, <1>6, <1>7, <1>8, <1>9 DEF q, a

LEMMA InsertedIsConcat ==
  ASSUME NEW T, NEW s \in Seq(T), NEW x \in T
  PROVE  InsertAt(s, 1, x) = <<x>> \o s
<1> DEFINE a == <<x>>
<1>1. a \in Seq(T)
  OBVIOUS
<1>2. SubSeq(s, 1, 1 - 1) = <<>> /\ SubSeq(s, 1, Len(s)) = s
  OBVIOUS
<1>3. InsertAt(s, 1, x) = <<>> \o a \o s
  BY <1>2 DEF InsertAt
<1> HIDE DEF a
<1>4. <<>> \o a = a
  BY <1>1
<1> QED BY <1>3, <1>4 DEF a

LEMMA SameSequence ==
  ASSUME NEW T, NEW a \in Seq(T), NEW b \in Seq(T), Len(a) = Len(b),
         \A k \in 1 .. Len(a) : a[k] = b[k]
  PROVE  a = b
  OBVIOUS

LEMMA MovedIsLed ==
  ASSUME NEW T, NEW s \in Seq(T), NEW i \in DOMAIN s
  PROVE  MovedUp(s, 1, i) = Led(s, i) /\ InsertAt(RemoveAt(s, i), 1, s[i]) = Led(s, i)
<1> DEFINE c == InsertAt(s, 1, s[i])
           a == RemoveAt(c, i + 1)
           b == Led(s, i)
           n == Len(s)
<1>1. n \in Nat /\ i \in 1 .. n /\ s[i] \in T /\ 1 <= i /\ ~(1 > n + 1)
  OBVIOUS
<1>2. /\ c \in Seq(T) /\ Len(c) = n + 1 /\ c[1] = s[i] /\ \A k \in 1 .. n : c[k + 1] = s[k]
  <2> DEFINE x == s[i]
  <2>1. x \in T
    BY <1>1
  <2>0. s \in Seq(T)
    OBVIOUS
  <2> HIDE DEF x
  <2>2. /\ InsertAt(s, 1, x) \in Seq(T)
        /\ Len(InsertAt(s, 1, x)) = Len(s) + 1 /\ InsertAt(s, 1, x)[1] = x
        /\ \A k \in 1 .. Len(s) : InsertAt(s, 1, x)[k + 1] = s[k]
    BY ONLY <2>0, <2>1, InsertedFirst
  <2> QED BY ONLY <2>2 DEF c, n, x
<1>3. MovedUp(s, 1, i) = a
  BY <1>1 DEF MovedUp
<1> HIDE DEF c
<1>4. i + 1 \in DOMAIN c
  BY <1>1, <1>2
<1>5. /\ a \in Seq(T) /\ Len(a) = Len(c) - 1
      /\ \A k \in 1 .. Len(c) - 1 : a[k] = IF k < i + 1 THEN c[k] ELSE c[k + 1]
  BY <1>2, <1>4, RemoveAtIs
<1>6. /\ b \in Seq(T) /\ Len(b) = n /\ b[1] = s[i]
      /\ \A k \in 2 .. n : b[k] = IF k <= i THEN s[k - 1] ELSE s[k]
  BY LedIs
<1> HIDE DEF a, b, n
<1>7. Len(a) = n /\ \A k \in 1 .. n : a[k] = IF k < i + 1 THEN c[k] ELSE c[k + 1]
  <2>1. Len(c) - 1 = n
    BY <1>1, <1>2
  <2> QED BY <1>5, <2>1
<1>8. ASSUME NEW k \in 1 .. n PROVE a[k] = b[k]
  <2>1. CASE k = 1
    <3>1. 1 < i + 1
      BY <1>1
    <3> QED BY <1>2, <1>6, <1>7, <2>1, <3>1
  <2>2. CASE k # 1
    <3> DEFINE j == k - 1
    <3>1. k \in 2 .. n /\ j \in 1 .. n /\ j + 1 = k /\ (k < i + 1 <=> k <= i)
      BY <1>1, <2>2
    <3>2. c[k] = s[j] /\ c[k + 1] = s[k]
      <4>1. c[j + 1] = s[j]
        BY <1>2, <3>1
      <4> QED BY <1>2, <3>1, <4>1
    <3>3. b[k] = IF k <= i THEN s[j] ELSE s[k]
      BY <1>6, <3>1
    <3> QED BY <1>7, <3>1, <3>2, <3>3
  <2> QED BY <2>1, <2>2
<1>9. a = b
  <2>1. a \in Seq(T) /\ b \in Seq(T) /\ Len(a) = Len(b) /\ Len(a) = n
    BY <1>5, <1>6, <1>7
  <2>2. \A k \in 1 .. Len(a) : a[k] = b[k]
    BY <1>8, <2>1
  <2> QED BY ONLY <2>1, <2>2, SameSequence
<1>10. InsertAt(RemoveAt(s, i), 1, s[i]) = b
  <2>1. RemoveAt(s, i) \in Seq(T)
    BY RemoveAtIs
  <2>2. s[i] \in T
    BY <1>1
  <2>3. InsertAt(RemoveAt(s, i), 1, s[i]) = <<s[i]>> \o RemoveAt(s, i)
    BY <2>1, <2>2, InsertedIsConcat, Zenon
  <2> QED BY <2>3 DEF b, Led
<1> QED BY <1>3, <1>9, <1>10 DEF b

Command(op, value) == [op |-> op, value |-> value]

MovedAcc(acc, at, pred, l) == [acc EXCEPT !.at = at, !.pred = pred, !.list = l]
MovedLong(acc, at, l)      == [acc EXCEPT !.at = at, !.list = l]

\* The first of the pictures that pass is found.
LEMMA FoundFirst ==
  ASSUME NEW n \in Nat, NEW I, I \subseteq 1 .. n, NEW i \in I, \A k \in I : ~(k < i)
  PROVE  I # {} /\ Min(I) = i
<1> DEFINE s == [k \in 1 .. n |-> k]
<1>1. s \in Seq(Nat) /\ Len(s) = n
  OBVIOUS
<1> HIDE DEF s
<1>2. Min(I) \in I /\ \A j \in I : Min(I) <= j
  <2>1. I \subseteq 1 .. Len(s) /\ I # {}
    BY <1>1
  <2> QED BY <1>1, <2>1, FoundPosition
<1>3. Min(I) <= i /\ ~(Min(I) < i) /\ Min(I) \in Nat /\ i \in Nat
  <2>1. i \in Nat /\ I \subseteq Nat
    OBVIOUS
  <2> QED BY <1>2, <2>1
<1> QED BY <1>3

LEMMA ShortFirst ==
  ASSUME NEW q \in Seq(ListRef), NEW h, NEW i \in DOMAIN q, NEW value,
         (h.num - (value + 1)) % MaxFrameNum = q[i].num, ~q[i].ghost, q[i].idx = NoIdx,
         \A k \in DOMAIN q : k < i => Wrap(q[k].num, h.num) # Wrap(q[i].num, h.num)
  PROVE  LET m == Modify(Unmodified(q, h), Command("Subtract", value), h.num)
         IN  m.list = Led(q, i) /\ m.ok = TRUE
<1> DEFINE acc == Unmodified(q, h)
           op == Command("Subtract", value)
           num == q[i].num
           I == {k \in 1 .. Len(q) : Wrap(q[k].num, h.num) = Wrap(num, h.num)}
           m == Modify(acc, op, h.num)
<1>1. op.op = "Subtract" /\ op.value = value /\ op.op # "LongTermRef"
  BY DEF Command
<1>2. acc.ok = TRUE /\ acc.list = q /\ acc.pred = h.num /\ acc.at = 1
  BY DEF Unmodified
<1>3. I # {} /\ Min(I) = i /\ i # 0
  <2>1. Len(q) \in Nat /\ I \subseteq 1 .. Len(q) /\ i \in I /\ i # 0
    OBVIOUS
  <2>2. \A k \in I : ~(k < i)
    OBVIOUS
  <2> HIDE DEF I
  <2> QED BY <2>1, <2>2, FoundFirst
<1> HIDE DEF acc, op
<1>4. m = ModifyShort(acc, op, h.num)
  BY <1>1, <1>2 DEF Modify
<1>5. SelectInSeq(acc.list, LAMBDA p : Wrap(p.num, h.num) = Wrap(num, h.num)) = i
  BY <1>2, <1>3 DEF SelectInSeq
<1>6. m = MovedAcc(acc, acc.at + 1, num, MovedUp(acc.list, acc.at, i))
  <2> DEFINE x == (IF op.op = "Subtract" THEN acc.pred - (op.value + 1)
                   ELSE acc.pred + op.value + 1) % MaxFrameNum
             k == SelectInSeq(acc.list, LAMBDA p : Wrap(p.num, h.num) = Wrap(x, h.num))
             stuck == k = 0 \/ acc.list[k].ghost \/ acc.list[k].idx # NoIdx
             moved == MovedAcc(acc, acc.at + 1, x, MovedUp(acc.list, acc.at, k))
  <2>1. x = num
    BY <1>1, <1>2
  <2>2. ModifyShort(acc, op, h.num) = IF stuck THEN [acc EXCEPT !.ok = FALSE] ELSE moved
    BY DEF ModifyShort, MovedAcc
  <2> HIDE DEF num, I, x, m
  <2>3. k = i
    BY <1>5, <2>1
  <2> HIDE DEF k
  <2>4. ~stuck
    BY <1>2, <1>3, <2>3
  <2>5. moved = MovedAcc(acc, acc.at + 1, num, MovedUp(acc.list, acc.at, i))
    BY <2>1, <2>3
  <2> HIDE DEF stuck, moved
  <2> QED BY <1>4, <2>2, <2>4, <2>5
<1>7. MovedUp(q, 1, i) = Led(q, i)
  BY MovedIsLed
<1> DEFINE l == Led(q, i)
<1>8. m = MovedAcc(acc, acc.at + 1, num, l)
  BY <1>2, <1>6, <1>7
<1> HIDE DEF l, num, m
<1>9. m.list = l /\ m.ok = TRUE
  BY <1>8 DEF acc, Unmodified, MovedAcc, MovedLong
<1> QED BY <1>9 DEF l, m, acc, op

LEMMA LongFirst ==
  ASSUME NEW q \in Seq(ListRef), NEW h, NEW i \in DOMAIN q,
         q[i].idx = 0, \A k \in DOMAIN q : k < i => q[k].idx # 0
  PROVE  LET m == Modify(Unmodified(q, h), Command("LongTermRef", 0), h.num)
         IN  m.list = Led(q, i) /\ m.ok = TRUE
<1> DEFINE acc == Unmodified(q, h)
           op == Command("LongTermRef", 0)
           I == {k \in 1 .. Len(q) : q[k].idx = op.value}
           m == Modify(acc, op, h.num)
<1>1. op.op = "LongTermRef" /\ op.value = 0
  BY DEF Command
<1>2. acc.ok = TRUE /\ acc.list = q /\ acc.at = 1
  BY DEF Unmodified
<1> HIDE DEF acc, op
<1>3. I # {} /\ Min(I) = i /\ i # 0
  <2>1. Len(q) \in Nat /\ I \subseteq 1 .. Len(q) /\ i \in I /\ i # 0
    BY <1>1
  <2>2. \A k \in I : ~(k < i)
    BY <1>1
  <2> HIDE DEF I
  <2> QED BY <2>1, <2>2, FoundFirst
<1>4. m = ModifyLong(acc, op)
  BY <1>1, <1>2 DEF Modify
<1>5. SelectInSeq(acc.list, LAMBDA p : p.idx = op.value) = i
  BY <1>2, <1>3 DEF SelectInSeq
<1>6. m = MovedLong(acc, acc.at + 1, InsertAt(RemoveAt(acc.list, i), acc.at, acc.list[i]))
  <2> HIDE DEF m, I
  <2> QED BY <1>3, <1>4, <1>5 DEF ModifyLong, MovedLong
<1>7. InsertAt(RemoveAt(q, i), 1, q[i]) = Led(q, i)
  BY MovedIsLed
<1> DEFINE l == Led(q, i)
<1>8. m = MovedLong(acc, acc.at + 1, l)
  BY <1>2, <1>6, <1>7
<1> HIDE DEF l, m
<1>9. m.list = l /\ m.ok = TRUE
  BY <1>8 DEF acc, Unmodified, MovedAcc, MovedLong
<1> QED BY <1>9 DEF l, m, acc, op

LEMMA LedNames ==
  ASSUME NEW map, NEW d, NEW q \in Seq(ListRef), NEW L \in Seq(EncRef), Len(q) = Len(L), NEW i \in 1 .. Len(q),
         \A k \in 1 .. Len(q) : Names(map, d, q[k], L[k])
  PROVE  \A k \in 1 .. Len(q) : Names(map, d, Led(q, i)[k], Led(L, i)[k])
<1> SUFFICES ASSUME NEW k \in 1 .. Len(q) PROVE Names(map, d, Led(q, i)[k], Led(L, i)[k])
  OBVIOUS
<1>1. i \in DOMAIN q /\ i \in DOMAIN L /\ Len(q) \in Nat
  OBVIOUS
<1>2. Led(q, i)[1] = q[i] /\ \A l \in 2 .. Len(q) : Led(q, i)[l] = IF l <= i THEN q[l - 1] ELSE q[l]
  BY <1>1, LedIs
<1>3. Led(L, i)[1] = L[i] /\ \A l \in 2 .. Len(L) : Led(L, i)[l] = IF l <= i THEN L[l - 1] ELSE L[l]
  BY <1>1, LedIs
<1>4. CASE k = 1
  BY <1>2, <1>3, <1>4
<1>5. CASE k # 1
  <2>1. k \in 2 .. Len(q) /\ k - 1 \in 1 .. Len(q)
    BY <1>1, <1>5
  <2>2. CASE k <= i
    BY <1>2, <1>3, <2>1, <2>2
  <2>3. CASE ~(k <= i)
    BY <1>2, <1>3, <2>1, <2>3
  <2> QED BY <2>2, <2>3
<1> QED BY <1>4, <1>5

LEMMA FirstIsLed ==
  ASSUME NEW T, NEW s \in Seq(T), 1 \in DOMAIN s
  PROVE  Led(s, 1) = s
<1> DEFINE b == Led(s, 1)
<1>1. /\ b \in Seq(T) /\ Len(b) = Len(s) /\ b[1] = s[1] /\ Len(s) \in Nat
      /\ \A k \in 2 .. Len(s) : b[k] = IF k <= 1 THEN s[k - 1] ELSE s[k]
  BY LedIs
<1> HIDE DEF b
<1>2. \A k \in 1 .. Len(b) : b[k] = s[k]
  <2>1. SUFFICES ASSUME NEW k \in 1 .. Len(b), k # 1 PROVE b[k] = s[k]
    BY <1>1
  <2>2. k \in 2 .. Len(s) /\ ~(k <= 1)
    BY <1>1, <2>1
  <2> QED BY <1>1, <2>2
<1>3. b \in Seq(T) /\ s \in Seq(T) /\ Len(b) = Len(s)
  BY <1>1
<1>4. b = s
  BY ONLY <1>2, <1>3, SameSequence
<1> QED BY <1>4 DEF b

\* What the modifications have made of the list.
ListIs(m, l) == m.list = l /\ m.ok = TRUE

\* The picture the encoder puts first is the one that the modification moves.
LEMMA ModifiedRight ==
  ASSUME NEW map, NEW short \in Seq(EncRef), NEW long \in Seq(EncRef), NEW num \in Nums,
         InOrder(short, long, num), NEW d, Sound(d), Agree(map, short, long, d),
         NEW i \in DOMAIN DefaultList(short, long), DefaultList(short, long)[i].pic # Ghost,
         NEW h, h.num = num, h.mods = Predicted(short, long, num, i).mods
  PROVE  ListIs(Modified(InitialList(d, num), h), Led(InitialList(d, num), i))
<1> DEFINE q == InitialList(d, num)
           L == DefaultList(short, long)
           n == Len(short)
           c == IF i <= n THEN Command("Subtract", Distance(num, L[i]) - 1) ELSE Command("LongTermRef", 0)
<1>1. /\ q \in Seq(ListRef) /\ L \in Seq(EncRef) /\ Len(q) = n + Len(long) /\ Len(L) = Len(q)
      /\ n \in Nat /\ Len(long) \in {0, 1}
      /\ \A k \in 1 .. Len(q) : Names(map, d, q[k], L[k])
      /\ \A k \in 1 .. n : q[k].num = L[k].num /\ q[k].idx = NoIdx
      /\ \A k \in n + 1 .. Len(q) : q[k].idx = 0
      /\ \A j, k \in 1 .. n : Wrap(q[j].num, num) = Wrap(q[k].num, num) => j = k
  <2>1. ListsMatch(map, d, q, L, n, Len(long), num)
    BY ListsAgree
  <2> HIDE DEF q, L, n
  <2> QED BY <2>1 DEF ListsMatch
<1>2. h.mods = IF i = 1 THEN <<>> ELSE <<c>>
  BY DEF Predicted, Command
<1>a. L[i].pic # Ghost
  OBVIOUS
<1>b. i \in DOMAIN L
  OBVIOUS
<1> HIDE DEF q, L, n, c
<1>3. i \in 1 .. Len(q) /\ i \in DOMAIN q /\ Len(q) \in Nat
  BY <1>1, <1>b
<1>4. CASE i = 1
  <2>1. h.mods = <<>>
    BY <1>2, <1>4
  <2>2. Modified(q, h) = Unmodified(q, h)
    BY <2>1, NotModified
  <2>3. Led(q, 1) = q
    <3>1. 1 \in DOMAIN q
      BY <1>3, <1>4
    <3> QED BY <1>1, <3>1, FirstIsLed
  <2>4. Modified(q, h).list = q /\ Modified(q, h).ok = TRUE
    BY <2>2 DEF Unmodified
  <2> QED BY <1>4, <2>3, <2>4 DEF q, ListIs
<1>5. CASE i # 1
  <2>1. h.mods = <<c>>
    BY <1>2, <1>5
  <2>2. Modified(q, h) = Modify(Unmodified(q, h), c, h.num)
    BY <2>1, ModifiedOnce
  <2>3. CASE i <= n
    <3> DEFINE value == Distance(num, L[i]) - 1
    <3>1. i \in 1 .. n /\ c = Command("Subtract", value)
      BY <1>1, <1>3, <2>3 DEF c
    <3>2. (h.num - (value + 1)) % MaxFrameNum = q[i].num
      <4>1. L[i] \in EncRef
        BY <1>1, <1>b
      <4>2. Distance(num, L[i]) \in Nums /\ (num - Distance(num, L[i])) % MaxFrameNum = L[i].num
        BY <4>1, DistanceIs
      <4>3. Distance(num, L[i]) \in Int
        BY <4>2, NumsAreNumbers
      <4>4. value + 1 = Distance(num, L[i])
        BY <4>3
      <4>5. q[i].num = L[i].num
        BY <1>1, <3>1
      <4> QED BY <4>2, <4>4, <4>5
    <3>3. ~q[i].ghost /\ q[i].idx = NoIdx
      BY <1>1, <1>3, <1>a, <3>1 DEF Names
    <3>4. \A k \in DOMAIN q : k < i => Wrap(q[k].num, h.num) # Wrap(q[i].num, h.num)
      <4>1. SUFFICES ASSUME NEW k \in DOMAIN q, k < i, Wrap(q[k].num, h.num) = Wrap(q[i].num, h.num)
                     PROVE  FALSE
        OBVIOUS
      <4>2. k \in 1 .. n
        BY <1>1, <3>1, <4>1
      <4>3. k = i
        BY <1>1, <3>1, <4>1, <4>2
      <4> QED BY <1>3, <4>1, <4>3
    <3> HIDE DEF value
    <3>5. /\ Modify(Unmodified(q, h), Command("Subtract", value), h.num).list = Led(q, i)
          /\ Modify(Unmodified(q, h), Command("Subtract", value), h.num).ok = TRUE
      BY <1>1, <1>3, <3>2, <3>3, <3>4, ShortFirst
    <3> QED BY <2>2, <3>1, <3>5 DEF q, ListIs
  <2>4. CASE ~(i <= n)
    <3>1. i \in n + 1 .. Len(q) /\ c = Command("LongTermRef", 0)
      BY <1>1, <1>3, <2>4 DEF c
    <3>2. q[i].idx = 0
      BY <1>1, <3>1
    <3>3. \A k \in DOMAIN q : k < i => q[k].idx # 0
      <4>1. SUFFICES ASSUME NEW k \in DOMAIN q, k < i PROVE q[k].idx # 0
        OBVIOUS
      <4>2. k \in 1 .. n
        <5>1. Len(q) <= n + 1
          <6>1. \A a \in Nat, b \in {0, 1} : a + b <= a + 1
            OBVIOUS
          <6> QED BY <1>1, <6>1
        <5>2. k \in 1 .. Len(q) /\ k < i /\ i <= n + 1
          BY <1>1, <1>3, <3>1, <4>1, <5>1
        <5> QED BY <1>1, <1>3, <5>2
      <4>3. q[k].idx = NoIdx
        BY <1>1, <4>2
      <4> QED BY <4>3 DEF NoIdx
    <3>4. /\ Modify(Unmodified(q, h), Command("LongTermRef", 0), h.num).list = Led(q, i)
          /\ Modify(Unmodified(q, h), Command("LongTermRef", 0), h.num).ok = TRUE
      BY <1>1, <1>3, <3>2, <3>3, LongFirst
    <3> QED BY <2>2, <3>1, <3>4 DEF q, ListIs
  <2> QED BY <2>3, <2>4
<1> QED BY <1>4, <1>5

PredictedAs(h, num, p) ==
  /\ h.num = num /\ h.intra = p.intra /\ h.active = p.active /\ h.mods = p.mods
  /\ h.wanted = p.wanted

\* The references of an instruction are those of the context, and are the pictures the encoder used.
RightReferences(map, d, refs, wanted) ==
  /\ refs \in Seq(Nat) /\ ToSet(refs) \subseteq Refs(d)
  /\ [k \in DOMAIN refs |-> map[refs[k]]] = wanted

LEMMA FirstPart ==
  ASSUME NEW T, NEW s \in Seq(T), NEW n \in 0 .. Len(s)
  PROVE  /\ SubSeq(s, 1, n) \in Seq(T) /\ Len(SubSeq(s, 1, n)) = n /\ DOMAIN SubSeq(s, 1, n) = 1 .. n
         /\ \A k \in 1 .. n : SubSeq(s, 1, n)[k] = s[k] /\ k \in 1 .. Len(s)
  OBVIOUS

LEMMA PredictedRight ==
  ASSUME NEW map, NEW short \in Seq(EncRef), NEW long \in Seq(EncRef), NEW num \in Nums,
         InOrder(short, long, num), NEW d, Sound(d), Agree(map, short, long, d),
         NEW i \in DOMAIN DefaultList(short, long), DefaultList(short, long)[i].pic # Ghost,
         NEW h, PredictedAs(h, num, Predicted(short, long, num, i))
  PROVE  References(d, h).ok = TRUE /\ RightReferences(map, d, References(d, h).ids, h.wanted)
<1> DEFINE q == InitialList(d, num)
           L == DefaultList(short, long)
           l == Led(q, i)
           e == Led(L, i)
           m == Modified(q, h)
           p == Predicted(short, long, num, i)
<1>1. /\ q \in Seq(ListRef) /\ L \in Seq(EncRef) /\ Len(L) = Len(q) /\ Len(q) \in Nat
      /\ \A k \in 1 .. Len(q) : Names(map, d, q[k], L[k])
  <2>1. ListsMatch(map, d, q, L, Len(short), Len(long), num)
    BY ListsAgree
  <2> HIDE DEF q, L
  <2>2. q \in Seq(ListRef) => Len(q) \in Nat
    OBVIOUS
  <2> QED BY <2>1, <2>2 DEF ListsMatch
<1>2. h.num = num /\ h.mods = p.mods /\ h.intra = p.intra /\ h.active = p.active /\ h.wanted = p.wanted
  BY DEF PredictedAs
<1>3. m.list = l /\ m.ok = TRUE
  <2>1. ListIs(Modified(InitialList(d, num), h), Led(InitialList(d, num), i))
    BY <1>2, ModifiedRight
  <2> QED BY <2>1 DEF ListIs
<1>4. p.intra = FALSE /\ p.active = Len(Usable(e)) /\ p.wanted = [k \in DOMAIN Usable(e) |-> Usable(e)[k].pic]
  BY DEF Predicted
<1>5. i \in 1 .. Len(q) /\ i \in DOMAIN q /\ i \in DOMAIN L
  <2>1. i \in DOMAIN L
    OBVIOUS
  <2> HIDE DEF q, L
  <2> QED BY <1>1, <2>1
<1>6. l \in Seq(ListRef) /\ Len(l) = Len(q) /\ e \in Seq(EncRef) /\ Len(e) = Len(q)
  <2> HIDE DEF q, L
  <2>1. Led(q, i) \in Seq(ListRef) /\ Len(Led(q, i)) = Len(q)
    BY <1>1, <1>5, LedIs
  <2>2. Led(L, i) \in Seq(EncRef) /\ Len(Led(L, i)) = Len(L)
    BY <1>1, <1>5, LedIs
  <2> QED BY <1>1, <2>1, <2>2
<1> HIDE DEF p, m, q, L
<1>7. \A k \in 1 .. Len(q) : Names(map, d, l[k], e[k])
  <2>1. i \in 1 .. Len(q) /\ Len(q) = Len(L)
    BY <1>1, <1>5
  <2>2. \A k \in 1 .. Len(q) : Names(map, d, Led(q, i)[k], Led(L, i)[k])
    BY <1>1, <2>1, LedNames
  <2> QED BY <2>2
<1> HIDE DEF l, e
<1>8. PICK n \in 0 .. Len(e) : Usable(e) = SubSeq(e, 1, n) /\ \A k \in 1 .. n : e[k].pic # Ghost
  BY <1>6, UsableIs
<1> DEFINE used == SubSeq(e, 1, n)
           cut == SubSeq(l, 1, n)
           ids == Ids(cut)
<1>9. n \in 0 .. Len(l) /\ n \in 0 .. Len(e)
  BY <1>6, <1>8
<1>10. used \in Seq(EncRef) /\ Len(used) = n /\ DOMAIN used = 1 .. n /\ \A k \in 1 .. n : used[k] = e[k] /\ k \in 1 .. Len(e)
  BY <1>6, <1>9, FirstPart
<1>11. cut \in Seq(ListRef) /\ Len(cut) = n /\ DOMAIN cut = 1 .. n /\ \A k \in 1 .. n : cut[k] = l[k]
  BY <1>6, <1>9, FirstPart
<1>12. References(d, h) = [ids |-> ids, ok |-> m.ok /\ \A k \in DOMAIN cut : ~cut[k].ghost]
  <2>1. h.intra = FALSE /\ h.active = n /\ h.num = num
    BY <1>2, <1>4, <1>8, <1>10
  <2>2. (IF n < Len(l) THEN n ELSE Len(l)) = n
    BY <1>1, <1>6, <1>9
  <2>3. Modified(InitialList(d, h.num), h) = m
    BY <2>1 DEF m, q
  <2> QED BY <1>3, <2>1, <2>2, <2>3 DEF References
<1> HIDE DEF used, cut
<1>13. \A k \in 1 .. n : Names(map, d, cut[k], used[k]) /\ used[k].pic # Ghost
  BY <1>6, <1>7, <1>8, <1>10, <1>11
<1>14. \A k \in 1 .. n : ~cut[k].ghost /\ map[cut[k].id] = used[k].pic /\ cut[k].id \in Refs(d)
  BY <1>13 DEF Names
<1>15. References(d, h).ids = ids /\ References(d, h).ok = TRUE
  <2>1. m.ok /\ \A k \in DOMAIN cut : ~cut[k].ghost
    BY <1>3, <1>11, <1>14
  <2> DEFINE good == m.ok /\ \A k \in DOMAIN cut : ~cut[k].ghost
  <2>2. good = TRUE
    BY <2>1
  <2>3. References(d, h) = [ids |-> ids, ok |-> good]
    BY <1>12
  <2> HIDE DEF ids, good
  <2>4. References(d, h) = [ids |-> ids, ok |-> TRUE]
    BY <2>2, <2>3
  <2> QED BY <2>4
<1>16. /\ ids \in Seq(Nat) /\ (\A x : x \in ToSet(ids) <=> \E k \in DOMAIN cut : x = cut[k].id)
       /\ DOMAIN ids = 1 .. n /\ \A k \in 1 .. n : ids[k] = cut[k].id
  <2>1. \A x \in ListRef : x.id \in Nat
    BY DEF ListRef
  <2>2. ids \in Seq(Nat) /\ (\A x : x \in ToSet(ids) <=> \E k \in DOMAIN cut : x = cut[k].id)
    BY <1>11, <2>1, IdsProperties
  <2>3. ids = [k \in DOMAIN cut |-> cut[k].id]
    BY DEF Ids
  <2> QED BY <1>11, <2>2, <2>3
<1>17. h.wanted = [k \in 1 .. n |-> used[k].pic]
  <2>1. h.wanted = [k \in DOMAIN used |-> used[k].pic]
    BY <1>2, <1>4, <1>8 DEF used
  <2> QED BY <1>10, <2>1
<1> HIDE DEF ids
<1>18. [k \in DOMAIN ids |-> map[ids[k]]] = h.wanted
  BY <1>14, <1>16, <1>17
<1>19. ToSet(ids) \subseteq Refs(d)
  BY <1>11, <1>14, <1>16
<1> QED BY <1>15, <1>16, <1>18, <1>19 DEF RightReferences

LEMMA ReferencesRight ==
  ASSUME NEW map, NEW short \in Seq(EncRef), NEW long \in Seq(EncRef), NEW num \in Nums,
         InOrder(short, long, num), NEW d, Sound(d), Agree(map, short, long, d),
         NEW p \in Predictions(short, long, num), NEW h, PredictedAs(h, num, p)
  PROVE  References(d, h).ok = TRUE /\ RightReferences(map, d, References(d, h).ids, h.wanted)
<1>1. CASE p = Intra
  <2>1. h.intra = TRUE /\ h.wanted = <<>>
    BY <1>1 DEF PredictedAs, Intra
  <2>2. References(d, h).ok = TRUE /\ References(d, h).ids = <<>>
    BY <2>1 DEF References
  <2>3. RightReferences(map, d, <<>>, <<>>)
    <3>1. <<>> \in Seq(Nat) /\ ToSet(<<>>) = {} /\ [k \in DOMAIN <<>> |-> map[<<>>[k]]] = <<>>
      BY DEF ToSet
    <3> QED BY <3>1 DEF RightReferences
  <2> QED BY <2>1, <2>2, <2>3
<1>2. CASE \E i \in DOMAIN DefaultList(short, long) :
             DefaultList(short, long)[i].pic # Ghost /\ p = Predicted(short, long, num, i)
  BY <1>2, PredictedRight
<1> QED BY <1>1, <1>2 DEF Predictions

-----------------------------------------------------------------------------
(* The marking operations do to the references of the manager what the     *)
(* encoder does to its own. *)

\* The operation names r by its distance.
Aims(op, num, r) == op.diff = Distance(num, r) - 1

\* The operation of a header aims at picture i of the encoder's references.
AimsAt(map, short, acc, h, i, op) ==
  /\ short \in Seq(EncRef) /\ h.num \in Nums /\ Rising(short, h.num) /\ acc.ctx \in Context
  /\ SameShort(map, short, acc.ctx.short) /\ i \in DOMAIN short /\ Aims(op, h.num, short[i])

LEMMA ShortAtIs ==
  ASSUME NEW map, NEW short, NEW acc, NEW h, NEW i, NEW op, AimsAt(map, short, acc, h, i, op)
  PROVE  ShortAt(acc, h, op) = i
<1> USE DEF AimsAt
<1> DEFINE num == h.num
           s == acc.ctx.short
           w(k) == Wrap(s[k].num, h.num)
           I == {k \in 1 .. Len(s) : w(k) = h.num - (op.diff + 1)}
<1>1. ShortAt(acc, h, op) = IF I # {} THEN Min(I) ELSE 0
  BY DEF ShortAt, SelectInSeq
<1>2. s \in Seq(ShortRef) /\ Len(s) = Len(short) /\ Len(short) \in Nat /\ i \in 1 .. Len(short)
  BY ContextFields DEF SameShort
<1>3. /\ \A k \in 1 .. Len(short) : w(k) \in Int /\ w(k) = num - Distance(num, short[k])
      /\ \A j, k \in 1 .. Len(short) : j < k => w(j) < w(k)
  <2>1. \A k \in 1 .. Len(short) : s[k].num = short[k].num
    BY DEF SameShort
  <2> HIDE DEF s
  <2> QED BY <1>2, <2>1, WrapsRise
<1> HIDE DEF w
<1>4. op.diff + 1 = Distance(num, short[i])
  <2>1. short[i] \in EncRef
    OBVIOUS
  <2>2. Distance(num, short[i]) \in Nums
    BY <2>1, DistanceIs
  <2>3. Distance(num, short[i]) \in Int
    BY <2>2, NumsAreNumbers
  <2> QED BY <2>3 DEF Aims
<1>5. h.num - (op.diff + 1) = w(i)
  BY <1>2, <1>3, <1>4
<1>6. i \in I /\ I \subseteq 1 .. Len(s) /\ Len(s) \in Nat
  BY <1>2, <1>5
<1>7. \A k \in I : ~(k < i)
  <2> SUFFICES ASSUME NEW k \in I, k < i PROVE FALSE
    OBVIOUS
  <2>1. k \in 1 .. Len(short) /\ w(k) = w(i)
    BY <1>2, <1>5
  <2>2. w(k) < w(i) /\ w(i) \in Int
    BY <1>2, <1>3, <2>1
  <2> QED BY <2>1, <2>2
<1> HIDE DEF I, s
<1>8. I # {} /\ Min(I) = i
  BY <1>6, <1>7, FoundFirst
<1> QED BY <1>1, <1>8

LEMMA OneRemoved ==
  ASSUME NEW T, NEW s \in Seq(T), Len(s) = 1
  PROVE  RemoveAt(s, 1) = <<>>
<1>1. 1 \in DOMAIN s
  OBVIOUS
<1> DEFINE q == RemoveAt(s, 1)
<1>2. q \in Seq(T) /\ Len(q) = Len(s) - 1
  BY <1>1, RemoveAtIs
<1> HIDE DEF q
<1>3. q = <<>>
  BY <1>2
<1> QED BY <1>3 DEF q

AllFree(s) == Len(s) <= 1 /\ \A k \in DOMAIN s : s[k].idx = 0

LEMMA RemoveLongIs ==
  ASSUME NEW acc \in Marks, AllFree(acc.ctx.long)
  PROVE  LET r == RemoveLong(acc, 0)
         IN  /\ r.ctx.long = <<>> /\ r.ctx.short = acc.ctx.short /\ r.ctx.maxIdx = acc.ctx.maxIdx
             /\ r.ctx.corrupted = acc.ctx.corrupted /\ r.ok = acc.ok /\ r.idx = acc.idx
<1> DEFINE s == acc.ctx.long
           I == {k \in 1 .. Len(s) : s[k].idx = 0}
           i == IF I # {} THEN Min(I) ELSE 0
           r == RemoveLong(acc, 0)
<1>1. acc.ctx \in Context /\ s \in Seq(LongRef)
  BY ContextFields DEF Marks
<1>2. r = IF i = 0 THEN acc
          ELSE [acc EXCEPT !.ctx.long = RemoveAt(@, i), !.drops = Append(@, acc.ctx.long[i].id)]
  BY DEF RemoveLong, SelectInSeq
<1>3. CASE Len(s) = 0
  <2>1. s = <<>> /\ I = {}
    BY <1>1, <1>3
  <2> QED BY <1>2, <2>1
<1>4. CASE Len(s) # 0
  <2>1. Len(s) = 1
    <3>1. \A l \in Nat : l <= 1 /\ l # 0 => l = 1
      OBVIOUS
    <3>2. Len(s) \in Nat /\ Len(s) <= 1
      BY <1>1 DEF AllFree
    <3> QED BY <1>4, <3>1, <3>2
  <2>2. I = 1 .. 1 /\ 1 \in I
    <3>1. DOMAIN s = 1 .. 1
      BY <1>1, <2>1
    <3> QED BY <2>1, <3>1 DEF AllFree
  <2>3. i = 1
    <3>1. I \subseteq 1 .. 1 /\ 1 \in I /\ \A k \in I : ~(k < 1)
      BY <2>2
    <3> HIDE DEF I
    <3>2. I # {} /\ Min(I) = 1
      <4>1. 1 \in Nat
        OBVIOUS
      <4> QED BY <3>1, <4>1, FoundFirst
    <3> QED BY <3>2
  <2>4. RemoveAt(s, 1) = <<>>
    BY <1>1, <2>1, OneRemoved
  <2> HIDE DEF i, I
  <2> DEFINE x == Append(acc.drops, acc.ctx.long[1].id)
             y == RemoveAt(acc.ctx.long, i)
             z == Append(acc.drops, acc.ctx.long[i].id)
  <2>5. r = [acc EXCEPT !.ctx.long = <<>>, !.drops = x]
    <3>1. y = <<>> /\ z = x /\ i # 0
      BY <2>3, <2>4
    <3>2. r = IF i = 0 THEN acc ELSE [acc EXCEPT !.ctx.long = y, !.drops = z]
      BY <1>2
    <3> HIDE DEF r, x, y, z
    <3> QED BY <3>1, <3>2
  <2> HIDE DEF r, x
  <2> QED BY <1>1, <2>5 DEF Marks, Context, r
<1> QED BY <1>3, <1>4

LEMMA KeepsAll ==
  ASSUME NEW T, NEW s \in Seq(T), NEW C, Len(s) <= 1, \A k \in DOMAIN s : s[k] \in C
  PROVE  Kept(s, C) = s
<1> DEFINE q == Kept(s, C)
<1>1. /\ q \in Seq(T) /\ (\A i \in DOMAIN s : s[i] \in C => \E k \in DOMAIN q : q[k] = s[i])
      /\ \E m : Part(q, s, m)
  BY KeptPart
<1> HIDE DEF q
<1>2. PICK m : Part(q, s, m)
  BY <1>1
<1>3. m \in [DOMAIN q -> DOMAIN s] /\ \A k, l \in DOMAIN q : m[k] = m[l] => k = l
  BY <1>2 DEF Part
<1>4. Len(s) \in Nat /\ Len(q) \in Nat /\ DOMAIN q = 1 .. Len(q) /\ DOMAIN s = 1 .. Len(s)
  BY <1>1
<1>5. CASE Len(s) = 0
  <2>1. DOMAIN s = {}
    BY <1>4, <1>5
  <2>2. DOMAIN q = {}
    BY <1>3, <2>1
  <2> QED BY <1>1, <1>5, <2>2 DEF q
<1>6. CASE Len(s) # 0
  <2>1. Len(s) = 1 /\ 1 \in DOMAIN s
    BY <1>4, <1>6
  <2>2. \A k \in DOMAIN q : m[k] = 1
    BY <1>3, <1>4, <2>1
  <2>3. PICK k \in DOMAIN q : q[k] = s[1]
    BY <1>1, <2>1
  <2>4. \A l \in DOMAIN q : l = k
    BY <1>3, <2>2
  <2>5. Len(q) = 1 /\ k = 1
    <3>1. 1 \in DOMAIN q
      BY <1>4
    <3>2. k = 1
      BY <2>4, <3>1
    <3>3. Len(q) \in DOMAIN q
      BY <1>4, <3>1
    <3> QED BY <2>4, <3>2, <3>3
  <2>6. \A l \in 1 .. Len(q) : q[l] = s[l]
    BY <2>3, <2>5
  <2>7. q = s
    BY <1>1, <2>1, <2>5, <2>6, SameSequence
  <2> QED BY <2>7 DEF q
<1> QED BY <1>5, <1>6

LEMMA KeepsNone ==
  ASSUME NEW T, NEW s \in Seq(T), NEW C, \A k \in DOMAIN s : s[k] \notin C
  PROVE  Kept(s, C) = <<>>
<1> DEFINE q == Kept(s, C)
<1>1. q \in Seq(T) /\ \A k \in DOMAIN q : q[k] \in C /\ q[k] \in ToSet(s)
  BY KeptPart
<1> HIDE DEF q
<1>2. DOMAIN q = {}
  BY <1>1 DEF ToSet
<1>3. q = <<>>
  BY <1>1, <1>2
<1> QED BY <1>3 DEF q

Good(acc, idx) == acc.ok = TRUE /\ acc.idx = idx

\* The manager after some operations, and the references the encoder has left at that point.
OpState(map, d, short, long, max, idx, acc) ==
  /\ acc \in MarkedFrom(d) /\ Good(acc, idx)
  /\ SameShort(map, short, acc.ctx.short) /\ SameLong(map, long, acc.ctx.long)
  /\ acc.ctx.maxIdx = max /\ acc.ctx.corrupted = d.corrupted

LEMMA OpStateFields ==
  ASSUME NEW map, NEW d, NEW short, NEW long, NEW max, NEW idx, NEW acc,
         OpState(map, d, short, long, max, idx, acc), Len(long) <= 1
  PROVE  /\ acc \in MarkedFrom(d) /\ acc \in Marks /\ acc.ctx \in Context
         /\ Good(acc, idx)
         /\ SameShort(map, short, acc.ctx.short) /\ SameLong(map, long, acc.ctx.long)
         /\ acc.ctx.maxIdx = max /\ acc.ctx.corrupted = d.corrupted
         /\ acc.ctx.short \in Seq(ShortRef) /\ acc.ctx.long \in Seq(LongRef)
         /\ AllFree(acc.ctx.long)
<1>1. acc \in MarkedFrom(d) /\ acc \in Marks /\ acc.ctx \in Context
  BY MarksFields DEF OpState
<1>2. acc.ctx.short \in Seq(ShortRef) /\ acc.ctx.long \in Seq(LongRef)
  BY <1>1, ContextFields
<1>3. SameLong(map, long, acc.ctx.long)
  BY DEF OpState
<1>4. AllFree(acc.ctx.long)
  <2> DEFINE q == acc.ctx.long
  <2>1. Len(q) = Len(long) /\ \A i \in 1 .. Len(long) : q[i].idx = 0
    BY <1>3 DEF SameLong
  <2>2. DOMAIN q = 1 .. Len(q)
    BY <1>2
  <2> HIDE DEF q
  <2>3. Len(q) <= 1 /\ \A i \in DOMAIN q : q[i].idx = 0
    BY <2>1, <2>2
  <2> QED BY <2>3 DEF q, AllFree
<1> QED BY <1>1, <1>2, <1>4 DEF OpState

LEMMA NoLong ==
  ASSUME NEW map
  PROVE  SameLong(map, <<>>, <<>>)
  BY DEF SameLong

\* A short-term picture is no longer used.
LEMMA UnmarkStep ==
  ASSUME NEW map, NEW d, NEW short \in Seq(EncRef), NEW long, Len(long) <= 1, NEW max, NEW idx,
         NEW acc, OpState(map, d, short, long, max, idx, acc),
         NEW num \in Nums, Rising(short, num), NEW i \in DOMAIN short, NEW h, h.num = num
  PROVE  OpState(map, d, RemoveAt(short, i), long, max, idx,
                 Operation(acc, h, Take("ShortTermUnused", num, short[i])))
<1> DEFINE op == Take("ShortTermUnused", num, short[i])
           next == Operation(acc, h, op)
<1>1. op.op = "ShortTermUnused" /\ Aims(op, num, short[i]) /\ IsOperation(op)
  BY DEF Aims, Take, IsOperation, Kinds
<1> HIDE DEF op
<1>2. /\ acc \in MarkedFrom(d) /\ acc \in Marks /\ acc.ctx \in Context
      /\ Good(acc, idx)
      /\ SameShort(map, short, acc.ctx.short) /\ SameLong(map, long, acc.ctx.long)
      /\ acc.ctx.maxIdx = max /\ acc.ctx.corrupted = d.corrupted
      /\ acc.ctx.short \in Seq(ShortRef) /\ acc.ctx.long \in Seq(LongRef)
  BY OpStateFields
<1>3. ShortAt(acc, h, op) = i
  <2>1. /\ acc.ctx \in Context /\ SameShort(map, short, acc.ctx.short) /\ Aims(op, h.num, short[i])
        /\ h.num \in Nums /\ Rising(short, h.num) /\ short \in Seq(EncRef) /\ i \in DOMAIN short
    BY <1>1, <1>2
  <2>2. AimsAt(map, short, acc, h, i, op)
    BY ONLY <2>1 DEF AimsAt
  <2> QED BY ONLY <2>2, ShortAtIs
<1>4. next \in MarkedFrom(d)
  BY <1>1, <1>2, OperationBalanced
<1> DEFINE drops == IF acc.ctx.short[i].ghost THEN acc.drops ELSE Append(acc.drops, acc.ctx.short[i].id)
           q == RemoveAt(acc.ctx.short, i)
<1>5. next = [acc EXCEPT !.ctx.short = q, !.drops = drops]
  <2>1. i # 0
    OBVIOUS
  <2>2. next = Operate(acc, op, i, RemoveLong(acc, op.idx))
    BY <1>3 DEF Operation
  <2> HIDE DEF next
  <2> QED BY <1>1, <2>1, <2>2 DEF Operate
<1>6. SameShort(map, RemoveAt(short, i), q)
  <2>1. i \in 1 .. Len(short)
    OBVIOUS
  <2> QED BY <1>2, <2>1, SameShortRemoved
<1> HIDE DEF next, drops, q
<1>7. /\ next.ctx.short = q /\ next.ctx.long = acc.ctx.long /\ next.ctx.maxIdx = acc.ctx.maxIdx
      /\ next.ctx.corrupted = acc.ctx.corrupted /\ next.ok = acc.ok /\ next.idx = acc.idx
  BY <1>2, <1>5 DEF Marks, Context
<1>8. OpState(map, d, RemoveAt(short, i), long, max, idx, next)
  BY <1>2, <1>4, <1>6, <1>7 DEF OpState, Good
<1> QED BY <1>8 DEF next, op

\* The number of long-term frame indices is set; the reference there is, if any, has index 0.
LEMMA MaxStep ==
  ASSUME NEW map, NEW d, NEW short \in Seq(EncRef), NEW long \in Seq(EncRef), Len(long) <= 1, NEW max, NEW idx,
         NEW acc, OpState(map, d, short, long, max, idx, acc), NEW h, NEW new \in {0, NoIdx}
  PROVE  OpState(map, d, short, IF new = 0 THEN long ELSE <<>>, new, idx,
                 Operation(acc, h, Unmark("MaxLongTermIdx", new)))
<1> DEFINE op == Unmark("MaxLongTermIdx", new)
           next == Operation(acc, h, op)
           s == acc.ctx.long
<1>1. op.op = "MaxLongTermIdx" /\ op.idx = new /\ IsOperation(op)
  BY DEF Unmark, IsOperation, Kinds, NoIdx
<1> HIDE DEF op
<1>2. /\ acc \in MarkedFrom(d) /\ acc \in Marks /\ acc.ctx \in Context
      /\ Good(acc, idx)
      /\ SameShort(map, short, acc.ctx.short) /\ SameLong(map, long, s)
      /\ acc.ctx.maxIdx = max /\ acc.ctx.corrupted = d.corrupted
      /\ s \in Seq(LongRef) /\ Len(s) <= 1 /\ \A k \in DOMAIN s : s[k].idx = 0
  BY OpStateFields DEF AllFree
<1>4. next \in MarkedFrom(d)
  BY <1>1, <1>2, OperationBalanced
<1> DEFINE drops == acc.drops \o Ids(Kept(s, Above(s, new)))
           q == Kept(s, ToSet(s) \ Above(s, new))
<1>5. next = [acc EXCEPT !.ctx.maxIdx = new, !.drops = drops, !.ctx.long = q]
  <2>2. next = Operate(acc, op, ShortAt(acc, h, op), RemoveLong(acc, op.idx))
    BY DEF Operation
  <2> HIDE DEF next
  <2> QED BY <1>1, <1>2, <2>2 DEF Operate, Marks, Context
<1>6. SameLong(map, IF new = 0 THEN long ELSE <<>>, q)
  <2>1. CASE new = 0
    <3>1. \A k \in DOMAIN s : s[k] \in ToSet(s) \ Above(s, new)
      <4> SUFFICES ASSUME NEW k \in DOMAIN s PROVE s[k] \in ToSet(s) \ Above(s, new)
        OBVIOUS
      <4>1. s[k] \in ToSet(s)
        BY DEF ToSet
      <4>2. ~(s[k].idx > new)
        BY <1>2, <2>1
      <4> QED BY <4>1, <4>2 DEF Above
    <3> HIDE DEF s
    <3>2. q = s
      BY <1>2, <3>1, KeepsAll
    <3> QED BY <1>2, <2>1, <3>2
  <2>2. CASE new = NoIdx
    <3>1. \A k \in DOMAIN s : s[k] \notin ToSet(s) \ Above(s, new)
      <4> SUFFICES ASSUME NEW k \in DOMAIN s, s[k] \in ToSet(s) PROVE s[k] \in Above(s, new)
        OBVIOUS
      <4>2. s[k].idx > new
        BY <1>2, <2>2 DEF NoIdx
      <4> QED BY <4>2 DEF Above
    <3> HIDE DEF s
    <3>2. q = <<>>
      BY <1>2, <3>1, KeepsNone
    <3>3. new # 0
      BY <2>2 DEF NoIdx
    <3> QED BY <3>2, <3>3, NoLong
  <2> QED BY <2>1, <2>2
<1> HIDE DEF next, drops, q, s
<1>7. /\ next.ctx.short = acc.ctx.short /\ next.ctx.long = q /\ next.ctx.maxIdx = new
      /\ next.ctx.corrupted = acc.ctx.corrupted /\ next.ok = acc.ok /\ next.idx = acc.idx
  BY <1>2, <1>5 DEF Marks, Context
<1>8. OpState(map, d, short, IF new = 0 THEN long ELSE <<>>, new, idx, next)
  BY <1>2, <1>4, <1>6, <1>7 DEF OpState, Good
<1> QED BY <1>8 DEF next, op

\* The long-term reference is no longer used.
LEMMA FreeStep ==
  ASSUME NEW map, NEW d, NEW short, NEW long \in Seq(EncRef), Len(long) <= 1, long # <<>>, NEW max, NEW idx,
         NEW acc, OpState(map, d, short, long, max, idx, acc), NEW h
  PROVE  OpState(map, d, short, <<>>, max, idx, Operation(acc, h, Unmark("LongTermUnused", 0)))
<1> DEFINE op == Unmark("LongTermUnused", 0)
           next == Operation(acc, h, op)
           freed == RemoveLong(acc, 0)
<1>1. op.op = "LongTermUnused" /\ op.idx = 0 /\ IsOperation(op)
  BY DEF Unmark, IsOperation, Kinds
<1> HIDE DEF op
<1>2. /\ acc \in MarkedFrom(d) /\ acc \in Marks /\ acc.ctx \in Context
      /\ Good(acc, idx)
      /\ SameShort(map, short, acc.ctx.short) /\ SameLong(map, long, acc.ctx.long)
      /\ acc.ctx.maxIdx = max /\ acc.ctx.corrupted = d.corrupted
      /\ acc.ctx.long \in Seq(LongRef) /\ AllFree(acc.ctx.long)
  BY OpStateFields
<1>3. /\ freed.ctx.long = <<>> /\ freed.ctx.short = acc.ctx.short /\ freed.ctx.maxIdx = acc.ctx.maxIdx
      /\ freed.ctx.corrupted = acc.ctx.corrupted /\ freed.ok = acc.ok /\ freed.idx = acc.idx
  BY <1>2, RemoveLongIs
<1>4. next \in MarkedFrom(d) /\ freed \in Marks
  <2>1. next \in MarkedFrom(d)
    BY <1>1, <1>2, OperationBalanced
  <2>2. freed \in MarkedFrom(d)
    BY <1>2, RemoveLongBalanced
  <2> QED BY <2>1, <2>2, MarksFields
<1> HIDE DEF freed
<1>5. freed # acc
  <2>1. Len(acc.ctx.long) = Len(long) /\ Len(long) # 0
    BY <1>2 DEF SameLong
  <2>2. Len(freed.ctx.long) = 0
    BY <1>3
  <2> QED BY <2>1, <2>2
<1>6. next = [freed EXCEPT !.ok = TRUE]
  <2>1. next = Operate(acc, op, ShortAt(acc, h, op), freed)
    BY <1>1 DEF Operation, freed
  <2> HIDE DEF next
  <2>2. next = [freed EXCEPT !.ok = freed # acc]
    BY <1>1, <2>1 DEF Operate
  <2>3. (freed # acc) = TRUE
    BY <1>5
  <2> QED BY <2>2, <2>3
<1> HIDE DEF next
<1>7. next.ctx = freed.ctx /\ next.ok = TRUE /\ next.idx = freed.idx
  BY <1>4, <1>6 DEF Marks
<1>8. OpState(map, d, short, <<>>, max, idx, next)
  BY <1>2, <1>3, <1>4, <1>7, NoLong DEF OpState, Good
<1> QED BY <1>8 DEF next, op

\* The picture itself will be the long-term reference.
LEMMA CurrentStep ==
  ASSUME NEW map, NEW d, NEW short, NEW long \in Seq(EncRef), Len(long) <= 1, NEW max, NEW idx,
         NEW acc, OpState(map, d, short, long, max, idx, acc), NEW h
  PROVE  OpState(map, d, short, <<>>, max, 0, Operation(acc, h, Unmark("CurrentToLongTerm", 0)))
<1> DEFINE op == Unmark("CurrentToLongTerm", 0)
           next == Operation(acc, h, op)
           freed == RemoveLong(acc, 0)
<1>1. op.op = "CurrentToLongTerm" /\ op.idx = 0 /\ IsOperation(op)
  BY DEF Unmark, IsOperation, Kinds
<1> HIDE DEF op
<1>2. /\ acc \in MarkedFrom(d) /\ acc \in Marks /\ acc.ctx \in Context
      /\ Good(acc, idx)
      /\ SameShort(map, short, acc.ctx.short) /\ SameLong(map, long, acc.ctx.long)
      /\ acc.ctx.maxIdx = max /\ acc.ctx.corrupted = d.corrupted
      /\ acc.ctx.long \in Seq(LongRef) /\ AllFree(acc.ctx.long)
  BY OpStateFields
<1>3. /\ freed.ctx.long = <<>> /\ freed.ctx.short = acc.ctx.short /\ freed.ctx.maxIdx = acc.ctx.maxIdx
      /\ freed.ctx.corrupted = acc.ctx.corrupted /\ freed.ok = acc.ok /\ freed.idx = acc.idx
  BY <1>2, RemoveLongIs
<1>4. next \in MarkedFrom(d) /\ freed \in Marks
  <2>1. next \in MarkedFrom(d)
    BY <1>1, <1>2, OperationBalanced
  <2>2. freed \in MarkedFrom(d)
    BY <1>2, RemoveLongBalanced
  <2> QED BY <2>1, <2>2, MarksFields
<1> HIDE DEF freed
<1>6. next = [freed EXCEPT !.idx = 0]
  <2>1. next = Operate(acc, op, ShortAt(acc, h, op), freed)
    BY <1>1 DEF Operation, freed
  <2> HIDE DEF next
  <2> QED BY <1>1, <2>1 DEF Operate
<1> HIDE DEF next
<1>7. next.ctx = freed.ctx /\ next.ok = freed.ok /\ next.idx = 0
  BY <1>4, <1>6 DEF Marks
<1>8. OpState(map, d, short, <<>>, max, 0, next)
  BY <1>2, <1>3, <1>4, <1>7, NoLong DEF OpState, Good
<1> QED BY <1>8 DEF next, op

\* A short-term reference becomes the long-term one.
LEMMA ConvertStep ==
  ASSUME NEW map, NEW d, NEW short \in Seq(EncRef), NEW long \in Seq(EncRef), Len(long) <= 1, NEW max, NEW idx,
         NEW acc, OpState(map, d, short, long, max, idx, acc),
         NEW num \in Nums, Rising(short, num), NEW i \in DOMAIN short, short[i].pic # Ghost, NEW h, h.num = num
  PROVE  OpState(map, d, RemoveAt(short, i), <<short[i]>>, max, idx,
                 Operation(acc, h, Take("ShortTermToLongTerm", num, short[i])))
<1> DEFINE op == Take("ShortTermToLongTerm", num, short[i])
           next == Operation(acc, h, op)
           freed == RemoveLong(acc, 0)
           target == acc.ctx.short[i]
           x == [id |-> target.id, num |-> target.num, idx |-> 0]
           q == RemoveAt(acc.ctx.short, i)
<1>1. op.op = "ShortTermToLongTerm" /\ Aims(op, num, short[i]) /\ op.idx = 0 /\ IsOperation(op)
  BY DEF Aims, Take, IsOperation, Kinds
<1> HIDE DEF op
<1>2. /\ acc \in MarkedFrom(d) /\ acc \in Marks /\ acc.ctx \in Context
      /\ Good(acc, idx)
      /\ SameShort(map, short, acc.ctx.short) /\ SameLong(map, long, acc.ctx.long)
      /\ acc.ctx.maxIdx = max /\ acc.ctx.corrupted = d.corrupted
      /\ acc.ctx.short \in Seq(ShortRef) /\ acc.ctx.long \in Seq(LongRef) /\ AllFree(acc.ctx.long)
  BY OpStateFields
<1>3. /\ freed.ctx.long = <<>> /\ freed.ctx.short = acc.ctx.short /\ freed.ctx.maxIdx = acc.ctx.maxIdx
      /\ freed.ctx.corrupted = acc.ctx.corrupted /\ freed.ok = acc.ok /\ freed.idx = acc.idx
  BY <1>2, RemoveLongIs
<1>4. next \in MarkedFrom(d) /\ freed \in Marks /\ freed.ctx \in Context
  <2>1. next \in MarkedFrom(d)
    BY <1>1, <1>2, OperationBalanced
  <2>2. freed \in MarkedFrom(d)
    BY <1>2, RemoveLongBalanced
  <2> QED BY <2>1, <2>2, MarksFields
<1> HIDE DEF freed
<1>5. ShortAt(acc, h, op) = i
  <2>1. AimsAt(map, short, acc, h, i, op)
    BY <1>1, <1>2 DEF AimsAt
  <2> QED BY ONLY <2>1, ShortAtIs
<1>6. i \in 1 .. Len(short) /\ ~target.ghost /\ map[target.id] = short[i].pic
  <2>1. i \in 1 .. Len(short)
    OBVIOUS
  <2> QED BY <1>2, <2>1 DEF SameShort
<1> HIDE DEF target
<1>7. next = [freed EXCEPT !.ctx.short = q, !.ctx.long = <<x>>]
  <2>1. i # 0
    BY <1>6
  <2>2. next = Operate(acc, op, i, freed)
    BY <1>1, <1>5 DEF Operation, freed
  <2> HIDE DEF next
  <2> DEFINE taken == [freed EXCEPT !.ctx.short = RemoveAt(@, i)]
  <2>3. next = [taken EXCEPT !.ctx.long = Append(@, x)]
    BY <1>1, <1>6, <2>1, <2>2 DEF Operate, target
  <2>4. Append(<<>>, x) = <<x>>
    OBVIOUS
  <2> HIDE DEF x
  <2>5. taken.ctx.long = <<>> /\ taken = [freed EXCEPT !.ctx.short = q]
    BY <1>3, <1>4 DEF Marks, Context
  <2> HIDE DEF taken, q
  <2>6. next = [taken EXCEPT !.ctx.long = <<x>>]
    BY <2>3, <2>4, <2>5
  <2> QED BY <1>4, <2>5, <2>6 DEF Marks, Context
<1>8. SameShort(map, RemoveAt(short, i), q)
  BY <1>2, <1>6, SameShortRemoved
<1>9. SameLong(map, <<short[i]>>, <<x>>)
  <2> DEFINE r == short[i]
  <2>1. x.idx = 0 /\ map[x.id] = r.pic
    BY <1>6
  <2> HIDE DEF x, r
  <2>2. SameLong(map, <<r>>, <<x>>)
    BY <2>1 DEF SameLong
  <2> QED BY <2>2 DEF r
<1> HIDE DEF next, q, x
<1>10. /\ next.ctx.short = q /\ next.ctx.long = <<x>> /\ next.ctx.maxIdx = freed.ctx.maxIdx
       /\ next.ctx.corrupted = freed.ctx.corrupted /\ next.ok = freed.ok /\ next.idx = freed.idx
  BY <1>4, <1>7 DEF Marks, Context
<1>11. OpState(map, d, RemoveAt(short, i), <<short[i]>>, max, idx, next)
  BY <1>2, <1>3, <1>4, <1>8, <1>9, <1>10 DEF OpState, Good
<1> QED BY <1>11 DEF next, op

Base(c) == [ctx |-> c, drops |-> <<>>, idx |-> NoIdx, ok |-> TRUE]

LEMMA OneOperation ==
  ASSUME NEW c, Sound(c), NEW h, NEW op, IsOperation(op), h.ops = <<op>>
  PROVE  Operations(c, h) = Operation(Base(c), h, op)
<1>1. h.ops \in Seq({op}) /\ Len(h.ops) = 1 /\ h.ops[1] = op
  OBVIOUS
<1>2. PICK r : OperationTrace(r, c, h)
  <2>1. \A x \in {op} : IsOperation(x)
    OBVIOUS
  <2> QED BY <1>1, <2>1, OperationsTraced
<1>3. r[0] = Base(c) /\ r[1] = Operations(c, h)
      /\ r[1] = IF r[0].ok THEN Operation(r[0], h, op) ELSE r[0]
  <2>1. 1 \in 1 .. Len(h.ops) /\ 1 - 1 = 0
    BY <1>1
  <2> QED BY <1>1, <1>2, <2>1 DEF OperationTrace, Base
<1>4. Base(c).ok = TRUE
  BY DEF Base
<1> QED BY <1>3, <1>4

\* The first of two operations succeeds.
TwoOps(c, h, o, p) ==
  /\ Sound(c) /\ IsOperation(o) /\ IsOperation(p) /\ h.ops = <<o, p>>
  /\ Operation(Base(c), h, o).ok = TRUE

LEMMA TwoOperations ==
  ASSUME NEW c, NEW h, NEW o, NEW p, TwoOps(c, h, o, p)
  PROVE  Operations(c, h) = Operation(Operation(Base(c), h, o), h, p)
<1> USE DEF TwoOps
<1>1. h.ops \in Seq({o, p}) /\ Len(h.ops) = 2 /\ h.ops[1] = o /\ h.ops[2] = p
  OBVIOUS
<1>2. PICK r : OperationTrace(r, c, h)
  <2>1. \A x \in {o, p} : IsOperation(x)
    OBVIOUS
  <2> QED BY <1>1, <2>1, OperationsTraced
<1>3. r[0] = Base(c) /\ r[2] = Operations(c, h)
      /\ r[1] = (IF r[0].ok THEN Operation(r[0], h, o) ELSE r[0])
      /\ r[2] = (IF r[1].ok THEN Operation(r[1], h, p) ELSE r[1])
  <2>1. 1 \in 1 .. Len(h.ops) /\ 1 - 1 = 0 /\ 2 \in 1 .. Len(h.ops) /\ 2 - 1 = 1
    BY <1>1
  <2>2. /\ r[0] = Base(c) /\ r[Len(h.ops)] = Operations(c, h)
        /\ \A k \in 1 .. Len(h.ops) :
             r[k] = IF r[k - 1].ok THEN Operation(r[k - 1], h, h.ops[k]) ELSE r[k - 1]
    BY <1>2 DEF OperationTrace, Base
  <2>3. r[1] = IF r[1 - 1].ok THEN Operation(r[1 - 1], h, h.ops[1]) ELSE r[1 - 1]
    BY <2>1, <2>2
  <2>4. r[2] = IF r[2 - 1].ok THEN Operation(r[2 - 1], h, h.ops[2]) ELSE r[2 - 1]
    BY <2>1, <2>2
  <2> QED BY ONLY <1>1, <2>1, <2>2, <2>3, <2>4
<1>4. Base(c).ok = TRUE
  BY DEF Base
<1>5. r[1] = Operation(Base(c), h, o)
  BY <1>3, <1>4
<1> QED BY <1>3, <1>5

LEMMA BaseState ==
  ASSUME NEW map, NEW short, NEW long, NEW d, Sound(d), Agree(map, short, long, d)
  PROVE  OpState(map, d, short, long, d.maxIdx, NoIdx, Base(d))
<1> DEFINE b == Base(d)
<1>1. b \in Marks /\ b.ctx = d /\ b.drops = <<>> /\ b.ok = TRUE /\ b.idx = NoIdx
  BY DEF Base, Marks, Sound, NoIdx
<1> HIDE DEF b
<1>2. b \in MarkedFrom(d)
  BY <1>1, NothingDropped, MarkedAgain
<1>3. OpState(map, d, short, long, d.maxIdx, NoIdx, b)
  BY <1>1, <1>2 DEF OpState, Good, Agree
<1> QED BY <1>3 DEF b

\* The picture joins the references.
Joins(map, d, short, long, max, acc, num, pic) ==
  /\ short \in Seq(EncRef) /\ long \in Seq(EncRef) /\ Len(long) <= 1
  /\ max \in {0, NoIdx} /\ (long # <<>> => max = 0)
  /\ OpState(map, d, short, long, max, NoIdx, acc)
  /\ num \in Nums /\ pic \in Pics /\ map[d.nextId] = pic

JoinsLong(map, d, short, acc, num, pic) ==
  /\ short \in Seq(EncRef) /\ OpState(map, d, short, <<>>, 0, 0, acc)
  /\ num \in Nums /\ pic \in Pics /\ map[d.nextId] = pic

JoinedShort(map, d, short, long, acc, num, pic) ==
  LET a == AddShort(acc.ctx, num, FALSE)
  IN  Agree(map, Append(short, Cur(pic, num)), long, a) /\ a.corrupted = d.corrupted

JoinedLong(map, d, short, acc, num, pic) ==
  LET a == AddLong(acc.ctx, num, 0)
  IN  Agree(map, short, <<Cur(pic, num)>>, a) /\ a.corrupted = d.corrupted

LEMMA AddedShortAgrees ==
  ASSUME NEW map, NEW d, NEW short, NEW long, NEW max, NEW acc, NEW num, NEW pic,
         Joins(map, d, short, long, max, acc, num, pic)
  PROVE  JoinedShort(map, d, short, long, acc, num, pic)
<1> USE DEF Joins
<1> DEFINE a == AddShort(acc.ctx, num, FALSE)
           x == [id |-> acc.ctx.nextId, num |-> num, ghost |-> FALSE]
           r == Cur(pic, num)
<1>1. /\ acc \in MarkedFrom(d) /\ acc.ctx \in Context
      /\ SameShort(map, short, acc.ctx.short) /\ SameLong(map, long, acc.ctx.long)
      /\ acc.ctx.maxIdx = max /\ acc.ctx.corrupted = d.corrupted
      /\ acc.ctx.short \in Seq(ShortRef) /\ acc.ctx.long \in Seq(LongRef)
  BY OpStateFields
<1>2. Sound(acc.ctx) /\ acc.ctx.nextId = d.nextId
  BY <1>1, MarksFields
<1>3. num \in Nat /\ FALSE \in BOOLEAN
  BY NumsAreNumbers
<1>4. /\ x \in ShortRef /\ a.short = Append(acc.ctx.short, x) /\ a.long = acc.ctx.long
      /\ a.maxIdx = acc.ctx.maxIdx /\ a.corrupted = acc.ctx.corrupted
  BY <1>2, <1>3, AddShortIs
<1>5. x.num = num /\ x.ghost = FALSE /\ x.id = acc.ctx.nextId
  OBVIOUS
<1>6. r \in EncRef /\ r.num = num /\ r.pic = pic /\ pic # Ghost
  BY CurIs
<1> HIDE DEF a, x, r
<1>7. SameShort(map, Append(short, r), a.short)
  <2>1. x.num = r.num /\ (x.ghost <=> r.pic = Ghost) /\ (~x.ghost => map[x.id] = r.pic)
    BY <1>2, <1>5, <1>6
  <2> QED BY <1>1, <1>4, <1>6, <2>1, SameShortAppended
<1>8. a.long # <<>> => long # <<>>
  <2>1. Len(a.long) = Len(long)
    BY <1>1, <1>4 DEF SameLong
  <2>2. a.long \in Seq(LongRef)
    BY <1>1, <1>4
  <2> QED BY <2>1, <2>2
<1>9. Agree(map, Append(short, r), long, a)
  BY <1>1, <1>4, <1>7, <1>8 DEF Agree
<1> QED BY <1>1, <1>4, <1>9 DEF a, r, JoinedShort

LEMMA AddedLongAgrees ==
  ASSUME NEW map, NEW d, NEW short, NEW acc, NEW num, NEW pic,
         JoinsLong(map, d, short, acc, num, pic)
  PROVE  JoinedLong(map, d, short, acc, num, pic)
<1> USE DEF JoinsLong
<1> DEFINE a == AddLong(acc.ctx, num, 0)
           x == [id |-> acc.ctx.nextId, num |-> num, idx |-> 0]
           r == Cur(pic, num)
<1>1. /\ acc \in MarkedFrom(d) /\ acc.ctx \in Context
      /\ SameShort(map, short, acc.ctx.short) /\ SameLong(map, <<>>, acc.ctx.long)
      /\ acc.ctx.maxIdx = 0 /\ acc.ctx.corrupted = d.corrupted
      /\ acc.ctx.long \in Seq(LongRef)
  <2>1. Len(<<>>) <= 1
    OBVIOUS
  <2> QED BY <2>1, OpStateFields
<1>2. acc.ctx.nextId = d.nextId
  BY <1>1, MarksFields
<1>3. acc.ctx.long = <<>>
  BY <1>1 DEF SameLong
<1>4. /\ a.short = acc.ctx.short /\ a.long = Append(acc.ctx.long, x)
      /\ a.maxIdx = acc.ctx.maxIdx /\ a.corrupted = acc.ctx.corrupted
  BY <1>1 DEF AddLong, Context
<1>5. Append(<<>>, x) = <<x>>
  OBVIOUS
<1>6. x.idx = 0 /\ x.id = d.nextId
  BY <1>2
<1>7. r.pic = pic
  BY DEF Cur
<1> HIDE DEF a, x, r
<1>8. SameLong(map, <<r>>, <<x>>)
  BY <1>6, <1>7 DEF SameLong
<1>9. Agree(map, short, <<r>>, a)
  BY <1>1, <1>3, <1>4, <1>5, <1>8 DEF Agree
<1> QED BY <1>1, <1>4, <1>9 DEF a, r, JoinedLong

\* What a picture compiles to, when its marking is what the encoder did.
MarkedRight(map, d, h, refs, short, long, r) ==
  /\ r.ok = TRUE /\ r.ctx.corrupted = d.corrupted
  /\ Agree(map, short, long, r.ctx)
  /\ \E drops \in Seq(Nat) : r.instructions = <<Decode(h, d.nextId, refs)>> \o DropAll(h, drops)

LEMMA DecodedRight ==
  ASSUME NEW map, NEW d, NEW h, NEW refs, NEW short, NEW long, NEW c, NEW drops \in Seq(Nat),
         Agree(map, short, long, c), c.corrupted = d.corrupted
  PROVE  MarkedRight(map, d, h, refs, short, long, DecodedAs(d.nextId, h, refs, c, drops))
  BY DEF MarkedRight, DecodedAs, Accepted

Add(done, h) == IF done.idx = NoIdx THEN AddShort(done.ctx, h.num, FALSE)
                ELSE AddLong(done.ctx, h.num, done.idx)

LEMMA AdaptiveRight ==
  ASSUME NEW map, NEW d, NEW h, NEW refs, NEW short, NEW long, Len(long) <= 1,
         Operations(d, h).ok = TRUE, Operations(d, h).drops \in Seq(Nat),
         Agree(map, short, long, Add(Operations(d, h), h)),
         Add(Operations(d, h), h).corrupted = d.corrupted
  PROVE  MarkedRight(map, d, h, refs, short, long, MarkAdaptive(d, h, refs))
<1> DEFINE done == Operations(d, h)
           next == Add(done, h)
<1>1. ~(next.maxIdx # NoIdx /\ Len(next.long) > next.maxIdx + 1)
  <2> HIDE DEF next
  <2>1. Len(next.long) = Len(long) /\ next.maxIdx \in {NoIdx, 0}
    BY DEF Agree, SameLong, next
  <2> QED BY <2>1
<1>2. MarkAdaptive(d, h, refs) = DecodedAs(d.nextId, h, refs, next, done.drops)
  <2> HIDE DEF done
  <2>1. done.ok = TRUE
    BY DEF done
  <2>2. MarkAdaptive(d, h, refs) =
          IF ~done.ok THEN Failed(done.ctx)
          ELSE IF next.maxIdx # NoIdx /\ Len(next.long) > next.maxIdx + 1 THEN Failed(next)
          ELSE DecodedAs(d.nextId, h, refs, next, done.drops)
    BY DEF MarkAdaptive, Add, done
  <2> HIDE DEF next
  <2> QED BY <1>1, <2>1, <2>2
<1> HIDE DEF done, next
<1>3. Agree(map, short, long, next) /\ next.corrupted = d.corrupted /\ done.drops \in Seq(Nat)
  BY DEF done, next
<1> QED BY <1>2, <1>3, DecodedRight

\* A header of the encoder, with the references it has so far, meets the manager's.
Meets(map, short, long, num, pic, d, h) ==
  /\ short \in Seq(EncRef) /\ long \in Seq(EncRef) /\ num \in Nums /\ pic \in Pics
  /\ Rising(short, num) /\ Behind(short, num) /\ Len(long) <= 1
  /\ Len(short) + Len(long) <= MaxRefs
  /\ Sound(d) /\ Agree(map, short, long, d) /\ map[d.nextId] = pic
  /\ h.num = num /\ h.idr = FALSE

MarksAs(h, m) == h.marking = m.marking /\ h.ops = m.ops

LEMMA MaxOfAgreed ==
  ASSUME NEW map, NEW short, NEW long \in Seq(EncRef), NEW d, Sound(d), Agree(map, short, long, d)
  PROVE  d.maxIdx \in {0, NoIdx} /\ (long # <<>> => d.maxIdx = 0)
<1>1. d.long \in Seq(LongRef) /\ Len(d.long) = Len(long)
  BY ContextFields DEF Sound, Agree, SameLong
<1>2. long # <<>> => d.long # <<>>
  BY <1>1
<1> QED BY <1>2 DEF Agree

LEMMA SlidesRight ==
  ASSUME MaxRefs >= 1, NEW map, NEW short, NEW long, NEW num, NEW pic, NEW d, NEW h,
         Meets(map, short, long, num, pic, d, h), NEW refs,
         NEW m, Slides(m, short, long, num, pic), MarksAs(h, m)
  PROVE  MarkedRight(map, d, h, refs, m.short, m.long, Mark(d, h, refs))
<1> DEFINE r == Cur(pic, num)
           a == AddShort(d, num, FALSE)
           c == Evict(a, num).ctx
           drops == Evict(a, num).drops
           s == Append(Slid(short, long), r)
<1>1. /\ short \in Seq(EncRef) /\ long \in Seq(EncRef) /\ num \in Nums /\ pic \in Pics
      /\ Rising(short, num) /\ Behind(short, num)
      /\ Len(short) + Len(long) <= MaxRefs
      /\ Sound(d) /\ Agree(map, short, long, d) /\ map[d.nextId] = pic
      /\ h.num = num /\ h.idr = FALSE
  BY DEF Meets
<1>2. CanSlide(short, long) /\ m.short = s /\ m.long = long /\ h.marking = "sliding"
  BY DEF Slides, Marking, MarksAs
<1>3. r \in EncRef /\ r.num = num /\ r.pic = pic /\ pic # Ghost
  BY <1>1, CurIs
<1>4. Agree(map, s, long, c) /\ c.corrupted = d.corrupted
  <2> DEFINE t == FALSE
  <2>1. SlidesOn(map, short, long, d, num, r, t)
    BY <1>1, <1>2, <1>3 DEF SlidesOn
  <2> HIDE DEF r, t, s
  <2>2. SlidAgrees(map, short, long, d, num, r, t)
    BY <2>1, SlideAgrees
  <2> QED BY <2>2 DEF SlidAgrees, s, t
<1>5. Mark(d, h, refs) = DecodedAs(d.nextId, h, refs, c, drops)
  BY <1>1, <1>2 DEF Mark, MarkSlidingWindow
<1>6. drops \in Seq(Nat)
  <2>1. num \in Nat
    BY <1>1, NumsAreNumbers
  <2>2. Sound(a)
    BY <1>1, <2>1, PictureAddedShort
  <2> HIDE DEF a
  <2> QED BY <2>1, <2>2, EvictBalanced DEF Balanced
<1> HIDE DEF c, drops, s
<1> QED BY <1>2, <1>4, <1>5, <1>6, DecodedRight

LEMMA TwoInstructions ==
  ASSUME NEW i, NEW j
  PROVE  <<i, j>> = <<i>> \o <<j>>
<1>1. <<i>> \in Seq({i, j}) /\ <<j>> \in Seq({i, j}) /\ <<i, j>> \in Seq({i, j})
  OBVIOUS
<1>2. Len(<<i>>) = 1 /\ <<i>>[1] = i /\ Len(<<j>>) = 1 /\ <<j>>[1] = j
  BY OneElement
<1>3. Len(<<i, j>>) = 2 /\ <<i, j>>[1] = i /\ <<i, j>>[2] = j
  OBVIOUS
<1> DEFINE a == <<i>>
           b == <<j>>
           s == <<i, j>>
<1> HIDE DEF a, b, s
<1>4. /\ a \o b \in Seq({i, j}) /\ Len(a \o b) = Len(a) + Len(b)
      /\ \A k \in 1 .. Len(a) : (a \o b)[k] = a[k]
      /\ \A k \in 1 .. Len(b) : (a \o b)[Len(a) + k] = b[k]
  <2>1. a \in Seq({i, j}) /\ b \in Seq({i, j})
    BY <1>1 DEF a, b
  <2> QED BY ONLY <2>1, ConcatIs
<1> DEFINE c2 == a \o b
<1>5. c2 \in Seq({i, j}) /\ Len(c2) = 2 /\ c2[1] = i /\ c2[2] = j
  <2>1. Len(a) = 1 /\ Len(b) = 1 /\ a[1] = i /\ b[1] = j
    BY <1>2 DEF a, b
  <2> QED BY <1>4, <2>1
<1> HIDE DEF c2
<1>6. s = c2
  <2>1. s \in Seq({i, j}) /\ Len(s) = 2 /\ s[1] = i /\ s[2] = j
    BY <1>1, <1>3 DEF s
  <2>2. \A k \in 1 .. Len(s) : s[k] = c2[k]
    BY <1>5, <2>1
  <2> QED BY <1>5, <2>1, <2>2, SameSequence
<1> QED BY <1>6 DEF s, c2, a, b

LEMMA NoneRight ==
  ASSUME NEW map, NEW short, NEW long, NEW num, NEW pic, NEW d, NEW h,
         Meets(map, short, long, num, pic, d, h), NEW refs, h.marking = "none"
  PROVE  MarkedRight(map, d, h, refs, short, long, Mark(d, h, refs))
<1> DEFINE c == [d EXCEPT !.nextId = @ + 1]
           drops == <<d.nextId>>
<1>1. Sound(d) /\ Agree(map, short, long, d) /\ h.idr = FALSE /\ d \in Context /\ d.nextId \in Nat
  BY ContextFields DEF Meets, Sound
<1>2. Mark(d, h, refs) = Accepted(c, <<Decode(h, d.nextId, refs), Drop(h, drops)>>)
  BY <1>1 DEF Mark, MarkNonReference
<1>3. drops \in Seq(Nat) /\ drops # <<>>
  BY <1>1
<1>4. c.short = d.short /\ c.long = d.long /\ c.maxIdx = d.maxIdx /\ c.corrupted = d.corrupted
  BY <1>1 DEF Context
<1> HIDE DEF c, drops
<1>5. Agree(map, short, long, c)
  BY <1>1, <1>4 DEF Agree
<1>6. <<Decode(h, d.nextId, refs), Drop(h, drops)>> = <<Decode(h, d.nextId, refs)>> \o DropAll(h, drops)
  <2>1. DropAll(h, drops) = <<Drop(h, drops)>>
    BY <1>3 DEF DropAll
  <2> DEFINE i == Decode(h, d.nextId, refs)
             j == Drop(h, drops)
  <2> HIDE DEF i, j
  <2>2. <<i, j>> = <<i>> \o <<j>>
    BY TwoInstructions
  <2> QED BY <2>1, <2>2 DEF i, j
<1>7. Mark(d, h, refs) = DecodedAs(d.nextId, h, refs, c, drops)
  BY <1>2, <1>6 DEF DecodedAs
<1> QED BY <1>3, <1>4, <1>5, <1>7, DecodedRight

\* Operations that leave the encoder's references, and the picture joins those of either kind.
OperatedTo(map, short, long, num, pic, d, h, s, l, max) ==
  /\ Meets(map, short, long, num, pic, d, h) /\ h.marking = "adaptive"
  /\ s \in Seq(EncRef) /\ l \in Seq(EncRef) /\ Len(l) <= 1 /\ max \in {0, NoIdx}
  /\ (l # <<>> => max = 0)
  /\ OpState(map, d, s, l, max, NoIdx, Operations(d, h))

LEMMA OperatedRight ==
  ASSUME NEW map, NEW short, NEW long, NEW num, NEW pic, NEW d, NEW h, NEW s, NEW l, NEW max,
         OperatedTo(map, short, long, num, pic, d, h, s, l, max), NEW refs
  PROVE  MarkedRight(map, d, h, refs, Append(s, Cur(pic, num)), l, Mark(d, h, refs))
<1> USE DEF OperatedTo
<1> DEFINE done == Operations(d, h)
           a == AddShort(done.ctx, num, FALSE)
<1>1. num \in Nums /\ pic \in Pics /\ map[d.nextId] = pic /\ h.num = num /\ h.idr = FALSE
  BY DEF Meets
<1>2. done.ok = TRUE /\ done.idx = NoIdx /\ done \in MarkedFrom(d)
  BY DEF OpState, Good
<1>3. Agree(map, Append(s, Cur(pic, num)), l, a) /\ a.corrupted = d.corrupted
  <2>1. Joins(map, d, s, l, max, done, num, pic)
    BY <1>1 DEF Joins
  <2> HIDE DEF done
  <2>2. JoinedShort(map, d, s, l, done, num, pic)
    BY <2>1, AddedShortAgrees
  <2> QED BY <2>2 DEF JoinedShort
<1>4. Add(done, h) = a
  BY <1>1, <1>2 DEF Add
<1>5. done.drops \in Seq(Nat)
  BY <1>2, MarksFields
<1> HIDE DEF done, a
<1>6. MarkedRight(map, d, h, refs, Append(s, Cur(pic, num)), l, MarkAdaptive(d, h, refs))
  BY <1>2, <1>3, <1>4, <1>5, AdaptiveRight DEF done
<1>7. Mark(d, h, refs) = MarkAdaptive(d, h, refs)
  BY <1>1 DEF Mark
<1> QED BY <1>6, <1>7

OperatedToLong(map, short, long, num, pic, d, h, s) ==
  /\ Meets(map, short, long, num, pic, d, h) /\ h.marking = "adaptive" /\ s \in Seq(EncRef)
  /\ OpState(map, d, s, <<>>, 0, 0, Operations(d, h))

LEMMA OperatedLongRight ==
  ASSUME NEW map, NEW short, NEW long, NEW num, NEW pic, NEW d, NEW h, NEW s,
         OperatedToLong(map, short, long, num, pic, d, h, s), NEW refs
  PROVE  MarkedRight(map, d, h, refs, s, <<Cur(pic, num)>>, Mark(d, h, refs))
<1> USE DEF OperatedToLong
<1> DEFINE done == Operations(d, h)
           a == AddLong(done.ctx, num, 0)
           l == <<Cur(pic, num)>>
<1>1. num \in Nums /\ pic \in Pics /\ map[d.nextId] = pic /\ h.num = num /\ h.idr = FALSE
  BY DEF Meets
<1>2. done.ok = TRUE /\ done.idx = 0 /\ done \in MarkedFrom(d)
  BY DEF OpState, Good
<1>3. Agree(map, s, l, a) /\ a.corrupted = d.corrupted
  <2>1. JoinsLong(map, d, s, done, num, pic)
    BY <1>1 DEF JoinsLong
  <2> HIDE DEF done
  <2>2. JoinedLong(map, d, s, done, num, pic)
    BY <2>1, AddedLongAgrees
  <2> QED BY <2>2 DEF JoinedLong
<1>4. Add(done, h) = a
  <2> HIDE DEF done
  <2> QED BY <1>1, <1>2 DEF Add, NoIdx
<1>5. done.drops \in Seq(Nat)
  BY <1>2, MarksFields
<1>8. Len(l) <= 1
  BY OneElement
<1> HIDE DEF done, a, l
<1>6. MarkedRight(map, d, h, refs, s, l, MarkAdaptive(d, h, refs))
  BY <1>2, <1>3, <1>4, <1>5, <1>8, AdaptiveRight DEF done
<1>7. Mark(d, h, refs) = MarkAdaptive(d, h, refs)
  BY <1>1 DEF Mark
<1> QED BY <1>6, <1>7 DEF l

LEMMA TheOperations ==
  /\ \A num, r : IsOperation(Take("ShortTermUnused", num, r))
                 /\ IsOperation(Take("ShortTermToLongTerm", num, r))
  /\ \A idx \in Int : /\ IsOperation(Unmark("LongTermUnused", idx))
                      /\ IsOperation(Unmark("MaxLongTermIdx", idx))
                      /\ IsOperation(Unmark("CurrentToLongTerm", idx))
  /\ IsOperation(UseMaxIdx)
  BY DEF IsOperation, Take, Unmark, UseMaxIdx, Kinds

MeetsFacts(map, short, long, num, d, h) ==
  /\ short \in Seq(EncRef) /\ long \in Seq(EncRef) /\ num \in Nums /\ Rising(short, num)
  /\ Len(long) <= 1 /\ Sound(d) /\ h.num = num
  /\ d.maxIdx \in {0, NoIdx} /\ (long # <<>> => d.maxIdx = 0)
  /\ OpState(map, d, short, long, d.maxIdx, NoIdx, Base(d))

LEMMA MeetsStart ==
  ASSUME NEW map, NEW short, NEW long, NEW num, NEW pic, NEW d, NEW h,
         Meets(map, short, long, num, pic, d, h)
  PROVE  MeetsFacts(map, short, long, num, d, h)
<1>1. /\ short \in Seq(EncRef) /\ long \in Seq(EncRef) /\ num \in Nums /\ Rising(short, num)
      /\ Len(long) <= 1 /\ Sound(d) /\ h.num = num /\ Agree(map, short, long, d)
  BY DEF Meets
<1>2. d.maxIdx \in {0, NoIdx} /\ (long # <<>> => d.maxIdx = 0)
  BY <1>1, MaxOfAgreed
<1>3. OpState(map, d, short, long, d.maxIdx, NoIdx, Base(d))
  BY <1>1, BaseState
<1> QED BY <1>1, <1>2, <1>3 DEF MeetsFacts

LEMMA UnmarksRight ==
  ASSUME NEW map, NEW short, NEW long, NEW num, NEW pic, NEW d, NEW h,
         Meets(map, short, long, num, pic, d, h), NEW refs,
         NEW m, Unmarks(m, short, long, num, pic), MarksAs(h, m)
  PROVE  MarkedRight(map, d, h, refs, m.short, m.long, Mark(d, h, refs))
<1>1. /\ short \in Seq(EncRef) /\ long \in Seq(EncRef) /\ num \in Nums /\ Rising(short, num)
      /\ Len(long) <= 1 /\ Sound(d) /\ h.num = num
      /\ d.maxIdx \in {0, NoIdx} /\ (long # <<>> => d.maxIdx = 0)
      /\ OpState(map, d, short, long, d.maxIdx, NoIdx, Base(d))
  BY MeetsStart DEF MeetsFacts
<1>2. PICK i \in DOMAIN short :
        m = Marking("adaptive", <<Take("ShortTermUnused", num, short[i])>>,
                    Append(RemoveAt(short, i), Cur(pic, num)), long, num)
  BY DEF Unmarks
<1> DEFINE op == Take("ShortTermUnused", num, short[i])
           s == RemoveAt(short, i)
           x == Operation(Base(d), h, op)
<1>3. /\ m.short = Append(s, Cur(pic, num)) /\ m.long = long
      /\ h.marking = "adaptive" /\ h.ops = <<op>>
  BY <1>2 DEF Marking, MarksAs
<1>4. Operations(d, h) = x
  <2>1. IsOperation(op)
    BY TheOperations
  <2> HIDE DEF op
  <2> QED BY <1>1, <1>3, <2>1, OneOperation
<1>5. OpState(map, d, s, long, d.maxIdx, NoIdx, x)
  <2> DEFINE acc == Base(d)
             max == d.maxIdx
  <2>1. OpState(map, d, short, long, max, NoIdx, acc)
    BY <1>1
  <2> HIDE DEF acc, max
  <2>2. OpState(map, d, RemoveAt(short, i), long, max, NoIdx,
                Operation(acc, h, Take("ShortTermUnused", num, short[i])))
    BY <1>1, <2>1, UnmarkStep
  <2> QED BY <2>2 DEF acc, max
<1>6. s \in Seq(EncRef)
  BY <1>1, RemoveAtIs
<1> HIDE DEF op, s, x
<1> DEFINE max == d.maxIdx
<1>7. OperatedTo(map, short, long, num, pic, d, h, s, long, max)
  BY <1>1, <1>3, <1>4, <1>5, <1>6 DEF OperatedTo
<1> HIDE DEF max
<1>8. MarkedRight(map, d, h, refs, Append(s, Cur(pic, num)), long, Mark(d, h, refs))
  BY <1>7, OperatedRight
<1> QED BY <1>3, <1>8

LEMMA ConvertsRight ==
  ASSUME NEW map, NEW short, NEW long, NEW num, NEW pic, NEW d, NEW h,
         Meets(map, short, long, num, pic, d, h), NEW refs,
         NEW m, Converts(m, short, long, num, pic), MarksAs(h, m)
  PROVE  MarkedRight(map, d, h, refs, m.short, m.long, Mark(d, h, refs))
<1>1. /\ short \in Seq(EncRef) /\ long \in Seq(EncRef) /\ num \in Nums /\ Rising(short, num)
      /\ Len(long) <= 1 /\ Sound(d) /\ h.num = num
      /\ OpState(map, d, short, long, d.maxIdx, NoIdx, Base(d))
  BY MeetsStart DEF MeetsFacts
<1>2. PICK i \in DOMAIN short :
        /\ short[i].pic # Ghost
        /\ m = Marking("adaptive", <<UseMaxIdx, Take("ShortTermToLongTerm", num, short[i])>>,
                       Append(RemoveAt(short, i), Cur(pic, num)), <<short[i]>>, num)
  BY DEF Converts
<1> DEFINE o == UseMaxIdx
           op == Take("ShortTermToLongTerm", num, short[i])
           s == RemoveAt(short, i)
           l == <<short[i]>>
           a == Operation(Base(d), h, o)
           x == Operation(a, h, op)
<1>3. /\ m.short = Append(s, Cur(pic, num)) /\ m.long = l
      /\ h.marking = "adaptive" /\ h.ops = <<o, op>>
  BY <1>2 DEF Marking, MarksAs
<1>4. OpState(map, d, short, long, 0, NoIdx, a)
  <2> DEFINE acc == Base(d)
             max == d.maxIdx
  <2>1. OpState(map, d, short, long, max, NoIdx, acc)
    BY <1>1
  <2> HIDE DEF acc, max
  <2>2. OpState(map, d, short, IF 0 = 0 THEN long ELSE <<>>, 0, NoIdx,
                Operation(acc, h, Unmark("MaxLongTermIdx", 0)))
    <3> DEFINE new == 0
    <3>1. new \in {0, NoIdx}
      OBVIOUS
    <3> HIDE DEF new
    <3>2. OpState(map, d, short, IF new = 0 THEN long ELSE <<>>, new, NoIdx,
                Operation(acc, h, Unmark("MaxLongTermIdx", new)))
      BY <1>1, <2>1, <3>1, MaxStep
    <3> QED BY <3>2 DEF new
  <2> QED BY <2>2 DEF acc, max, UseMaxIdx
<1>5. Operations(d, h) = x
  <2>1. IsOperation(op) /\ IsOperation(o)
    BY TheOperations
  <2>2. a.ok = TRUE
    BY <1>4 DEF OpState, Good
  <2>3. TwoOps(d, h, o, op)
    BY <1>1, <1>3, <2>1, <2>2 DEF TwoOps
  <2> HIDE DEF op, o
  <2> QED BY <2>3, TwoOperations
<1>6. OpState(map, d, s, l, 0, NoIdx, x)
  <2> DEFINE max == 0
  <2>1. OpState(map, d, short, long, max, NoIdx, a)
    BY <1>4
  <2> HIDE DEF a, max
  <2>2. OpState(map, d, RemoveAt(short, i), <<short[i]>>, max, NoIdx,
                Operation(a, h, Take("ShortTermToLongTerm", num, short[i])))
    BY <1>1, <1>2, <2>1, ConvertStep
  <2> QED BY <2>2 DEF max
<1>7. s \in Seq(EncRef) /\ l \in Seq(EncRef) /\ Len(l) <= 1
  <2>1. s \in Seq(EncRef)
    BY <1>1, RemoveAtIs
  <2>2. short[i] \in EncRef
    BY <1>1
  <2> QED BY <2>1, <2>2
<1> HIDE DEF op, o, s, l, a, x
<1> DEFINE max == 0
<1>8. OperatedTo(map, short, long, num, pic, d, h, s, l, max)
  BY <1>1, <1>3, <1>5, <1>6, <1>7 DEF OperatedTo
<1> HIDE DEF max
<1>9. MarkedRight(map, d, h, refs, Append(s, Cur(pic, num)), l, Mark(d, h, refs))
  BY <1>8, OperatedRight
<1> QED BY <1>3, <1>9

LEMMA PromotesRight ==
  ASSUME NEW map, NEW short, NEW long, NEW num, NEW pic, NEW d, NEW h,
         Meets(map, short, long, num, pic, d, h), NEW refs,
         NEW m, Promotes(m, short, long, num, pic), MarksAs(h, m)
  PROVE  MarkedRight(map, d, h, refs, m.short, m.long, Mark(d, h, refs))
<1>1. /\ short \in Seq(EncRef) /\ long \in Seq(EncRef) /\ num \in Nums /\ Rising(short, num)
      /\ Len(long) <= 1 /\ Sound(d) /\ h.num = num
      /\ OpState(map, d, short, long, d.maxIdx, NoIdx, Base(d))
  BY MeetsStart DEF MeetsFacts
<1> DEFINE o == UseMaxIdx
           op == Unmark("CurrentToLongTerm", 0)
           a == Operation(Base(d), h, o)
           x == Operation(a, h, op)
<1>3. /\ m.short = short /\ m.long = <<Cur(pic, num)>>
      /\ h.marking = "adaptive" /\ h.ops = <<o, op>>
  BY DEF Marking, MarksAs, Promotes
<1>4. OpState(map, d, short, long, 0, NoIdx, a)
  <2> DEFINE acc == Base(d)
             max == d.maxIdx
  <2>1. OpState(map, d, short, long, max, NoIdx, acc)
    BY <1>1
  <2> HIDE DEF acc, max
  <2>2. OpState(map, d, short, IF 0 = 0 THEN long ELSE <<>>, 0, NoIdx,
                Operation(acc, h, Unmark("MaxLongTermIdx", 0)))
    <3> DEFINE new == 0
    <3>1. new \in {0, NoIdx}
      OBVIOUS
    <3> HIDE DEF new
    <3>2. OpState(map, d, short, IF new = 0 THEN long ELSE <<>>, new, NoIdx,
                Operation(acc, h, Unmark("MaxLongTermIdx", new)))
      BY <1>1, <2>1, <3>1, MaxStep
    <3> QED BY <3>2 DEF new
  <2> QED BY <2>2 DEF acc, max, UseMaxIdx
<1>5. Operations(d, h) = x
  <2>1. IsOperation(op) /\ IsOperation(o)
    BY TheOperations
  <2>2. a.ok = TRUE
    BY <1>4 DEF OpState, Good
  <2>3. TwoOps(d, h, o, op)
    BY <1>1, <1>3, <2>1, <2>2 DEF TwoOps
  <2> HIDE DEF op, o
  <2> QED BY <2>3, TwoOperations
<1>6. OpState(map, d, short, <<>>, 0, 0, x)
  <2> DEFINE max == 0
  <2>1. OpState(map, d, short, long, max, NoIdx, a)
    BY <1>4
  <2> HIDE DEF a, max
  <2>2. OpState(map, d, short, <<>>, max, 0, Operation(a, h, Unmark("CurrentToLongTerm", 0)))
    BY <1>1, <2>1, CurrentStep
  <2> QED BY <2>2 DEF max
<1> HIDE DEF op, o, a, x
<1>8. OperatedToLong(map, short, long, num, pic, d, h, short)
  BY <1>1, <1>3, <1>5, <1>6 DEF OperatedToLong
<1>9. MarkedRight(map, d, h, refs, short, <<Cur(pic, num)>>, Mark(d, h, refs))
  BY <1>8, OperatedLongRight
<1> QED BY <1>3, <1>9

LEMMA FreesRight ==
  ASSUME NEW map, NEW short, NEW long, NEW num, NEW pic, NEW d, NEW h,
         Meets(map, short, long, num, pic, d, h), NEW refs,
         NEW m, Frees(m, short, long, num, pic), MarksAs(h, m)
  PROVE  MarkedRight(map, d, h, refs, m.short, m.long, Mark(d, h, refs))
<1>1. /\ short \in Seq(EncRef) /\ long \in Seq(EncRef) /\ num \in Nums /\ Rising(short, num)
      /\ Len(long) <= 1 /\ Sound(d) /\ h.num = num
      /\ d.maxIdx \in {0, NoIdx} /\ long # <<>>
      /\ OpState(map, d, short, long, d.maxIdx, NoIdx, Base(d))
  BY MeetsStart DEF MeetsFacts, Frees
<1>2. PICK op \in {Unmark("LongTermUnused", 0), Unmark("MaxLongTermIdx", NoIdx)} :
        m = Marking("adaptive", <<op>>, Append(short, Cur(pic, num)), <<>>, num)
  BY DEF Frees
<1> DEFINE x == Operation(Base(d), h, op)
<1>3. /\ m.short = Append(short, Cur(pic, num)) /\ m.long = <<>>
      /\ h.marking = "adaptive" /\ h.ops = <<op>>
  BY <1>2 DEF Marking, MarksAs
<1>4. Operations(d, h) = x
  <2>1. IsOperation(op)
    BY TheOperations, 0 \in Int, NoIdx \in Int DEF NoIdx
  <2> HIDE DEF x
  <2>2. Operations(d, h) = Operation(Base(d), h, op)
    BY <1>1, <1>3, <2>1, OneOperation
  <2> QED BY <2>2 DEF x
<1>5. \E max \in {0, NoIdx} : OpState(map, d, short, <<>>, max, NoIdx, x)
  <2> DEFINE acc == Base(d)
             max == d.maxIdx
  <2>1. OpState(map, d, short, long, max, NoIdx, acc) /\ max \in {0, NoIdx}
    BY <1>1
  <2>2. CASE op = Unmark("LongTermUnused", 0)
    <3> HIDE DEF acc, max
    <3>1. OpState(map, d, short, <<>>, max, NoIdx, Operation(acc, h, Unmark("LongTermUnused", 0)))
      BY <1>1, <2>1, FreeStep
    <3> QED BY <2>1, <2>2, <3>1 DEF acc
  <2>3. CASE op = Unmark("MaxLongTermIdx", NoIdx)
    <3> HIDE DEF acc, max
    <3> DEFINE new == NoIdx
    <3>1. new \in {0, NoIdx} /\ new # 0
      BY DEF NoIdx
    <3> HIDE DEF new
    <3>2. OpState(map, d, short, IF new = 0 THEN long ELSE <<>>, new, NoIdx,
                Operation(acc, h, Unmark("MaxLongTermIdx", new)))
      BY <1>1, <2>1, <3>1, MaxStep
    <3>3. OpState(map, d, short, <<>>, new, NoIdx, Operation(acc, h, Unmark("MaxLongTermIdx", new)))
      BY <3>1, <3>2
    <3> QED BY <2>3, <3>1, <3>3 DEF acc, new
  <2> QED BY <2>2, <2>3
<1> HIDE DEF x
<1>6. PICK max \in {0, NoIdx} : OpState(map, d, short, <<>>, max, NoIdx, x)
  BY <1>5
<1> DEFINE l == <<>>
<1>7. l \in Seq(EncRef) /\ Len(l) <= 1 /\ ~(l # <<>>)
  OBVIOUS
<1>8. OperatedTo(map, short, long, num, pic, d, h, short, l, max)
  <2>1. OpState(map, d, short, l, max, NoIdx, x)
    BY <1>6
  <2> HIDE DEF l
  <2> QED BY <1>1, <1>3, <1>4, <1>7, <2>1 DEF OperatedTo
<1>9. MarkedRight(map, d, h, refs, Append(short, Cur(pic, num)), l, Mark(d, h, refs))
  <2> HIDE DEF l
  <2> QED BY <1>8, OperatedRight
<1> QED BY <1>3, <1>9

\* However the encoder marks a picture, the manager is left with the same references.
LEMMA MarkRight ==
  ASSUME MaxRefs >= 1, NEW map, NEW e \in Encoder, ~e.uses.resets, NEW pic, NEW d, NEW h,
         Meets(map, e.short, e.long, NextNum(e), pic, d, h), NEW refs,
         NEW m \in LegalMarkings(e, pic), MarksAs(h, m)
  PROVE  MarkedRight(map, d, h, refs, m.short, m.long, Mark(d, h, refs))
<1> DEFINE short == e.short
           long == e.long
           num == NextNum(e)
<1>1. \/ m = Marking("none", <<>>, short, long, e.prev)
      \/ m \in Markings(short, long, num, pic, e.uses)
  BY DEF LegalMarkings
<1>2. Meets(map, short, long, num, pic, d, h)
  OBVIOUS
<1> HIDE DEF short, long, num
<1>3. CASE m = Marking("none", <<>>, short, long, e.prev)
  <2>1. m.short = short /\ m.long = long /\ h.marking = "none"
    BY <1>3 DEF Marking, MarksAs
  <2>2. MarkedRight(map, d, h, refs, short, long, Mark(d, h, refs))
    BY <1>2, <2>1, NoneRight
  <2> QED BY <2>1, <2>2
<1>4. CASE m \in Markings(short, long, num, pic, e.uses)
  <2> DEFINE uses == e.uses
  <2>1. m \in Markings(short, long, num, pic, uses) /\ ~uses.resets
    BY <1>4
  <2> HIDE DEF uses
  <2>2. \/ Slides(m, short, long, num, pic) \/ Unmarks(m, short, long, num, pic)
        \/ Converts(m, short, long, num, pic) \/ Promotes(m, short, long, num, pic)
        \/ Frees(m, short, long, num, pic)
    BY <2>1, MarkingForms
  <2>3. CASE Slides(m, short, long, num, pic)
    BY <1>2, <2>3, SlidesRight
  <2>4. CASE Unmarks(m, short, long, num, pic)
    BY <1>2, <2>4, UnmarksRight
  <2>5. CASE Converts(m, short, long, num, pic)
    BY <1>2, <2>5, ConvertsRight
  <2>6. CASE Promotes(m, short, long, num, pic)
    BY <1>2, <2>6, PromotesRight
  <2>7. CASE Frees(m, short, long, num, pic)
    BY <1>2, <2>7, FreesRight
  <2> QED BY <2>2, <2>3, <2>4, <2>5, <2>6, <2>7
<1> QED BY <1>1, <1>3, <1>4

-----------------------------------------------------------------------------
(* A picture of the encoder *)

LEMMA SimStart ==
  ASSUME NEW map, NEW e, e.skipped = 0, NEW c, Sound(c), c.prev \in Nums, Matches(map, e, c)
  PROVE  Sim(map, e, c)
<1> DEFINE a == [ctx |-> c, drops |-> <<>>, ok |-> TRUE]
           r == [j \in 0 .. 0 |-> a]
<1>1. a \in FilledFrom(c) /\ a.ctx = c
  <2>1. a \in Fills
    BY DEF Fills, Sound
  <2> QED BY <2>1, NothingDropped DEF FilledFrom
<1>2. r \in [0 .. 0 -> FilledFrom(c)] /\ r[0] = a
  <2> HIDE DEF a
  <2> QED BY <1>1
<1>3. Inferred(r, c, 0)
  <2>1. \A j \in 1 .. 0 : FALSE
    OBVIOUS
  <2> QED BY <1>2, <2>1 DEF Inferred
<1>4. e.prev = (c.prev + e.skipped) % MaxFrameNum
  <2>1. c.prev + 0 = c.prev /\ 0 <= c.prev /\ c.prev < MaxFrameNum /\ c.prev \in Int
    BY NumsAreNumbers DEF Nums
  <2>2. c.prev % MaxFrameNum = c.prev
    BY <2>1, ModIs
  <2> QED BY <2>1, <2>2 DEF Matches
<1>5. r[e.skipped].ctx = c
  BY <1>1, <1>2
<1> HIDE DEF r, a
<1> QED BY <1>3, <1>4, <1>5 DEF Sim, Matches

\* The encoder sends a picture predicted as p and marked as m; the manager keeps up with it so far.
Sent(map, e, c, pic, p, m) ==
  /\ MaxRefs >= 1 /\ map \in [Nat -> Pics] /\ e \in Encoder /\ Orderly(e) /\ CanGoOn(e)
  /\ Sim(map, e, c) /\ pic \in Pics
  /\ p \in Predictions(e.short, e.long, NextNum(e)) /\ m \in LegalMarkings(e, pic)

\* The picture is decoded from the references it was predicted from, under an id of its own.
Decodes(map, c, h, d, refs, pre, post, ins) ==
  /\ ins = DropAll(h, pre) \o (<<Decode(h, d.nextId, refs)>> \o DropAll(h, post))
  /\ pre \in Seq(Nat) /\ post \in Seq(Nat) /\ Balanced(c, d, pre) /\ refs \in RefLists(Headers)
  /\ RightReferences(map, d, refs, h.wanted)
  /\ Len(d.short) + Len(d.long) <= MaxRefs

LEMMA LegalPrev ==
  ASSUME NEW e, ~e.uses.resets, NEW pic, NEW m \in LegalMarkings(e, pic)
  PROVE  m.prev = IF m.marking = "none" THEN e.prev ELSE NextNum(e)
<1> DEFINE short == e.short
           long == e.long
           num == NextNum(e)
           uses == e.uses
<1>1. \/ m = Marking("none", <<>>, short, long, e.prev)
      \/ m \in Markings(short, long, num, pic, uses) /\ ~uses.resets
  BY DEF LegalMarkings
<1> HIDE DEF short, long, num, uses
<1>2. CASE m = Marking("none", <<>>, short, long, e.prev)
  BY <1>2 DEF Marking
<1>3. CASE m \in Markings(short, long, num, pic, uses) /\ ~uses.resets
  <2>1. \/ Slides(m, short, long, num, pic) \/ Unmarks(m, short, long, num, pic)
        \/ Converts(m, short, long, num, pic) \/ Promotes(m, short, long, num, pic)
        \/ Frees(m, short, long, num, pic)
    BY <1>3, MarkingForms
  <2>2. m.prev = num /\ m.marking # "none"
    BY <2>1 DEF Slides, Unmarks, Converts, Promotes, Frees, Marking
  <2> QED BY <2>2 DEF num
<1> QED BY <1>1, <1>2, <1>3

Gapped(map, e, c, pic, p, m, h) ==
  LET g == FillGap(c, h)
  IN  /\ h \in Headers /\ IsHeader(h) /\ ~h.idr /\ h.num = NextNum(e) /\ h.wanted = p.wanted
      /\ h.pic = pic /\ h.whole = e.whole
      /\ MarksAs(h, m) /\ PredictedAs(h, NextNum(e), p)
      /\ ~Refused(c, h) /\ g.ok = TRUE
      /\ Matches(map, e, g.ctx) /\ Sound(g.ctx) /\ Sound(c) /\ Balanced(c, g.ctx, g.drops)

LEMMA SentGap ==
  ASSUME NEW map, NEW e, NEW c, NEW pic, NEW p, NEW m, NEW h, Sent(map, e, c, pic, p, m),
         h = HeaderOf(e, pic, p, m)
  PROVE  Gapped(map, e, c, pic, p, m, h)
<1> USE DEF Sent
<1>1. h.idr = FALSE /\ h.num = NextNum(e) /\ h.gaps = e.uses.gaps /\ MarksAs(h, m)
      /\ PredictedAs(h, NextNum(e), p) /\ h.wanted = p.wanted /\ h.pic = pic /\ h.whole = e.whole
  BY DEF HeaderOf, MarksAs, PredictedAs
<1>2. h \in Headers
  <2>1. e.short \in Seq(EncRef) /\ e.long \in Seq(EncRef) /\ NextNum(e) \in Nums
    BY EncoderFields, NextNumType
  <2>2. p \in PredictionType
    <3> DEFINE short == e.short
               long == e.long
               num == NextNum(e)
    <3>1. p \in Predictions(short, long, num) /\ short \in Seq(EncRef) /\ long \in Seq(EncRef) /\ num \in Nums
      BY <2>1
    <3> HIDE DEF short, long, num
    <3> QED BY <3>1, PredictionsType
  <2>3. m \in MarkingType
    BY LegalMarkingsType
  <2> QED BY <2>2, <2>3, HeaderType
<1>3. IsHeader(h)
  BY <1>2, HeadersAreParsed
<1>4. /\ ~Refused(c, h) /\ FillGap(c, h).ok = TRUE
      /\ Matches(map, e, FillGap(c, h).ctx) /\ Sound(FillGap(c, h).ctx)
  BY <1>1, GapFilled
<1>5. Sound(c)
  BY DEF Sim
<1>6. Balanced(c, FillGap(c, h).ctx, FillGap(c, h).drops)
  <2>1. h.num \in Nat
    BY <1>3 DEF IsHeader
  <2> QED BY <1>5, <2>1, FillGapBalanced
<1> QED BY <1>1, <1>2, <1>3, <1>4, <1>5, <1>6 DEF Gapped

\* What the manager makes of the picture, from the context after the gap.
Filling(map, e, c, pic, p, m, h, d) ==
  /\ Sent(map, e, c, pic, p, m) /\ h = HeaderOf(e, pic, p, m) /\ d = FillGap(c, h).ctx

LEMMA SentReferences ==
  ASSUME NEW map, NEW e, NEW c, NEW pic, NEW p, NEW m, NEW h, NEW d, Filling(map, e, c, pic, p, m, h, d)
  PROVE  /\ References(d, h).ok = TRUE /\ RightReferences(map, d, References(d, h).ids, h.wanted)
         /\ Len(d.short) + Len(d.long) <= MaxRefs
<1> DEFINE short == e.short
           long == e.long
           num == NextNum(e)
<1>1. Sent(map, e, c, pic, p, m) /\ h = HeaderOf(e, pic, p, m) /\ d = FillGap(c, h).ctx
  BY DEF Filling
<1>2. /\ Matches(map, e, d) /\ Sound(d) /\ PredictedAs(h, num, p)
  <2>1. Gapped(map, e, c, pic, p, m, h)
    BY <1>1, SentGap
  <2> QED BY <1>1, <2>1 DEF Gapped
<1>3. /\ short \in Seq(EncRef) /\ long \in Seq(EncRef) /\ num \in Nums
      /\ p \in Predictions(short, long, num)
  BY <1>1, EncoderFields, NextNumType DEF Sent
<1>4. InOrder(short, long, num) /\ Len(short) + Len(long) <= MaxRefs
  <2>1. e \in Encoder /\ Orderly(e) /\ CanGoOn(e)
    BY <1>1 DEF Sent
  <2>2. Rising(short, num)
    BY <2>1, RisesOn DEF Orderly
  <2> QED BY <2>1, <2>2 DEF Orderly, InOrder
<1>5. Agree(map, short, long, d)
  BY <1>2 DEF Matches
<1>6. Len(d.short) = Len(short) /\ Len(d.long) = Len(long)
  BY <1>5 DEF Agree, SameShort, SameLong
<1>7. Len(d.short) + Len(d.long) <= MaxRefs
  BY <1>4, <1>6
<1> HIDE DEF short, long, num
<1> QED BY <1>2, <1>3, <1>4, <1>5, <1>7, ReferencesRight

LEMMA SentMarking ==
  ASSUME NEW map, NEW e, NEW c, NEW pic, NEW p, NEW m, NEW h, NEW d, Filling(map, e, c, pic, p, m, h, d),
         NEW refs
  PROVE  /\ MarkedRight([map EXCEPT ![d.nextId] = pic], d, h, refs, m.short, m.long, Mark(d, h, refs))
         /\ [map EXCEPT ![d.nextId] = pic] \in [Nat -> Pics]
<1> DEFINE short == e.short
           long == e.long
           num == NextNum(e)
           map2 == [map EXCEPT ![d.nextId] = pic]
<1>1. Sent(map, e, c, pic, p, m) /\ h = HeaderOf(e, pic, p, m) /\ d = FillGap(c, h).ctx
  BY DEF Filling
<1>2. Matches(map, e, d) /\ Sound(d) /\ MarksAs(h, m) /\ h.num = num /\ h.idr = FALSE
  <2>0. h.idr = FALSE
    BY <1>1 DEF HeaderOf
  <2>1. Gapped(map, e, c, pic, p, m, h)
    BY <1>1, SentGap
  <2> QED BY <1>1, <2>0, <2>1 DEF Gapped
<1>3. /\ e \in Encoder /\ Orderly(e) /\ CanGoOn(e) /\ pic \in Pics /\ map \in [Nat -> Pics]
      /\ MaxRefs >= 1 /\ m \in LegalMarkings(e, pic) /\ ~e.uses.resets
  BY <1>1 DEF Sent, Orderly
<1>4. short \in Seq(EncRef) /\ long \in Seq(EncRef) /\ num \in Nums
  BY <1>3, EncoderFields, NextNumType
<1>5. Rising(short, num) /\ Behind(short, num)
  BY <1>3, RisesOn DEF Orderly
<1>6. Len(long) <= 1 /\ Len(short) + Len(long) <= MaxRefs
  BY <1>3 DEF Orderly
<1>7. Agree(map2, short, long, d) /\ map2[d.nextId] = pic /\ map2 \in [Nat -> Pics]
  <2>1. Agree(map, short, long, d) /\ Sound(d)
    BY <1>2 DEF Matches
  <2>2. map \in [Nat -> Pics] /\ pic \in Pics
    BY <1>3
  <2> HIDE DEF short, long
  <2>3. NewName(map, short, long, d, pic)
    BY <2>1, <2>2 DEF NewName
  <2>4. Renamed(map, short, long, d, pic)
    BY <2>3, AgreeStill
  <2> QED BY <2>4 DEF Renamed
<1> HIDE DEF map2
<1>8. Meets(map2, e.short, e.long, NextNum(e), pic, d, h)
  BY <1>2, <1>3, <1>4, <1>5, <1>6, <1>7 DEF Meets
<1>9. MarkedRight(map2, d, h, refs, m.short, m.long, Mark(d, h, refs))
  BY <1>2, <1>3, <1>8, MarkRight
<1> QED BY <1>7, <1>9 DEF map2

LEMMA PutPictureIs ==
  ASSUME NEW c, NEW h, ~Refused(c, h), NEW d, d = FillGap(c, h).ctx,
         FillGap(c, h).ok = TRUE, References(d, h).ok = TRUE
  PROVE  PutPicture(c, h) = AfterGap(h, FillGap(c, h).drops, Mark(d, h, References(d, h).ids))
<1> DEFINE g == FillGap(c, h)
           refs == References(g.ctx, h)
<1>1. PutPicture(c, h) = IF g.ok /\ refs.ok THEN AfterGap(h, g.drops, Mark(g.ctx, h, refs.ids))
                         ELSE Failed(g.ctx)
  <2> HIDE DEF g
  <2>1. PutPicture(c, h) =
          LET Listed(gap, rs) == IF gap.ok /\ rs.ok
                                 THEN AfterGap(h, gap.drops, Mark(gap.ctx, h, rs.ids))
                                 ELSE Failed(gap.ctx)
              Filled(gap)     == Listed(gap, References(gap.ctx, h))
          IN  Filled(g)
    BY DEF PutPicture, g
  <2> QED BY <2>1
<1>2. g.ok = TRUE /\ refs.ok = TRUE
  OBVIOUS
<1> HIDE DEF refs
<1>3. PutPicture(c, h) = AfterGap(h, g.drops, Mark(g.ctx, h, refs.ids))
  BY <1>1, <1>2
<1> QED BY <1>3 DEF refs

\* a is r, but after a gap.
IsAfter(h, drops, r, a) ==
  /\ a.ok = TRUE /\ a.instructions = DropAll(h, drops) \o r.instructions
  /\ a.ctx.short = r.ctx.short /\ a.ctx.long = r.ctx.long /\ a.ctx.maxIdx = r.ctx.maxIdx
  /\ a.ctx.corrupted = r.ctx.corrupted
  /\ a.ctx.prev = IF h.marking = "none" THEN r.ctx.prev ELSE h.num

LEMMA AfterGapFields ==
  ASSUME NEW c, NEW H, NEW r \in CompiledFrom(c, H), r.ok, NEW h, NEW drops
  PROVE  IsAfter(h, drops, r, AfterGap(h, drops, r))
<1> DEFINE ins == DropAll(h, drops) \o r.instructions
           prev == IF h.marking = "none" THEN r.ctx.prev ELSE h.num
           a == AfterGap(h, drops, r)
<1>1. r \in Outcomes(H) /\ r.ctx \in Context /\ r.ok = TRUE
  BY CompiledFields
<1>2. a = [r EXCEPT !.instructions = ins, !.ctx.prev = prev]
  BY <1>1 DEF AfterGap, Outcomes
<1> HIDE DEF ins, prev, a
<1>3. /\ a.ok = TRUE /\ a.instructions = ins
      /\ a.ctx = [r.ctx EXCEPT !.prev = prev]
  BY <1>1, <1>2 DEF Outcomes
<1> DEFINE x == a.ctx
<1>4. /\ x.short = r.ctx.short /\ x.long = r.ctx.long /\ x.maxIdx = r.ctx.maxIdx
      /\ x.corrupted = r.ctx.corrupted /\ x.prev = prev
  <2> HIDE DEF x
  <2>1. x = [r.ctx EXCEPT !.prev = prev]
    BY <1>3 DEF x
  <2> QED BY <1>1, <2>1 DEF Context
<1> QED BY <1>3, <1>4 DEF ins, prev, a, IsAfter

LEMMA NoneKeepsPrev ==
  ASSUME NEW d \in Context, NEW h, ~h.idr, h.marking = "none", NEW refs
  PROVE  Mark(d, h, refs).ctx.prev = d.prev
  BY DEF Mark, MarkNonReference, Accepted, Context

\* The manager after the picture, and its instructions.
Delivered(map, e, c, m, h) ==
  LET d   == FillGap(c, h).ctx
      r   == PutPicture(c, h)
      map2 == [map EXCEPT ![d.nextId] = h.pic]
  IN  /\ r.ok = TRUE /\ map2 \in [Nat -> Pics]
      /\ Sim(map2, Marked(e, m), r.ctx)
      /\ \E refs, pre, post : Decodes(map, c, h, d, refs, pre, post, r.instructions)

LEMMA PictureRight ==
  ASSUME NEW map, NEW e, NEW c, NEW pic, NEW p, NEW m, Sent(map, e, c, pic, p, m), NEW h,
         h = HeaderOf(e, pic, p, m)
  PROVE  Delivered(map, e, c, m, h)
<1> DEFINE d == FillGap(c, h).ctx
           pre == FillGap(c, h).drops
           refs == References(d, h).ids
           k == Mark(d, h, refs)
           r == PutPicture(c, h)
           map2 == [map EXCEPT ![d.nextId] = pic]
           x == Marked(e, m)
<1>1. Filling(map, e, c, pic, p, m, h, d)
  BY DEF Filling
<1>2. /\ h \in Headers /\ IsHeader(h) /\ ~h.idr /\ h.num = NextNum(e) /\ h.pic = pic
      /\ MarksAs(h, m) /\ ~Refused(c, h) /\ FillGap(c, h).ok = TRUE
      /\ Matches(map, e, d) /\ Sound(d) /\ Sound(c) /\ Balanced(c, d, pre)
  <2>1. Gapped(map, e, c, pic, p, m, h)
    BY SentGap
  <2> QED BY <2>1 DEF Gapped
<1>3. /\ e \in Encoder /\ Orderly(e) /\ m \in LegalMarkings(e, pic) /\ ~e.uses.resets
  BY DEF Sent, Orderly
<1> HIDE DEF d
<1>4. /\ References(d, h).ok = TRUE /\ RightReferences(map, d, refs, h.wanted)
      /\ Len(d.short) + Len(d.long) <= MaxRefs
  BY <1>1, SentReferences
<1> HIDE DEF refs
<1>5. MarkedRight(map2, d, h, refs, m.short, m.long, k) /\ map2 \in [Nat -> Pics]
  BY <1>1, SentMarking
<1>6. r = AfterGap(h, pre, k)
  BY <1>2, <1>4, PutPictureIs DEF d, refs
<1>7. k \in CompiledFrom(d, Headers) /\ refs \in RefLists(Headers)
  <2>1. refs \in RefLists(Headers)
    BY <1>2 DEF RefLists, refs, Sound
  <2> QED BY <1>2, <2>1, MarkCompiles
<1>8. r \in CompiledFrom(c, Headers)
  BY <1>2, PutPictureCompiles
<1> HIDE DEF k, pre, map2, x
<1>9. k.ok = TRUE /\ k.ctx.corrupted = d.corrupted /\ Agree(map2, m.short, m.long, k.ctx)
  BY <1>5 DEF MarkedRight
<1>10. PICK post \in Seq(Nat) : k.instructions = <<Decode(h, d.nextId, refs)>> \o DropAll(h, post)
  BY <1>5 DEF MarkedRight
<1>11. /\ r.ok = TRUE /\ r.instructions = DropAll(h, pre) \o k.instructions
       /\ r.ctx.short = k.ctx.short /\ r.ctx.long = k.ctx.long /\ r.ctx.maxIdx = k.ctx.maxIdx
       /\ r.ctx.corrupted = k.ctx.corrupted
       /\ r.ctx.prev = IF h.marking = "none" THEN k.ctx.prev ELSE h.num
  <2>1. IsAfter(h, pre, k, AfterGap(h, pre, k))
    BY <1>7, <1>9, AfterGapFields
  <2> QED BY <1>6, <2>1 DEF IsAfter
<1>12. Decodes(map, c, h, d, refs, pre, post, r.instructions)
  BY <1>2, <1>4, <1>7, <1>10, <1>11 DEF Decodes, Balanced
<1>13. x.short = m.short /\ x.long = m.long /\ x.prev = m.prev /\ x.skipped = 0 /\ x \in Encoder
  <2>1. m \in MarkingType
    <3>1. pic \in Pics
      BY DEF Sent
    <3> QED BY <1>3, <3>1, LegalMarkingsType
  <2> QED BY <1>3, <2>1, MarkedType DEF x
<1>14. r.ctx.prev = m.prev /\ m.prev \in Nums
  <2>1. m.prev = IF m.marking = "none" THEN e.prev ELSE NextNum(e)
    BY <1>3, LegalPrev
  <2>2. h.marking = m.marking
    BY <1>2 DEF MarksAs
  <2>3. h.marking = "none" => k.ctx.prev = d.prev
    BY <1>2, NoneKeepsPrev DEF k, Sound
  <2>4. d.prev = e.prev
    BY <1>2 DEF Matches
  <2>5. x.prev \in Nums
    BY <1>13, EncoderFields
  <2> QED BY <1>2, <1>11, <1>13, <2>1, <2>2, <2>3, <2>4, <2>5
<1>15. Matches(map2, x, r.ctx)
  <2>1. Agree(map2, m.short, m.long, r.ctx)
    BY <1>9, <1>11 DEF Agree
  <2>2. d.corrupted = FALSE
    BY <1>2 DEF Matches
  <2> QED BY <1>9, <1>11, <1>13, <1>14, <2>1, <2>2 DEF Matches
<1>16. Sound(r.ctx)
  BY <1>8, CompiledFields
<1>17. Sim(map2, x, r.ctx)
  <2> HIDE DEF r
  <2> QED BY <1>13, <1>14, <1>15, <1>16, SimStart
<1>18. [map EXCEPT ![FillGap(c, h).ctx.nextId] = h.pic] = map2
  BY <1>2 DEF map2, d
<1> QED BY <1>5, <1>11, <1>12, <1>17, <1>18 DEF Delivered, d, x

-----------------------------------------------------------------------------
(* How many references there are *)

LEMMA ImageIsSmall ==
  ASSUME NEW n \in Nat, NEW f, f \in [1 .. n -> Nat]
  PROVE  /\ IsFiniteSet({f[i] : i \in 1 .. n}) /\ Cardinality({f[i] : i \in 1 .. n}) <= n
         /\ Cardinality({f[i] : i \in 1 .. n}) \in Nat
<1> DEFINE S == 1 .. n
           T == {f[i] : i \in 1 .. n}
<1>1. IsFiniteSet(S) /\ Cardinality(S) = n
  <2>1. 1 \in Int /\ n \in Int
    OBVIOUS
  <2>2. IsFiniteSet(1 .. n) /\ Cardinality(1 .. n) = IF 1 > n THEN 0 ELSE n - 1 + 1
    BY <2>1, FS_Interval
  <2> QED BY <2>2
<1>2. f \in Surjection(S, T)
  BY DEF Surjection
<1>3. IsFiniteSet(T) /\ Cardinality(T) <= Cardinality(S)
  <2> HIDE DEF S, T
  <2> QED BY <1>1, <1>2, FS_Surjection
<1>4. Cardinality(T) \in Nat
  <2> HIDE DEF T
  <2> QED BY <1>3, FS_CardinalityType
<1> QED BY <1>1, <1>3, <1>4

Few(ids) == IsFiniteSet(ids) /\ Cardinality(ids) <= MaxRefs

LEMMA RefsAreFew ==
  ASSUME NEW d \in Context, Len(d.short) + Len(d.long) <= MaxRefs
  PROVE  Few(Refs(d))
<1> DEFINE n == Len(d.short)
           m == Len(d.long)
           f == [i \in 1 .. n |-> d.short[i].id]
           g == [i \in 1 .. m |-> d.long[i].id]
           F == {f[i] : i \in 1 .. n}
           G == {g[i] : i \in 1 .. m}
<1>1. /\ n \in Nat /\ m \in Nat /\ DOMAIN d.short = 1 .. n /\ DOMAIN d.long = 1 .. m
      /\ f \in [1 .. n -> Nat] /\ g \in [1 .. m -> Nat]
  <2>1. d.short \in Seq(ShortRef) /\ d.long \in Seq(LongRef)
    BY ContextFields
  <2>2. n \in Nat /\ m \in Nat /\ DOMAIN d.short = 1 .. n /\ DOMAIN d.long = 1 .. m
    BY <2>1
  <2>3. (\A i \in 1 .. n : d.short[i].id \in Nat) /\ (\A i \in 1 .. m : d.long[i].id \in Nat)
    BY <2>2, ContextFields
  <2> QED BY <2>2, <2>3
<1>2. Refs(d) \subseteq F \cup G
  BY <1>1 DEF Refs
<1>3. /\ IsFiniteSet(F) /\ Cardinality(F) <= n /\ Cardinality(F) \in Nat
      /\ IsFiniteSet(G) /\ Cardinality(G) <= m /\ Cardinality(G) \in Nat
  <2> HIDE DEF f, g, n, m
  <2> QED BY <1>1, ImageIsSmall
<1> HIDE DEF F, G
<1>4. IsFiniteSet(F \cup G) /\ Cardinality(F \cup G) <= n + m
  <2>1. /\ IsFiniteSet(F \cup G)
        /\ Cardinality(F \cup G) = Cardinality(F) + Cardinality(G) - Cardinality(F \cap G)
    BY <1>3, FS_Union
  <2>2. Cardinality(F \cap G) \in Nat
    <3>1. F \cap G \in SUBSET F
      OBVIOUS
    <3>2. IsFiniteSet(F \cap G)
      BY <1>3, <3>1, FS_Subset
    <3> QED BY <3>2, FS_CardinalityType
  <2> HIDE DEF n, m
  <2> QED BY <1>1, <1>3, <2>1, <2>2
<1>5. IsFiniteSet(Refs(d)) /\ Cardinality(Refs(d)) <= Cardinality(F \cup G)
  BY <1>2, <1>4, FS_Subset
<1>6. Cardinality(Refs(d)) \in Nat /\ Cardinality(F \cup G) \in Nat
  BY <1>4, <1>5, FS_CardinalityType
<1> HIDE DEF n, m
<1>7. n + m <= MaxRefs /\ MaxRefs \in Nat
  BY StreamAssumption DEF n, m
<1> QED BY <1>1, <1>4, <1>5, <1>6, <1>7 DEF Few

-----------------------------------------------------------------------------
(* The instructions of a picture *)

\* All of a picture that is no IDR picture.
AllOf(ins, h) == \A k \in DOMAIN ins : ins[k].op # "Idr" /\ ins[k].of = h

LEMMA BothOf ==
  ASSUME NEW T, NEW a \in Seq(T), NEW b \in Seq(T), NEW h, AllOf(a, h), AllOf(b, h)
  PROVE  AllOf(a \o b, h)
<1> DEFINE m == Len(a)
           n == Len(b)
           ab == a \o b
<1>1. /\ m \in Nat /\ n \in Nat /\ DOMAIN ab = 1 .. m + n
      /\ \A k \in 1 .. m : k \in DOMAIN a /\ ab[k] = a[k]
      /\ \A k \in 1 .. n : k \in DOMAIN b /\ ab[m + k] = b[k]
  BY ConcatIs
<1> HIDE DEF m, n, ab
<1>2. ASSUME NEW k \in DOMAIN ab PROVE ab[k].op # "Idr" /\ ab[k].of = h
  <2>1. CASE k <= m
    <3>1. k \in 1 .. m
      BY <1>1, <2>1
    <3> QED BY <1>1, <3>1 DEF AllOf
  <2>2. CASE ~(k <= m)
    <3> DEFINE j == k - m
    <3>1. j \in 1 .. n /\ m + j = k
      BY <1>1, <2>2
    <3> HIDE DEF j
    <3>2. ab[k] = b[j] /\ j \in DOMAIN b
      BY <1>1, <3>1
    <3> QED BY <3>2 DEF AllOf
  <2> QED BY <2>1, <2>2
<1> QED BY <1>2 DEF AllOf, ab

LEMMA DropsOf ==
  ASSUME NEW H, NEW h \in H, NEW drops \in Seq(Nat)
  PROVE  AllOf(DropAll(h, drops), h)
<1>1. CASE drops = <<>>
  BY <1>1 DEF DropAll, AllOf
<1>2. CASE drops # <<>>
  <2>1. DropAll(h, drops) = <<Drop(h, drops)>>
    BY <1>2 DEF DropAll
  <2>2. Drop(h, drops).op # "Idr" /\ Drop(h, drops).of = h
    BY DEF Drop
  <2> DEFINE i == Drop(h, drops)
  <2> HIDE DEF i
  <2>3. AllOf(<<i>>, h)
    BY <2>2 DEF AllOf, i
  <2> QED BY <2>1, <2>3 DEF i
<1> QED BY <1>1, <1>2

LEMMA DecodeOf ==
  ASSUME NEW H, NEW h \in H, NEW id, NEW refs, NEW post \in Seq(Nat), NEW T,
         Decode(h, id, refs) \in T, DropAll(h, post) \in Seq(T)
  PROVE  LET ins == <<Decode(h, id, refs)>> \o DropAll(h, post)
         IN  AllOf(ins, h) /\ Len(ins) >= 1 /\ ins \in Seq(T)
<1> DEFINE i == Decode(h, id, refs)
           b == DropAll(h, post)
<1>1. i.op # "Idr" /\ i.of = h
  BY DEF Decode
<1>2. AllOf(b, h)
  BY DropsOf
<1> HIDE DEF i, b
<1>3. AllOf(<<i>>, h) /\ <<i>> \in Seq(T) /\ Len(<<i>>) = 1 /\ b \in Seq(T)
  BY <1>1 DEF AllOf, i, b
<1> DEFINE a == <<i>>
<1> HIDE DEF a
<1>4. AllOf(a, h) /\ a \in Seq(T) /\ Len(a) = 1 /\ b \in Seq(T)
  BY <1>3 DEF a
<1>5. AllOf(a \o b, h)
  BY <1>2, <1>4, BothOf
<1>6. Len(a \o b) >= 1 /\ a \o b \in Seq(T)
  <2>1. a \o b \in Seq(T) /\ Len(a \o b) = Len(a) + Len(b) /\ Len(b) \in Nat
    BY <1>4, ConcatIs
  <2> QED BY <1>4, <2>1
<1> QED BY <1>5, <1>6 DEF a, i, b

LEMMA MarkForm ==
  ASSUME NEW h, IsHeader(h), ~h.idr, NEW d, Sound(d), NEW refs, Mark(d, h, refs).ok
  PROVE  \E post \in Seq(Nat) :
           Mark(d, h, refs).instructions = <<Decode(h, d.nextId, refs)>> \o DropAll(h, post)
<1> DEFINE k == Mark(d, h, refs)
<1>1. h.num \in Nat /\ h.marking \in {"sliding", "adaptive", "none"} /\ d.nextId \in Nat
  BY ContextFields DEF IsHeader, Sound
<1>2. CASE h.marking = "sliding"
  <2> DEFINE a == AddShort(d, h.num, FALSE)
             drops == Evict(a, h.num).drops
             c == Evict(a, h.num).ctx
  <2>1. k = DecodedAs(d.nextId, h, refs, c, drops)
    BY <1>2 DEF Mark, MarkSlidingWindow
  <2>2. drops \in Seq(Nat)
    <3>1. Sound(a)
      BY <1>1, PictureAddedShort
    <3> HIDE DEF a
    <3> QED BY <1>1, <3>1, EvictBalanced DEF Balanced
  <2> HIDE DEF c, drops, k
  <2>3. k.instructions = <<Decode(h, d.nextId, refs)>> \o DropAll(h, drops)
    BY <2>1 DEF DecodedAs, Accepted
  <2> QED BY <2>2, <2>3 DEF k
<1>3. CASE h.marking = "adaptive"
  <2> DEFINE done == Operations(d, h)
             next == Add(done, h)
             drops == done.drops
  <2>1. done \in MarkedFrom(d)
    <3> DEFINE T == ToSet(h.ops)
    <3>1. h.ops \in Seq(T) /\ \A op \in T : IsOperation(op)
      BY DEF IsHeader
    <3> HIDE DEF T
    <3> QED BY <3>1, OperationsBalanced
  <2>2. drops \in Seq(Nat)
    BY <2>1, MarksFields
  <2>3. k = IF ~done.ok THEN Failed(done.ctx)
            ELSE IF next.maxIdx # NoIdx /\ Len(next.long) > next.maxIdx + 1 THEN Failed(next)
            ELSE DecodedAs(d.nextId, h, refs, next, drops)
    <3> HIDE DEF done
    <3>1. MarkAdaptive(d, h, refs) =
            IF ~done.ok THEN Failed(done.ctx)
            ELSE IF next.maxIdx # NoIdx /\ Len(next.long) > next.maxIdx + 1 THEN Failed(next)
            ELSE DecodedAs(d.nextId, h, refs, next, drops)
      BY DEF MarkAdaptive, Add, done
    <3>2. k = MarkAdaptive(d, h, refs)
      BY <1>3 DEF Mark
    <3> QED BY <3>1, <3>2
  <2> HIDE DEF drops, next, k
  <2>4. k.ok
    BY DEF k
  <2>5. k = DecodedAs(d.nextId, h, refs, next, drops)
    <3> HIDE DEF done
    <3>1. ~Failed(done.ctx).ok /\ ~Failed(next).ok
      BY DEF Failed
    <3> QED BY <2>3, <2>4, <3>1
  <2>6. k.instructions = <<Decode(h, d.nextId, refs)>> \o DropAll(h, drops)
    BY <2>5 DEF DecodedAs, Accepted
  <2> QED BY <2>2, <2>6 DEF k
<1>4. CASE h.marking = "none"
  <2> DEFINE drops == <<d.nextId>>
             i == Decode(h, d.nextId, refs)
             j == Drop(h, drops)
  <2>1. k.instructions = <<i, j>>
    BY <1>4 DEF Mark, MarkNonReference, Accepted
  <2>2. drops \in Seq(Nat) /\ drops # <<>>
    BY <1>1
  <2>3. DropAll(h, drops) = <<j>>
    BY <2>2 DEF DropAll
  <2> HIDE DEF i, j, drops, k
  <2>4. <<i, j>> = <<i>> \o <<j>>
    BY TwoInstructions
  <2>5. k.instructions = <<i>> \o DropAll(h, drops)
    BY <2>1, <2>3, <2>4
  <2> QED BY <2>2, <2>5 DEF i, k
<1> QED BY <1>1, <1>2, <1>3, <1>4

LEMMA OthersForm ==
  ASSUME NEW c, Sound(c), NEW h \in Headers, ~h.idr, PutPicture(c, h).ok
  PROVE  LET ins == PutPicture(c, h).instructions
         IN  AllOf(ins, h) /\ Len(ins) >= 1 /\ ins \in Seq(Instructions(Headers))
<1> DEFINE g == FillGap(c, h)
           d == g.ctx
           refs == References(d, h)
           k == Mark(d, h, refs.ids)
           r == PutPicture(c, h)
           T == Instructions(Headers)
<1>1. IsHeader(h) /\ h.num \in Nat
  BY HeadersAreParsed DEF IsHeader
<1>2. Balanced(c, d, g.drops) /\ Sound(d)
  <2> HIDE DEF d
  <2>1. Balanced(c, d, g.drops)
    BY <1>1, FillGapBalanced DEF d
  <2> QED BY <2>1 DEF Balanced
<1>3. r = IF Refused(c, h) THEN Failed([c EXCEPT !.corrupted = TRUE])
          ELSE IF g.ok /\ refs.ok THEN AfterGap(h, g.drops, k) ELSE Failed(d)
  <2> HIDE DEF g
  <2>1. PutPicture(c, h) =
          LET Listed(gap, rs) == IF gap.ok /\ rs.ok
                                 THEN AfterGap(h, gap.drops, Mark(gap.ctx, h, rs.ids))
                                 ELSE Failed(gap.ctx)
              Filled(gap)     == Listed(gap, References(gap.ctx, h))
          IN  IF Refused(c, h) THEN Failed([c EXCEPT !.corrupted = TRUE]) ELSE Filled(g)
    BY DEF PutPicture, g
  <2> QED BY <2>1
<1>4. refs.ids \in RefLists(Headers)
  BY <1>2 DEF RefLists, Sound
<1> HIDE DEF refs, g
<1>5. k \in CompiledFrom(d, Headers)
  <2> HIDE DEF d
  <2> QED BY <1>1, <1>2, <1>4, MarkCompiles
<1> HIDE DEF d, k
<1>6. r = AfterGap(h, g.drops, k) /\ r.ok
  <2> HIDE DEF r
  <2>1. r.ok
    BY DEF r
  <2>2. ~Failed(d).ok /\ ~Failed([c EXCEPT !.corrupted = TRUE]).ok
    BY DEF Failed
  <2> QED BY <1>3, <2>1, <2>2
<1>7. r \in CompiledFrom(c, Headers)
  BY <1>1, PutPictureCompiles
<1>8. r.instructions \in Seq(T)
  <2> HIDE DEF T, r
  <2> QED BY <1>7, CompiledFields DEF T
<1> HIDE DEF r
<1>9. k.ok
  BY <1>6 DEF AfterGap
<1>10. r.instructions = DropAll(h, g.drops) \o k.instructions
  <2>1. IsAfter(h, g.drops, k, AfterGap(h, g.drops, k))
    BY <1>5, <1>9, AfterGapFields
  <2> QED BY <1>6, <2>1 DEF IsAfter
<1>11. PICK post \in Seq(Nat) : k.instructions = <<Decode(h, d.nextId, refs.ids)>> \o DropAll(h, post)
  <2> DEFINE ids == refs.ids
  <2> HIDE DEF ids
  <2>1. k = Mark(d, h, ids)
    BY DEF k, ids
  <2>2. Mark(d, h, ids).ok
    BY <1>9, <2>1
  <2>3. \E post \in Seq(Nat) : Mark(d, h, ids).instructions = <<Decode(h, d.nextId, ids)>> \o DropAll(h, post)
    BY <1>1, <1>2, <2>2, MarkForm
  <2> QED BY <2>1, <2>3 DEF ids
<1>12. DropAll(h, g.drops) \in Seq(T) /\ DropAll(h, post) \in Seq(T) /\ AllOf(DropAll(h, g.drops), h)
       /\ g.drops \in Seq(Nat)
  <2>1. g.drops \in Seq(Nat) /\ ToSet(g.drops) \subseteq Refs(c) /\ Refs(c) \in RefSets
    BY <1>2, RefsAreNumbers DEF Balanced
  <2>2. ToSet(post) \subseteq Nat /\ Nat \in RefSets
    BY DEF RefSets, ToSet
  <2> QED BY <2>1, <2>2, DropLeads, DropsOf
<1>13. Decode(h, d.nextId, refs.ids) \in T
  BY <1>2, <1>4, ContextFields DEF Decode, Instructions, Sound
<1>14. AllOf(k.instructions, h) /\ Len(k.instructions) >= 1 /\ k.instructions \in Seq(T)
  <2> DEFINE id == d.nextId
             ids == refs.ids
  <2>1. Decode(h, id, ids) \in T /\ DropAll(h, post) \in Seq(T)
        /\ k.instructions = <<Decode(h, id, ids)>> \o DropAll(h, post)
    BY <1>11, <1>12, <1>13
  <2> HIDE DEF T, id, ids
  <2> QED BY <2>1, DecodeOf
<1> DEFINE a == DropAll(h, g.drops)
           b == k.instructions
<1>15. AllOf(a \o b, h)
  <2> HIDE DEF T, a, b
  <2>1. AllOf(a, h) /\ AllOf(b, h) /\ a \in Seq(T) /\ b \in Seq(T)
    BY <1>12, <1>14 DEF a, b
  <2> QED BY <2>1, BothOf
<1>16. Len(a \o b) >= 1
  <2> HIDE DEF T, a, b
  <2>1. Len(b) >= 1 /\ a \in Seq(T) /\ b \in Seq(T)
    BY <1>12, <1>14 DEF a, b
  <2>2. Len(a \o b) = Len(a) + Len(b) /\ Len(a) \in Nat /\ Len(b) \in Nat
    BY <2>1, ConcatIs
  <2> QED BY <2>1, <2>2
<1> QED BY <1>8, <1>10, <1>15, <1>16 DEF r

\* An IDR picture is always accepted, and starts from nothing.
IdrResult(c, h, r) ==
  /\ r.ok = TRUE /\ r.instructions = <<Idr(h, 0)>>
  /\ r.ctx = PutPicture(FreshContext(c.strict), h).ctx

\* Without a gap nothing is inferred.
LEMMA NothingMissing ==
  ASSUME NEW c, Sound(c), NEW h, MissingNums(c, h) = <<>>
  PROVE  FillGap(c, h).ctx = c /\ FillGap(c, h).drops = <<>> /\ FillGap(c, h).ok = TRUE
<1> DEFINE g == FillGap(c, h)
           a == [ctx |-> c, drops |-> <<>>, ok |-> TRUE]
<1>1. g = a
  <2> DEFINE s == <<>>
  <2>1. s \in Seq(Nat) /\ Len(s) = 0
    OBVIOUS
  <2>2. 0 <= MaxGapSize
    BY StreamAssumption
  <2>3. FillGap(c, h) = FoldLeft(WithGhost, a, s)
    <3>1. Len(<<>>) <= MaxGapSize
      BY <2>2
    <3> HIDE DEF a
    <3>2. FillGap(c, h) =
            LET Filled(nums) == FoldLeft(WithGhost, a, nums)
                Upto(nums)   == IF Len(nums) <= MaxGapSize THEN Filled(nums)
                                ELSE [Filled(SubSeq(nums, 1, MaxGapSize)) EXCEPT !.ok = FALSE]
            IN  Upto(<<>>)
      BY DEF FillGap, a
    <3> QED BY <3>1, <3>2
  <2> HIDE DEF s
  <2>4. PICK r : GhostTrace(r, c, s)
    BY <2>1, GhostsTraced
  <2>5. r[0] = a /\ r[Len(s)] = FoldLeft(WithGhost, a, s)
    BY <2>4 DEF GhostTrace
  <2> HIDE DEF a
  <2> QED BY <2>1, <2>3, <2>5
<1> QED BY <1>1

LEMMA IdrPut ==
  ASSUME NEW c, Sound(c), NEW h \in Headers, h.idr
  PROVE  PutPicture(c, h) = AfterGap(h, <<>>, MarkIdr(c, h))
<1>1. h.intra /\ h.marking = "idr"
  BY DEF Headers
<1>2. ~Refused(c, h)
  BY DEF Refused
<1>3. MissingNums(c, h) = <<>>
  BY DEF MissingNums
<1> DEFINE g == FillGap(c, h)
<1>4. g.ctx = c /\ g.drops = <<>> /\ g.ok = TRUE
  BY <1>3, NothingMissing
<1>5. References(c, h).ids = <<>> /\ References(c, h).ok = TRUE
  BY <1>1 DEF References
<1>6. PutPicture(c, h) = AfterGap(h, g.drops, Mark(g.ctx, h, References(g.ctx, h).ids))
  <2> DEFINE d == g.ctx
  <2>1. d = FillGap(c, h).ctx /\ FillGap(c, h).ok = TRUE /\ References(d, h).ok = TRUE
    BY <1>4, <1>5
  <2> HIDE DEF d, g
  <2>2. PutPicture(c, h) = AfterGap(h, FillGap(c, h).drops, Mark(d, h, References(d, h).ids))
    BY <1>2, <2>1, PutPictureIs
  <2> QED BY <2>2 DEF d, g
<1>7. Mark(c, h, <<>>) = MarkIdr(c, h)
  BY <1>1 DEF Mark
<1> QED BY <1>4, <1>5, <1>6, <1>7

LEMMA IdrPicture ==
  ASSUME NEW c, Sound(c), NEW h \in Headers, h.idr
  PROVE  IdrResult(c, h, PutPicture(c, h))
<1> DEFINE f == FreshContext(c.strict)
           k == MarkIdr(c, h)
           r == PutPicture(c, h)
<1>1. Sound(f) /\ f.strict = c.strict
  BY FreshIsSound, ContextFields DEF Sound, Context
<1>2. r = AfterGap(h, <<>>, k)
  BY IdrPut
<1>3. PutPicture(f, h) = AfterGap(h, <<>>, MarkIdr(f, h))
  <2> HIDE DEF f
  <2> QED BY <1>1, IdrPut
<1>4. MarkIdr(f, h) = k
  <2> HIDE DEF f
  <2> QED BY <1>1 DEF MarkIdr
<1>5. k.ok = TRUE /\ k.instructions = <<Idr(h, 0)>>
  BY DEF MarkIdr, Accepted
<1>6. r.ctx = PutPicture(f, h).ctx
  BY <1>2, <1>3, <1>4
<1>7. k \in CompiledFrom(c, Headers)
  BY HeadersAreParsed, IdrCompiles
<1> HIDE DEF k, f, r
<1>8. IsAfter(h, <<>>, k, AfterGap(h, <<>>, k))
  <2> DEFINE drops == <<>>
  <2> HIDE DEF drops
  <2>1. IsAfter(h, drops, k, AfterGap(h, drops, k))
    BY <1>5, <1>7, AfterGapFields
  <2> QED BY <2>1 DEF drops
<1>9. r.ok = TRUE /\ r.instructions = <<>> \o k.instructions
  BY <1>2, <1>8 DEF IsAfter, DropAll
<1>10. <<>> \o k.instructions = <<Idr(h, 0)>>
  <2> DEFINE i == Idr(h, 0)
  <2> HIDE DEF i
  <2>1. \A T : \A q \in Seq(T) : <<>> \o q = q
    OBVIOUS
  <2>2. <<i>> \in Seq({i})
    OBVIOUS
  <2>3. k.instructions = <<i>>
    BY <1>5 DEF i
  <2> QED BY <2>1, <2>2, <2>3 DEF i
<1> QED BY <1>6, <1>9, <1>10 DEF IdrResult, f, r

-----------------------------------------------------------------------------
(* Views of the decoded picture buffer *)

(* What the instructions before make of the buffer: mode "on" says that it *)
(* holds the references with the ids and map says which pictures those     *)
(* are, "lossy" that the pictures to come do not claim to be decoded       *)
(* rightly, "off" that nothing is known.  An IDR picture starts over.      *)
Modes == {"on", "lossy", "off"}
Maps  == [Nat -> Pics]
Views == [mode : Modes, ids : RefSets, map : Maps]

\* What an instruction of a whole stream does.
Exact(i, x, y) ==
  /\ i.op = "Decode" =>
       /\ Few(x.ids) /\ i.id \notin x.ids /\ y.ids = x.ids \cup {i.id}
       /\ y.map = [x.map EXCEPT ![i.id] = i.of.pic]
       /\ i.refs \in Seq(Nat) /\ ToSet(i.refs) \subseteq x.ids
       /\ [k \in DOMAIN i.refs |-> x.map[i.refs[k]]] = i.of.wanted
  /\ i.op = "Drop" =>
       ToSet(i.ids) \subseteq x.ids /\ y.ids = x.ids \ ToSet(i.ids) /\ y.map = x.map

ViewStep(i, x, y) ==
  IF i.op = "Idr" THEN y.mode = "on" /\ y.ids = {i.id} /\ y.map[i.id] = i.of.pic
  ELSE IF x.mode = "off" THEN y.mode = "off"
  ELSE IF ~i.of.whole THEN y.mode = "lossy"
  ELSE x.mode = "on" /\ y.mode = "on" /\ Exact(i, x, y)

ViewSteps ==
  {t \in Instructions(Headers) \X Views \X Views : ViewStep(t[1], t[2], t[3])}

Shows(ins, x, y) == Runs(ViewSteps, Views, ins, x, y)

LEMMA IsViewStep ==
  ASSUME NEW i \in Instructions(Headers), NEW x \in Views, NEW y \in Views
  PROVE  <<i, x, y>> \in ViewSteps <=> ViewStep(i, x, y)
<1> DEFINE T == Instructions(Headers)
<1>1. i \in T /\ ViewSteps = {t \in T \X Views \X Views : ViewStep(t[1], t[2], t[3])}
  BY DEF ViewSteps
<1> HIDE DEF T
<1>2. <<i, x, y>> \in T \X Views \X Views
  BY <1>1
<1>3. <<i, x, y>>[1] = i /\ <<i, x, y>>[2] = x /\ <<i, x, y>>[3] = y
  OBVIOUS
<1> QED BY ONLY <1>1, <1>2, <1>3

\* What a whole stream does, from one IDR picture to the next.
ExactStep(i, x, y) == i.op # "Idr" /\ x.mode = "on" /\ y.mode = "on" /\ Exact(i, x, y)

ExactSteps ==
  {t \in Instructions(Headers) \X Views \X Views : ExactStep(t[1], t[2], t[3])}

Exactly(ins, x, y) == Runs(ExactSteps, Views, ins, x, y)

LEMMA IsExactStep ==
  ASSUME NEW i \in Instructions(Headers), NEW x \in Views, NEW y \in Views
  PROVE  <<i, x, y>> \in ExactSteps <=> ExactStep(i, x, y)
<1> DEFINE T == Instructions(Headers)
           X == Views
<1>1. i \in T /\ x \in X /\ y \in X
      /\ ExactSteps = {t \in T \X X \X X : ExactStep(t[1], t[2], t[3])}
  BY DEF ExactSteps
<1> HIDE DEF T, X
<1>2. <<i, x, y>> \in T \X X \X X
  BY <1>1
<1>3. <<i, x, y>>[1] = i /\ <<i, x, y>>[2] = x /\ <<i, x, y>>[3] = y
  OBVIOUS
<1> QED BY ONLY <1>1, <1>2, <1>3

\* Of a picture of a whole stream, that is what it shows.
LEMMA ExactlyShows ==
  ASSUME NEW h, h.whole, NEW ins \in Seq(Instructions(Headers)), AllOf(ins, h), NEW x, NEW y,
         Exactly(ins, x, y)
  PROVE  Shows(ins, x, y)
<1>1. PICK f : Run(f, ExactSteps, Views, ins, x, y)
  BY DEF Exactly, Runs
<1> DEFINE n == Len(ins)
<1>2. /\ f \in [0 .. n -> Views] /\ f[0] = x /\ f[n] = y
      /\ \A k \in 1 .. n : <<ins[k], f[k - 1], f[k]>> \in ExactSteps
  BY <1>1 DEF Run
<1>3. ASSUME NEW k \in 1 .. n PROVE <<ins[k], f[k - 1], f[k]>> \in ViewSteps
  <2> DEFINE i == ins[k]
             a == f[k - 1]
             b == f[k]
  <2>1. n \in Nat /\ k - 1 \in 0 .. n /\ k \in 0 .. n /\ k \in DOMAIN ins
    OBVIOUS
  <2>2. a \in Views /\ b \in Views /\ <<i, a, b>> \in ExactSteps
    BY <1>2, <2>1
  <2>3. i \in Instructions(Headers) /\ i.op # "Idr" /\ i.of = h
    BY <2>1 DEF AllOf
  <2> HIDE DEF i, a, b
  <2>4. ExactStep(i, a, b)
    BY <2>2, <2>3, IsExactStep
  <2>5. ViewStep(i, a, b)
    BY <2>3, <2>4 DEF ExactStep, ViewStep
  <2>6. <<i, a, b>> \in ViewSteps
    BY <2>2, <2>3, <2>5, IsViewStep
  <2> QED BY <2>6 DEF i, a, b
<1>4. Run(f, ViewSteps, Views, ins, x, y)
  BY <1>2, <1>3 DEF Run
<1> QED BY <1>4 DEF Shows, Runs

LEMMA FirstAndRest ==
  ASSUME NEW T, NEW i \in T, NEW b \in Seq(T)
  PROVE  /\ <<i>> \o b \in Seq(T) /\ <<i>> \o b # <<>>
         /\ Head(<<i>> \o b) = i /\ Tail(<<i>> \o b) = b
<1> DEFINE a == <<i>>
<1>1. a \in Seq(T) /\ Len(a) = 1 /\ a[1] = i
  OBVIOUS
<1> HIDE DEF a
<1> DEFINE s == a \o b
<1>2. s \in Seq(T) /\ Len(s) = 1 + Len(b) /\ s[1] = i /\ Len(b) \in Nat
      /\ \A k \in 1 .. Len(b) : s[1 + k] = b[k]
  <2>1. /\ a \o b \in Seq(T) /\ Len(a \o b) = Len(a) + Len(b) /\ Len(b) \in Nat
        /\ \A k \in 1 .. Len(a) : (a \o b)[k] = a[k]
        /\ \A k \in 1 .. Len(b) : (a \o b)[Len(a) + k] = b[k]
    BY <1>1, ConcatIs
  <2>2. 1 \in 1 .. Len(a)
    BY <1>1
  <2> QED BY <1>1, <2>1, <2>2
<1> HIDE DEF s
<1>3. s # <<>> /\ Head(s) = i
  BY <1>2
<1> DEFINE t == Tail(s)
<1>4. t \in Seq(T) /\ Len(t) = Len(b) /\ \A k \in 1 .. Len(b) : t[k] = s[k + 1]
  <2>1. \A q \in Seq(T) : q # <<>> => /\ Tail(q) \in Seq(T) /\ Len(Tail(q)) = Len(q) - 1
                                      /\ \A k \in 1 .. Len(q) - 1 : Tail(q)[k] = q[k + 1]
    OBVIOUS
  <2>2. Len(s) - 1 = Len(b)
    BY <1>2
  <2> QED BY <1>2, <1>3, <2>1, <2>2
<1> HIDE DEF t
<1>5. t = b
  <2>1. \A k \in 1 .. Len(t) : t[k] = b[k]
    <3> TAKE k \in 1 .. Len(t)
    <3>1. k \in 1 .. Len(b) /\ k + 1 = 1 + k
      BY <1>4
    <3> QED BY <1>2, <1>4, <3>1
  <2> QED BY <1>4, <2>1, SameSequence
<1> QED BY <1>2, <1>3, <1>5 DEF a, s, t

LEMMA LeadsDrops ==
  ASSUME NEW H, NEW h \in H, NEW drops \in Seq(Nat), NEW rest \in Seq(Instructions(H)),
         NEW K, NEW L, Leads(DropAll(h, drops) \o rest, K, L)
  PROVE  ToSet(drops) \subseteq K /\ Leads(rest, K \ ToSet(drops), L)
<1>1. CASE drops = <<>>
  <2> DEFINE T == Instructions(H)
  <2>0. rest \in Seq(T)
    OBVIOUS
  <2> HIDE DEF T
  <2>1. <<>> \o rest = rest
    BY <2>0
  <2>2. DropAll(h, drops) = <<>> /\ ToSet(drops) = {}
    BY <1>1 DEF DropAll, ToSet
  <2>3. K \ {} = K
    OBVIOUS
  <2> QED BY <2>1, <2>2, <2>3
<1>2. CASE drops # <<>>
  <2> DEFINE i == Drop(h, drops)
             T == Instructions(H)
             s == <<i>> \o rest
  <2>1. i \in T /\ DropAll(h, drops) = <<i>>
    BY <1>2 DEF DropAll, Drop, Instructions
  <2>2. i.op = "Drop" /\ i.ids = drops
    BY DEF Drop
  <2> HIDE DEF i
  <2>3. s \in Seq(T) /\ s # <<>> /\ Head(s) = i /\ Tail(s) = rest
    <3>1. i \in T /\ rest \in Seq(T)
      BY <2>1
    <3> HIDE DEF T
    <3> QED BY <3>1, FirstAndRest
  <2>4. Leads(s, K, L)
    BY <2>1
  <2> HIDE DEF T, s
  <2>5. \E M \in RefSets : Effect(Head(s), K, M) /\ Leads(Tail(s), M, L)
    BY <2>3, <2>4, LeadsFirst
  <2>6. PICK M \in RefSets : Effect(i, K, M) /\ Leads(rest, M, L)
    BY <2>3, <2>5
  <2>7. ToSet(drops) \subseteq K /\ M = K \ ToSet(drops)
    BY <2>2, <2>6 DEF Effect
  <2> QED BY <2>6, <2>7
<1> QED BY <1>1, <1>2

On(ids, map) == [mode |-> "on", ids |-> ids, map |-> map]

LEMMA OnIsView ==
  ASSUME NEW ids \in RefSets, NEW map \in Maps
  PROVE  /\ On(ids, map) \in Views /\ On(ids, map).mode = "on" /\ On(ids, map).ids = ids
         /\ On(ids, map).map = map
  BY DEF On, Views, Modes

LEMMA FewerRefs ==
  ASSUME NEW ids \in RefSets, NEW X
  PROVE  ids \ X \in RefSets
  BY DEF RefSets

LEMMA MoreRefs ==
  ASSUME NEW ids \in RefSets, NEW x \in Nat
  PROVE  ids \cup {x} \in RefSets
  BY DEF RefSets

LEMMA DropsExact ==
  ASSUME NEW h \in Headers, NEW drops \in Seq(Nat), NEW ids \in RefSets, NEW map \in Maps,
         ToSet(drops) \subseteq ids
  PROVE  Exactly(DropAll(h, drops), On(ids, map), On(ids \ ToSet(drops), map))
<1> DEFINE x == On(ids, map)
           y == On(ids \ ToSet(drops), map)
<1>1. /\ x \in Views /\ x.mode = "on" /\ x.ids = ids /\ x.map = map
      /\ y \in Views /\ y.mode = "on" /\ y.ids = ids \ ToSet(drops) /\ y.map = map
  BY FewerRefs, OnIsView
<1> HIDE DEF x, y
<1>2. CASE drops = <<>>
  <2>1. DropAll(h, drops) = <<>> /\ ToSet(drops) = {}
    BY <1>2 DEF DropAll, ToSet
  <2>2. x = y
    <3>1. ids \ {} = ids
      OBVIOUS
    <3> QED BY <2>1, <3>1 DEF x, y
  <2>3. Runs(ExactSteps, Views, <<>>, x, x)
    BY <1>1, NothingRuns
  <2> QED BY <2>1, <2>2, <2>3 DEF Exactly, x, y
<1>3. CASE drops # <<>>
  <2> DEFINE i == Drop(h, drops)
  <2>1. i \in Instructions(Headers) /\ DropAll(h, drops) = <<i>>
    BY <1>3 DEF DropAll, Drop, Instructions
  <2>2. i.op = "Drop" /\ i.ids = drops /\ i.of = h
    BY DEF Drop
  <2> HIDE DEF i
  <2>3. ExactStep(i, x, y)
    BY <1>1, <2>2 DEF ExactStep, Exact
  <2>4. <<i, x, y>> \in ExactSteps
    BY <1>1, <2>1, <2>3, IsExactStep
  <2>5. Runs(ExactSteps, Views, <<i>>, x, y)
    BY <1>1, <2>4, OneRuns
  <2> QED BY <2>1, <2>5 DEF Exactly, x, y
<1> QED BY <1>2, <1>3

\* A picture, and the references it was predicted from.
Decoding(h, d, refs, map, map2) ==
  /\ h \in Headers /\ Sound(d) /\ Few(Refs(d)) /\ refs \in RefLists(Headers)
  /\ map \in Maps /\ map2 \in Maps /\ map2 = [map EXCEPT ![d.nextId] = h.pic]
  /\ RightReferences(map, d, refs, h.wanted)

LEMMA DecodeExact ==
  ASSUME NEW h, NEW d, NEW refs, NEW map, NEW map2, Decoding(h, d, refs, map, map2)
  PROVE  Exactly(<<Decode(h, d.nextId, refs)>>, On(Refs(d), map), On(Refs(d) \cup {d.nextId}, map2))
<1> USE DEF Decoding
<1> DEFINE i == Decode(h, d.nextId, refs)
           x == On(Refs(d), map)
           y == On(Refs(d) \cup {d.nextId}, map2)
<1>1. Refs(d) \in RefSets /\ d.nextId \in Nat /\ d.nextId \notin Refs(d)
  BY RefsAreNumbers
<1>2. /\ x \in Views /\ x.mode = "on" /\ x.ids = Refs(d) /\ x.map = map
      /\ y \in Views /\ y.mode = "on" /\ y.ids = Refs(d) \cup {d.nextId} /\ y.map = map2
  <2> DEFINE ids == Refs(d)
             more == Refs(d) \cup {d.nextId}
  <2>1. ids \in RefSets /\ more \in RefSets
    BY <1>1, MoreRefs
  <2> HIDE DEF ids, more
  <2>2. /\ On(ids, map) \in Views /\ On(ids, map).mode = "on" /\ On(ids, map).ids = ids
        /\ On(ids, map).map = map
        /\ On(more, map2) \in Views /\ On(more, map2).mode = "on" /\ On(more, map2).ids = more
        /\ On(more, map2).map = map2
    BY <2>1, OnIsView
  <2> QED BY <2>2 DEF ids, more
<1>3. i \in Instructions(Headers)
  BY <1>1 DEF Decode, Instructions
<1>4. i.op = "Decode" /\ i.id = d.nextId /\ i.refs = refs /\ i.of = h
  BY DEF Decode
<1> HIDE DEF i, x, y
<1>5. ExactStep(i, x, y)
  <2>1. /\ refs \in Seq(Nat) /\ ToSet(refs) \subseteq Refs(d)
        /\ [k \in DOMAIN refs |-> map[refs[k]]] = h.wanted
    BY DEF RightReferences
  <2> QED BY <1>1, <1>2, <1>4, <2>1 DEF ExactStep, Exact
<1>6. <<i, x, y>> \in ExactSteps
  BY <1>2, <1>3, <1>5, IsExactStep
<1>7. Runs(ExactSteps, Views, <<i>>, x, y)
  BY <1>2, <1>6, OneRuns
<1> QED BY <1>7 DEF Exactly, i, x, y

ExactFrom(map, map2, c, h, d, refs, pre, post, ins, after) ==
  /\ h \in Headers /\ Sound(c) /\ map \in Maps /\ map2 \in Maps
  /\ map2 = [map EXCEPT ![d.nextId] = h.pic]
  /\ Decodes(map, c, h, d, refs, pre, post, ins) /\ Leads(ins, Refs(c), after)

LEMMA NothingAfter ==
  ASSUME NEW T, NEW s \in Seq(T)
  PROVE  s \o <<>> = s /\ <<>> \in Seq(T)
  OBVIOUS

LEMMA PictureExact ==
  ASSUME NEW map, NEW map2, NEW c, NEW h, NEW d, NEW refs, NEW pre, NEW post, NEW ins, NEW after,
         ExactFrom(map, map2, c, h, d, refs, pre, post, ins, after)
  PROVE  Exactly(ins, On(Refs(c), map), On(after, map2))
<1> DEFINE T == Instructions(Headers)
           K == Refs(c)
           L == Refs(d)
           i == Decode(h, d.nextId, refs)
           M == L \cup {d.nextId}
           a == DropAll(h, pre)
           b == DropAll(h, post)
           rest == <<i>> \o b
<1>1. /\ h \in Headers /\ Sound(c) /\ map \in Maps /\ map2 \in Maps
      /\ map2 = [map EXCEPT ![d.nextId] = h.pic]
      /\ ins = a \o rest /\ pre \in Seq(Nat) /\ post \in Seq(Nat) /\ refs \in RefLists(Headers)
      /\ Sound(d) /\ ToSet(pre) \subseteq K /\ L = K \ ToSet(pre)
      /\ RightReferences(map, d, refs, h.wanted) /\ Leads(ins, K, after)
      /\ Len(d.short) + Len(d.long) <= MaxRefs
  BY DEF ExactFrom, Decodes, Balanced
<1>2. K \in RefSets /\ L \in RefSets /\ d.nextId \in Nat /\ M \in RefSets
  BY <1>1, RefsAreNumbers, MoreRefs
<1>3. Few(L)
  BY <1>1, RefsAreFew DEF Sound
<1>4. i \in T /\ i.op = "Decode" /\ i.id = d.nextId
  BY <1>1, <1>2 DEF Decode, Instructions
<1>5. a \in Seq(T) /\ b \in Seq(T)
  <2>1. ToSet(pre) \in RefSets /\ ToSet(post) \in RefSets
    BY <1>1 DEF RefSets, ToSet
  <2>2. ToSet(pre) \subseteq ToSet(pre) /\ ToSet(post) \subseteq ToSet(post)
    OBVIOUS
  <2> QED BY <1>1, <2>1, <2>2, DropLeads
<1>6. Exactly(a, On(K, map), On(L, map))
  <2>1. Exactly(DropAll(h, pre), On(K, map), On(K \ ToSet(pre), map))
    <3> HIDE DEF K
    <3> QED BY <1>1, <1>2, DropsExact
  <2> QED BY <1>1, <2>1
<1>7. Exactly(<<i>>, On(L, map), On(M, map2))
  <2>1. Decoding(h, d, refs, map, map2)
    BY <1>1, <1>3 DEF Decoding
  <2> QED BY <2>1, DecodeExact
<1> HIDE DEF i, T, K, L, M
<1>8. rest \in Seq(T) /\ rest # <<>> /\ Head(rest) = i /\ Tail(rest) = b
  <2> HIDE DEF b
  <2> QED BY <1>4, <1>5, FirstAndRest
<1> HIDE DEF rest
<1>9. Leads(rest, L, after)
  <2>1. Leads(DropAll(h, pre) \o rest, K, after)
    BY <1>1
  <2>2. rest \in Seq(Instructions(Headers))
    BY <1>8 DEF T
  <2>3. Leads(rest, K \ ToSet(pre), after)
    BY <1>1, <2>1, <2>2, LeadsDrops
  <2> QED BY <1>1, <2>3
<1>10. PICK N \in RefSets : Effect(i, L, N) /\ Leads(b, N, after)
  <2> HIDE DEF b
  <2>1. \E N \in RefSets : Effect(Head(rest), L, N) /\ Leads(Tail(rest), N, after)
    BY <1>8, <1>9, LeadsFirst
  <2> QED BY <1>8, <2>1
<1>11. N = M
  BY <1>4, <1>10 DEF Effect, M
<1>12. ToSet(post) \subseteq M /\ after = M \ ToSet(post)
  <2> DEFINE e == <<>>
  <2>1. e \in Seq(Instructions(Headers)) /\ b \o e = b
    <3>1. b \o <<>> = b /\ <<>> \in Seq(T)
      <4> HIDE DEF b
      <4> QED BY <1>5, NothingAfter
    <3> QED BY <3>1 DEF T
  <2>2. Leads(DropAll(h, post) \o e, M, after)
    BY <1>10, <1>11, <2>1
  <2> HIDE DEF e
  <2>3. ToSet(post) \subseteq M /\ Leads(e, M \ ToSet(post), after)
    BY <1>1, <2>1, <2>2, LeadsDrops
  <2>4. Leads(<<>>, M \ ToSet(post), after)
    BY <2>3 DEF e
  <2>5. M \ ToSet(post) = after
    BY <2>4, NothingLeadsBack
  <2> QED BY <2>3, <2>5
<1>13. Exactly(b, On(M, map2), On(after, map2))
  <2>1. Exactly(DropAll(h, post), On(M, map2), On(M \ ToSet(post), map2))
    BY <1>1, <1>2, <1>12, DropsExact
  <2> QED BY <1>12, <2>1
<1> DEFINE s == <<i>>
<1>14. s \in Seq(T) /\ Exactly(s, On(L, map), On(M, map2))
  BY <1>4, <1>7
<1> HIDE DEF s, a, b
<1>15. Exactly(s \o b, On(L, map), On(after, map2))
  BY <1>5, <1>13, <1>14, RunsOn DEF Exactly
<1>16. s \o b = rest
  BY DEF s, rest
<1>17. Exactly(a \o rest, On(K, map), On(after, map2))
  BY <1>5, <1>6, <1>8, <1>15, <1>16, RunsOn DEF Exactly
<1> QED BY <1>1, <1>17 DEF K

-----------------------------------------------------------------------------
(* What the headers to come make of the manager *)

HStates == {x \in [mode : Modes, ctx : Context, map : Maps] : Sound(x.ctx)}

View(x) == [mode |-> x.mode, ids |-> Refs(x.ctx), map |-> x.map]

HeaderStep(h, x, y) ==
  /\ y.ctx.strict = x.ctx.strict
  /\ IF h.idr
     THEN y.mode = "on" /\ y.ctx = PutPicture(x.ctx, h).ctx /\ y.map[0] = h.pic
     ELSE IF x.mode = "off" THEN y.mode = "off"
     ELSE IF ~h.whole THEN y.mode = "lossy"
     ELSE /\ x.mode = "on" /\ y.mode = "on"
          /\ PutPicture(x.ctx, h).ok /\ y.ctx = PutPicture(x.ctx, h).ctx
          /\ Shows(PutPicture(x.ctx, h).instructions, View(x), View(y))

HeaderSteps == {t \in Headers \X HStates \X HStates : HeaderStep(t[1], t[2], t[3])}

Expects(headers, x, y) == Runs(HeaderSteps, HStates, headers, x, y)

LEMMA IsHeaderStep ==
  ASSUME NEW h \in Headers, NEW x \in HStates, NEW y \in HStates
  PROVE  <<h, x, y>> \in HeaderSteps <=> HeaderStep(h, x, y)
<1> DEFINE T == Headers
           X == HStates
<1>1. h \in T /\ x \in X /\ y \in X
      /\ HeaderSteps = {t \in T \X X \X X : HeaderStep(t[1], t[2], t[3])}
  BY DEF HeaderSteps
<1> HIDE DEF T, X
<1>2. <<h, x, y>> \in T \X X \X X
  BY <1>1
<1>3. <<h, x, y>>[1] = h /\ <<h, x, y>>[2] = x /\ <<h, x, y>>[3] = y
  OBVIOUS
<1> QED BY ONLY <1>1, <1>2, <1>3

LEMMA StateFields ==
  ASSUME NEW x \in HStates
  PROVE  /\ x.mode \in Modes /\ x.ctx \in Context /\ Sound(x.ctx) /\ x.map \in Maps
         /\ View(x) \in Views /\ View(x).mode = x.mode /\ View(x).ids = Refs(x.ctx)
         /\ View(x).map = x.map
<1>1. x.mode \in Modes /\ x.ctx \in Context /\ Sound(x.ctx) /\ x.map \in Maps
  BY DEF HStates
<1>2. Refs(x.ctx) \in RefSets
  BY <1>1, RefsAreNumbers
<1> QED BY <1>1, <1>2 DEF View, Views

\* Nothing is claimed of the instructions of a picture.
Blind(h, x, y) ==
  /\ x \in Views /\ y \in Views
  /\ \/ x.mode = "off" /\ y.mode = "off"
     \/ x.mode # "off" /\ y.mode = "lossy" /\ ~h.whole

LEMMA BlindShows ==
  ASSUME NEW h, NEW x, NEW y, Blind(h, x, y), NEW ins \in Seq(Instructions(Headers)), AllOf(ins, h),
         Len(ins) >= 1
  PROVE  Shows(ins, x, y)
<1> DEFINE T == Instructions(Headers)
           n == Len(ins)
           f == [k \in 0 .. n |-> IF k = 0 THEN x ELSE y]
<1>1. x \in Views /\ y \in Views
  BY DEF Blind
<1>2. n \in Nat /\ n >= 1 /\ DOMAIN ins = 1 .. n /\ \A k \in 1 .. n : ins[k] \in T
  <2>1. ins \in Seq(T)
    OBVIOUS
  <2> HIDE DEF T
  <2> QED BY <2>1
<1> HIDE DEF n
<1>3. f \in [0 .. n -> Views] /\ f[0] = x /\ f[n] = y /\ \A k \in 1 .. n : f[k] = y
  BY <1>1, <1>2
<1>4. \A k \in 1 .. n : k - 1 \in 0 .. n /\ f[k - 1] \in {x, y} /\ f[k - 1] \in Views /\ f[k] = y
  <2> TAKE k \in 1 .. n
  <2>1. k - 1 \in 0 .. n
    BY <1>2
  <2>2. f[k - 1] \in {x, y}
    BY <2>1
  <2> QED BY <1>1, <1>3, <2>1, <2>2
<1> HIDE DEF f
<1>5. \A z \in {x, y} : (z.mode = "off" /\ y.mode = "off") \/ (z.mode # "off" /\ y.mode = "lossy" /\ ~h.whole)
  <2>1. "lossy" # "off"
    OBVIOUS
  <2> QED BY <2>1 DEF Blind
<1>6. ASSUME NEW k \in 1 .. n PROVE <<ins[k], f[k - 1], f[k]>> \in ViewSteps
  <2>1. ins[k].op # "Idr" /\ ins[k].of = h /\ ins[k] \in T
    BY <1>2 DEF AllOf
  <2>2. f[k - 1] \in {x, y} /\ f[k - 1] \in Views /\ f[k] = y
    BY <1>4
  <2> DEFINE i == ins[k]
             z == f[k - 1]
  <2>3. i.op # "Idr" /\ i.of = h /\ i \in T /\ z \in {x, y} /\ z \in Views
    BY <2>1, <2>2
  <2> HIDE DEF i, z
  <2>4. ViewStep(i, z, y)
    BY <1>5, <2>3 DEF ViewStep
  <2>5. <<i, z, y>> \in ViewSteps
    BY <1>1, <2>3, <2>4, IsViewStep
  <2> QED BY <2>2, <2>5 DEF i, z
<1>7. Run(f, ViewSteps, Views, ins, x, y)
  BY <1>3, <1>6 DEF Run, n
<1> QED BY <1>7 DEF Shows, Runs

\* The context c is as expected in state x.
Fits(c, x) == Sound(c) /\ c.strict = x.ctx.strict /\ (x.mode = "on" => x.ctx = c)

Putting(c, h, x, y) ==
  /\ h \in Headers /\ x \in HStates /\ y \in HStates /\ HeaderStep(h, x, y)
  /\ Fits(c, x) /\ PutPicture(c, h).ok

Put(c, h, x, y) ==
  LET r == PutPicture(c, h)
  IN  Shows(r.instructions, View(x), View(y)) /\ Fits(r.ctx, y)

LEMMA IdrShows ==
  ASSUME NEW c, NEW h, NEW x, NEW y, Putting(c, h, x, y), h.idr
  PROVE  Put(c, h, x, y)
<1> DEFINE r == PutPicture(c, h)
           i == Idr(h, 0)
           v == View(x)
           w == View(y)
<1>1. /\ h \in Headers /\ x \in HStates /\ y \in HStates /\ Sound(c) /\ c.strict = x.ctx.strict
      /\ y.ctx.strict = x.ctx.strict /\ y.mode = "on" /\ y.ctx = PutPicture(x.ctx, h).ctx
      /\ y.map[0] = h.pic
  BY DEF Putting, Fits, HeaderStep
<1>2. /\ v \in Views /\ w \in Views /\ w.mode = "on" /\ w.map = y.map /\ w.ids = Refs(y.ctx)
      /\ Sound(x.ctx)
  BY <1>1, StateFields
<1> HIDE DEF v, w
<1>3. r.ok = TRUE /\ r.instructions = <<i>> /\ r.ctx = PutPicture(FreshContext(c.strict), h).ctx
  <2>1. IdrResult(c, h, r)
    BY <1>1, IdrPicture
  <2> QED BY <2>1 DEF IdrResult
<1>4. y.ctx = r.ctx
  <2>1. IdrResult(x.ctx, h, PutPicture(x.ctx, h))
    BY <1>1, <1>2, IdrPicture
  <2> QED BY <1>1, <1>3, <2>1 DEF IdrResult
<1>5. r \in CompiledFrom(c, Headers)
  BY <1>1, HeadersAreParsed, PutPictureCompiles
<1> HIDE DEF r
<1>6. Sound(r.ctx) /\ r.ctx.strict = c.strict /\ Leads(r.instructions, Refs(c), Refs(r.ctx))
  BY <1>3, <1>5, CompiledFields
<1>7. i.op = "Idr" /\ i.id = 0 /\ i.of = h /\ i \in Instructions(Headers)
  BY <1>1 DEF Idr, Instructions
<1> HIDE DEF i
<1>8. Refs(r.ctx) = {0}
  <2> DEFINE s == <<i>>
  <2>1. s \in Seq({i}) /\ s # <<>> /\ Head(s) = i /\ Tail(s) = <<>>
    OBVIOUS
  <2>2. Leads(s, Refs(c), Refs(r.ctx))
    BY <1>3, <1>6
  <2> HIDE DEF s
  <2>3. \E M \in RefSets : Effect(Head(s), Refs(c), M) /\ Leads(Tail(s), M, Refs(r.ctx))
    BY <2>1, <2>2, LeadsFirst
  <2>4. PICK M \in RefSets : Effect(i, Refs(c), M) /\ Leads(<<>>, M, Refs(r.ctx))
    BY <2>1, <2>3
  <2>5. M = Refs(r.ctx)
    BY <2>4, NothingLeadsBack
  <2> QED BY <1>7, <2>4, <2>5 DEF Effect
<1>9. ViewStep(i, v, w)
  BY <1>1, <1>2, <1>4, <1>7, <1>8 DEF ViewStep
<1>10. Shows(<<i>>, v, w)
  <2>1. <<i, v, w>> \in ViewSteps
    BY <1>2, <1>7, <1>9, IsViewStep
  <2> QED BY <1>2, <2>1, OneRuns DEF Shows
<1>11. Fits(r.ctx, y)
  BY <1>1, <1>4, <1>6 DEF Fits
<1>12. Shows(r.instructions, View(x), View(y))
  BY <1>3, <1>10 DEF v, w
<1> QED BY <1>11, <1>12 DEF Put, r

LEMMA PutShows ==
  ASSUME NEW c, NEW h, NEW x, NEW y, Putting(c, h, x, y)
  PROVE  Put(c, h, x, y)
<1> DEFINE r == PutPicture(c, h)
           ins == r.instructions
           v == View(x)
           w == View(y)
<1>1. /\ h \in Headers /\ x \in HStates /\ y \in HStates /\ Sound(c) /\ c.strict = x.ctx.strict
      /\ y.ctx.strict = x.ctx.strict /\ HeaderStep(h, x, y) /\ r.ok
      /\ (x.mode = "on" => x.ctx = c)
  BY DEF Putting, Fits, HeaderStep
<1>2. /\ v \in Views /\ w \in Views /\ v.mode = x.mode /\ w.mode = y.mode
      /\ x.mode \in Modes /\ y.mode \in Modes
  BY <1>1, StateFields
<1>3. r \in CompiledFrom(c, Headers)
  BY <1>1, HeadersAreParsed, PutPictureCompiles
<1>4. Sound(r.ctx) /\ r.ctx.strict = c.strict
  <2> HIDE DEF r
  <2> QED BY <1>3, CompiledFields
<1>5. CASE h.idr
  BY <1>5, IdrShows
<1>6. ASSUME ~h.idr, y.mode # "on", Blind(h, v, w) PROVE Put(c, h, x, y)
  <2>1. AllOf(ins, h) /\ Len(ins) >= 1 /\ ins \in Seq(Instructions(Headers))
    BY <1>1, <1>6, OthersForm
  <2> HIDE DEF ins, r, v, w
  <2>2. Shows(ins, v, w)
    BY <1>6, <2>1, BlindShows
  <2>3. Fits(r.ctx, y)
    BY <1>1, <1>4, <1>6 DEF Fits
  <2> QED BY <2>2, <2>3 DEF Put, ins, r, v, w
<1>7. CASE ~h.idr /\ x.mode = "off"
  <2>1. y.mode = "off"
    BY <1>1, <1>7 DEF HeaderStep
  <2>2. Blind(h, v, w) /\ y.mode # "on"
    BY <1>2, <1>7, <2>1 DEF Blind
  <2> QED BY <1>6, <1>7, <2>2
<1>8. CASE ~h.idr /\ x.mode # "off" /\ ~h.whole
  <2>1. y.mode = "lossy"
    BY <1>1, <1>8 DEF HeaderStep
  <2>2. Blind(h, v, w) /\ y.mode # "on"
    BY <1>2, <1>8, <2>1 DEF Blind
  <2> QED BY <1>6, <1>8, <2>2
<1>9. CASE ~h.idr /\ x.mode # "off" /\ h.whole
  <2>1. /\ x.mode = "on" /\ y.ctx = PutPicture(x.ctx, h).ctx
        /\ Shows(PutPicture(x.ctx, h).instructions, View(x), View(y))
    BY <1>1, <1>9 DEF HeaderStep
  <2>2. x.ctx = c
    BY <1>1, <2>1
  <2>3. Fits(r.ctx, y)
    BY <1>1, <1>4, <2>1, <2>2 DEF Fits
  <2> QED BY <2>1, <2>2, <2>3 DEF Put
<1> QED BY <1>5, <1>7, <1>8, <1>9

JoinedOn(acc, r) ==
  r.ok /\ Joined(acc, r).instructions = acc.instructions \o r.instructions /\ Joined(acc, r).ctx = r.ctx

LEMMA JoinedIs ==
  ASSUME NEW c, NEW r, NEW acc, r \in CompiledFrom(c, Headers), Joined(acc, r).ok
  PROVE  JoinedOn(acc, r)
<1>1. r \in Outcomes(Headers)
  BY CompiledFields
<1>2. r.ok
  BY DEF Joined
<1> DEFINE ins == acc.instructions \o r.instructions
<1>3. Joined(acc, r) = [r EXCEPT !.instructions = ins]
  BY <1>2 DEF Joined
<1> HIDE DEF ins
<1>4. Joined(acc, r).instructions = ins /\ Joined(acc, r).ctx = r.ctx
  BY <1>1, <1>3 DEF Outcomes
<1> QED BY <1>2, <1>4 DEF ins, JoinedOn

\* What an event shows, when its access units are what is expected.
Compiling(c, s, x, y) ==
  s \in Seq(Headers) /\ Fits(c, x) /\ Expects(s, x, y) /\ Compile(c, s).ok

Compiled(c, s, x, y) ==
  Shows(Compile(c, s).instructions, View(x), View(y)) /\ Fits(Compile(c, s).ctx, y)

LEMMA CompileShows ==
  ASSUME NEW c, NEW s, NEW x, NEW y, Compiling(c, s, x, y)
  PROVE  Compiled(c, s, x, y)
<1> DEFINE n == Len(s)
           T == Instructions(Headers)
<1>1. s \in Seq(Headers) /\ Sound(c) /\ Fits(c, x) /\ n \in Nat
  BY DEF Compiling, Fits
<1>2. PICK f : Run(f, HeaderSteps, HStates, s, x, y)
  BY DEF Compiling, Expects, Runs
<1>3. PICK r : CompileTrace(r, c, s, Headers)
  BY <1>1, HeadersAreParsed, CompileTraced
<1> HIDE DEF n
<1>4. /\ f \in [0 .. n -> HStates] /\ f[0] = x /\ f[n] = y
      /\ \A k \in 1 .. n : <<s[k], f[k - 1], f[k]>> \in HeaderSteps
  BY <1>2 DEF Run, n
<1>5. /\ r \in [0 .. n -> CompiledFrom(c, Headers)]
      /\ r[0] = Accepted(c, <<>>) /\ r[n] = Compile(c, s)
      /\ \A k \in 1 .. n :
           r[k] = IF r[k - 1].ok THEN Joined(r[k - 1], PutPicture(r[k - 1].ctx, s[k])) ELSE r[k - 1]
  BY <1>3 DEF CompileTrace, n
<1> DEFINE ShownTo(k) == r[k].ok => Shows(r[k].instructions, View(x), View(f[k])) /\ Fits(r[k].ctx, f[k])
           S == {k \in Nat : k <= n => ShownTo(k)}
<1>6. 0 \in S
  <2>1. r[0].instructions = <<>> /\ r[0].ctx = c
    BY <1>5 DEF Accepted
  <2>2. x \in HStates /\ View(x) \in Views
    <3>1. 0 \in 0 .. n
      BY <1>1
    <3>2. x \in HStates
      BY <1>4, <3>1
    <3> QED BY <3>2, StateFields
  <2>3. Shows(<<>>, View(x), View(x))
    BY <2>2, NothingRuns DEF Shows
  <2> QED BY <1>1, <1>4, <2>1, <2>3
<1>7. ASSUME NEW j \in Nat, j \in S PROVE j + 1 \in S
  <2> SUFFICES ASSUME j + 1 <= n, r[j + 1].ok
               PROVE  Shows(r[j + 1].instructions, View(x), View(f[j + 1])) /\ Fits(r[j + 1].ctx, f[j + 1])
    OBVIOUS
  <2> DEFINE k == j + 1
             acc == r[j]
             h == s[k]
             a == f[j]
             b == f[k]
             p == PutPicture(acc.ctx, h)
  <2>1. k \in 1 .. n /\ k - 1 = j /\ j \in 0 .. n /\ k \in 0 .. n /\ j <= n
    BY <1>1
  <2>2. acc \in CompiledFrom(c, Headers) /\ r[k] \in CompiledFrom(c, Headers)
    BY <1>5, <2>1
  <2>3. a \in HStates /\ b \in HStates /\ <<h, a, b>> \in HeaderSteps /\ h \in Headers
    <3>1. h \in Headers
      BY <1>1, <2>1 DEF n
    <3>2. <<s[k], f[k - 1], f[k]>> \in HeaderSteps
      BY <1>4, <2>1
    <3> QED BY <1>4, <2>1, <3>1, <3>2
  <2>4. r[k] = IF acc.ok THEN Joined(acc, p) ELSE acc
    <3>1. r[k] = IF r[k - 1].ok THEN Joined(r[k - 1], PutPicture(r[k - 1].ctx, s[k])) ELSE r[k - 1]
      BY <1>5, <2>1
    <3> QED BY <2>1, <3>1
  <2>5. acc.ok /\ Shows(acc.instructions, View(x), View(a)) /\ Fits(acc.ctx, a)
    BY <1>7, <2>1, <2>4
  <2>6. r[k] = Joined(acc, p) /\ Joined(acc, p).ok
    BY <2>4, <2>5
  <2>7. HeaderStep(h, a, b)
    <3> HIDE DEF h, a, b
    <3> QED BY <2>3, IsHeaderStep
  <2>8. p \in CompiledFrom(acc.ctx, Headers)
    <3>1. Sound(acc.ctx)
      BY <2>5 DEF Fits
    <3> HIDE DEF acc, h
    <3> QED BY <2>3, <3>1, HeadersAreParsed, PutPictureCompiles
  <2> HIDE DEF h, a, b, acc, k
  <2>9. p.ok /\ r[k].instructions = acc.instructions \o p.instructions /\ r[k].ctx = p.ctx
    <3> HIDE DEF p
    <3>1. JoinedOn(acc, p)
      BY <2>6, <2>8, JoinedIs
    <3> QED BY <2>6, <3>1 DEF JoinedOn
  <2>10. Put(acc.ctx, h, a, b)
    <3>1. Putting(acc.ctx, h, a, b)
      BY <2>3, <2>5, <2>7, <2>9 DEF Putting
    <3> QED BY <3>1, PutShows
  <2>11. Shows(p.instructions, View(a), View(b)) /\ Fits(p.ctx, b)
    BY <2>10 DEF Put
  <2>12. acc.instructions \in Seq(T) /\ p.instructions \in Seq(T)
    <3> HIDE DEF p, T
    <3> QED BY <2>2, <2>8, CompiledFields DEF T
  <2>13. Shows(acc.instructions \o p.instructions, View(x), View(b))
    <3> DEFINE u == acc.instructions
               w == p.instructions
    <3>1. u \in Seq(T) /\ w \in Seq(T)
      BY <2>12
    <3>2. Runs(ViewSteps, Views, u, View(x), View(a)) /\ Runs(ViewSteps, Views, w, View(a), View(b))
      BY <2>5, <2>11 DEF Shows
    <3> HIDE DEF T, u, w
    <3>3. Runs(ViewSteps, Views, u \o w, View(x), View(b))
      BY <3>1, <3>2, RunsOn
    <3> QED BY <3>3 DEF Shows, u, w
  <2>14. Shows(r[k].instructions, View(x), View(b)) /\ Fits(r[k].ctx, b)
    BY <2>9, <2>11, <2>13
  <2> QED BY <2>14 DEF k, b
<1>8. n \in S
  <2> HIDE DEF S
  <2>1. Nat \subseteq S
    BY <1>6, <1>7, AllNumbers
  <2> QED BY <1>1, <2>1
<1>9. ShownTo(n)
  BY <1>8
<1>10. Compile(c, s).ok
  BY DEF Compiling
<1> QED BY <1>4, <1>5, <1>9, <1>10 DEF Compiled

-----------------------------------------------------------------------------
(* After a failure *)

Off(x) == [x EXCEPT !.mode = "off"]

LEMMA OffIsState ==
  ASSUME NEW x \in HStates
  PROVE  /\ Off(x) \in HStates /\ Off(x).mode = "off" /\ Off(x).ctx = x.ctx /\ Off(x).map = x.map
         /\ View(Off(x)).mode = "off"
<1>1. x \in [mode : Modes, ctx : Context, map : Maps] /\ Sound(x.ctx)
  BY DEF HStates
<1>2. /\ Off(x) \in [mode : Modes, ctx : Context, map : Maps]
      /\ Off(x).mode = "off" /\ Off(x).ctx = x.ctx /\ Off(x).map = x.map
  BY <1>1 DEF Off, Modes
<1> QED BY <1>1, <1>2 DEF HStates, View

\* The pictures up to the next IDR picture are those that are not expected any more.
LEMMA ExpectsOff ==
  ASSUME NEW s \in Seq(Headers), NEW x, NEW y, Expects(s, x, y)
  PROVE  \E z : Expects(s, Off(x), z) /\ (z = y \/ z = Off(y))
<1> DEFINE n == Len(s)
<1>1. n \in Nat /\ \A k \in 1 .. n : s[k] \in Headers
  OBVIOUS
<1>2. PICK f : Run(f, HeaderSteps, HStates, s, x, y)
  BY DEF Expects, Runs
<1> HIDE DEF n
<1>3. /\ f \in [0 .. n -> HStates] /\ f[0] = x /\ f[n] = y
      /\ \A k \in 1 .. n : <<s[k], f[k - 1], f[k]>> \in HeaderSteps
  BY <1>2 DEF Run, n
<1> DEFINE Again(k) == \E j \in 1 .. k : s[j].idr
           g == [k \in 0 .. n |-> IF Again(k) THEN f[k] ELSE Off(f[k])]
<1>4. \A k \in 0 .. n : /\ g[k] = IF Again(k) THEN f[k] ELSE Off(f[k])
                        /\ f[k] \in HStates /\ g[k] \in HStates /\ g[k].ctx = f[k].ctx
  <2> TAKE k \in 0 .. n
  <2>1. f[k] \in HStates
    BY <1>3
  <2> HIDE DEF Again
  <2>2. g[k] = IF Again(k) THEN f[k] ELSE Off(f[k])
    OBVIOUS
  <2>3. Off(f[k]) \in HStates /\ Off(f[k]).ctx = f[k].ctx
    BY <2>1, OffIsState
  <2> QED BY <2>1, <2>2, <2>3
<1>5. g \in [0 .. n -> HStates]
  <2> HIDE DEF Again
  <2>1. \A k \in 0 .. n : g[k] \in HStates
    BY <1>4
  <2> QED BY <2>1
<1> HIDE DEF g
<1>6. ASSUME NEW k \in 1 .. n PROVE <<s[k], g[k - 1], g[k]>> \in HeaderSteps
  <2> DEFINE j == k - 1
             h == s[k]
             a == f[j]
             b == f[k]
             a2 == g[j]
             b2 == g[k]
  <2>1. j \in 0 .. n /\ k \in 0 .. n /\ h \in Headers /\ j \in Nat /\ k = j + 1
    BY <1>1
  <2>2. <<h, a, b>> \in HeaderSteps
    BY <1>3
  <2>3. /\ a \in HStates /\ b \in HStates /\ a2 \in HStates /\ b2 \in HStates
        /\ a2.ctx = a.ctx /\ b2.ctx = b.ctx
        /\ a2 = (IF Again(j) THEN a ELSE Off(a)) /\ b2 = (IF Again(k) THEN b ELSE Off(b))
    <3> HIDE DEF Again
    <3> QED BY <1>4, <2>1
  <2>4. Again(k) <=> (Again(j) \/ h.idr)
    <3>1. \A i : i \in 1 .. k <=> (i \in 1 .. j \/ i = k)
      BY <2>1
    <3> QED BY <3>1
  <2> HIDE DEF h, a, b, a2, b2, Again
  <2>5. HeaderStep(h, a, b)
    BY <2>1, <2>2, <2>3, IsHeaderStep
  <2>6. HeaderStep(h, a2, b2)
    <3>1. CASE Again(j)
      BY <2>3, <2>4, <2>5, <3>1
    <3>2. CASE ~Again(j) /\ h.idr
      BY <2>3, <2>4, <2>5, <3>2 DEF HeaderStep
    <3>3. CASE ~Again(j) /\ ~h.idr
      <4>1. a2 = Off(a) /\ b2 = Off(b)
        BY <2>3, <2>4, <3>3
      <4>2. a2.mode = "off" /\ b2.mode = "off"
        BY <2>3, <4>1, OffIsState
      <4> QED BY <2>3, <2>5, <3>3, <4>2 DEF HeaderStep
    <3> QED BY <3>1, <3>2, <3>3
  <2>7. <<h, a2, b2>> \in HeaderSteps
    BY <2>1, <2>3, <2>6, IsHeaderStep
  <2> QED BY <2>7 DEF h, a2, b2
<1>7. g[0] = Off(x) /\ (g[n] = y \/ g[n] = Off(y))
  <2>1. 0 \in 0 .. n /\ n \in 0 .. n /\ ~Again(0)
    BY <1>1
  <2> HIDE DEF Again
  <2> QED BY <1>3, <1>4, <2>1
<1>8. Run(g, HeaderSteps, HStates, s, Off(x), g[n])
  BY <1>5, <1>6, <1>7 DEF Run, n
<1> QED BY <1>7, <1>8 DEF Expects, Runs

-----------------------------------------------------------------------------
(* The encoder sends *)

\* What the manager has after an IDR picture.
AfterIdrPicture(d, long) ==
  /\ Sound(d) /\ d.corrupted = FALSE /\ d.prev = 0
  /\ IF long THEN d.short = <<>> /\ d.long = <<[id |-> 0, num |-> 0, idx |-> 0]>> /\ d.maxIdx = 0
     ELSE d.short = <<[id |-> 0, num |-> 0, ghost |-> FALSE]>> /\ d.long = <<>> /\ d.maxIdx = NoIdx

LEMMA IdrContext ==
  ASSUME NEW c, Sound(c), NEW h \in Headers, h.idr, h.num = 0
  PROVE  AfterIdrPicture(PutPicture(c, h).ctx, h.longTerm)
<1> DEFINE r == MarkIdr(c, h)
           d == PutPicture(c, h).ctx
           f == FreshContext(c.strict)
<1>1. PutPicture(c, h) \in CompiledFrom(c, Headers)
  BY HeadersAreParsed, PutPictureCompiles
<1>2. Sound(d)
  <2> DEFINE q == PutPicture(c, h)
  <2> HIDE DEF q
  <2>1. q \in CompiledFrom(c, Headers) => Sound(q.ctx)
    BY CompiledFields
  <2> QED BY <1>1, <2>1 DEF q
<1>3. PutPicture(c, h) = AfterGap(h, <<>>, r)
  BY IdrPut
<1>4. h.marking = "idr"
  BY DEF Headers
<1>5. r.ok = TRUE
  BY DEF MarkIdr, Accepted
<1>6. \E X, Y : r = [ctx |-> X, instructions |-> Y, ok |-> TRUE] /\ X = r.ctx
  BY DEF MarkIdr, Accepted
<1>9. d = [r.ctx EXCEPT !.prev = 0]
  <2> DEFINE z == DropAll(h, <<>>)
  <2> HIDE DEF r, z
  <2>1. AfterGap(h, <<>>, r) = [r EXCEPT !.instructions = z \o @, !.ctx.prev = 0]
    BY <1>4, <1>5 DEF AfterGap, z
  <2>2. \A X, Y : [[ctx |-> X, instructions |-> Y, ok |-> TRUE] EXCEPT
                    !.instructions = z \o @, !.ctx.prev = 0].ctx = [X EXCEPT !.prev = 0]
    OBVIOUS
  <2>3. AfterGap(h, <<>>, r).ctx = [r.ctx EXCEPT !.prev = 0]
    BY <1>6, <2>1, <2>2
  <2> QED BY <1>3, <2>3
<1>10. h.longTerm \in BOOLEAN
  BY DEF Headers
<1>11. CASE h.longTerm
  <2> DEFINE l == <<[id |-> 0, num |-> 0, idx |-> 0]>>
  <2>1. r.ctx = [AddLong(f, 0, 0) EXCEPT !.maxIdx = 0]
    BY <1>11 DEF MarkIdr, Accepted
  <2>2. l = Append(<<>>, [id |-> 0, num |-> 0, idx |-> 0])
    OBVIOUS
  <2> HIDE DEF l
  <2>3. f = [short |-> <<>>, long |-> <<>>, nextId |-> 0, prev |-> 0, maxIdx |-> NoIdx,
             corrupted |-> FALSE, strict |-> c.strict]
    BY DEF FreshContext
  <2>4. AddLong(f, 0, 0) = [f EXCEPT !.long = l, !.nextId = 1]
    BY <2>2, <2>3 DEF AddLong
  <2>5. d = [[[f EXCEPT !.long = l, !.nextId = 1] EXCEPT !.maxIdx = 0] EXCEPT !.prev = 0]
    BY <1>9, <2>1, <2>4
  <2> HIDE DEF d, r, f
  <2>6. d.short = <<>> /\ d.long = l /\ d.maxIdx = 0 /\ d.corrupted = FALSE /\ d.prev = 0
    BY <2>3, <2>5
  <2> QED BY <1>2, <1>11, <2>6 DEF AfterIdrPicture, l, d
<1>12. CASE ~h.longTerm
  <2> DEFINE s == <<[id |-> 0, num |-> 0, ghost |-> FALSE]>>
  <2>1. r.ctx = AddShort(f, 0, FALSE)
    BY <1>12 DEF MarkIdr, Accepted
  <2>2. s = Append(<<>>, [id |-> 0, num |-> 0, ghost |-> FALSE])
    OBVIOUS
  <2> HIDE DEF s
  <2>3. f = [short |-> <<>>, long |-> <<>>, nextId |-> 0, prev |-> 0, maxIdx |-> NoIdx,
             corrupted |-> FALSE, strict |-> c.strict]
    BY DEF FreshContext
  <2>4. AddShort(f, 0, FALSE) = [f EXCEPT !.short = s, !.nextId = 1]
    BY <2>2, <2>3 DEF AddShort
  <2>5. d = [[f EXCEPT !.short = s, !.nextId = 1] EXCEPT !.prev = 0]
    BY <1>9, <2>1, <2>4
  <2> HIDE DEF d, r, f
  <2>6. d.short = s /\ d.long = <<>> /\ d.maxIdx = NoIdx /\ d.corrupted = FALSE /\ d.prev = 0
    BY <2>3, <2>5
  <2> QED BY <1>2, <1>12, <2>6 DEF AfterIdrPicture, s, d
<1> QED BY <1>11, <1>12

LEMMA IdrSim ==
  ASSUME MaxRefs >= 1, NEW e \in Encoder, ~e.uses.resets, NEW pic \in Pics, NEW long \in BOOLEAN,
         NEW map, map[0] = pic, NEW d, AfterIdrPicture(d, long)
  PROVE  Sim(map, AfterIdr(e, pic, long), d)
<1> DEFINE x == AfterIdr(e, pic, long)
           ref == [pic |-> pic, num |-> 0]
<1>1. /\ x.skipped = 0 /\ x.prev = 0
      /\ x.short = (IF long THEN <<>> ELSE <<ref>>) /\ x.long = (IF long THEN <<ref>> ELSE <<>>)
  BY DEF AfterIdr, FreshEncoder
<1>2. pic # Ghost /\ ref.pic = pic /\ ref.num = 0
  BY PicsAreNumbers
<1>3. Sound(d) /\ d.corrupted = FALSE /\ d.prev = 0
  BY DEF AfterIdrPicture
<1> HIDE DEF x, ref
<1>4. Agree(map, x.short, x.long, d)
  <2>1. \A q : SameShort(map, <<>>, <<>>) /\ SameLong(map, <<>>, <<>>)
    BY DEF SameShort, SameLong
  <2>2. CASE long
    <3> DEFINE l == [id |-> 0, num |-> 0, idx |-> 0]
    <3>1. x.short = <<>> /\ x.long = <<ref>> /\ d.short = <<>> /\ d.long = <<l>> /\ d.maxIdx = 0
      BY <1>1, <2>2 DEF AfterIdrPicture
    <3>2. l.idx = 0 /\ l.id = 0
      OBVIOUS
    <3> HIDE DEF l
    <3>3. \A a, b : Len(<<a>>) = 1 /\ <<a>>[1] = a /\ <<b>>[1] = b
      OBVIOUS
    <3>4. SameLong(map, <<ref>>, <<l>>)
      BY <1>2, <3>2, <3>3 DEF SameLong
    <3> QED BY <2>1, <3>1, <3>4 DEF Agree
  <2>3. CASE ~long
    <3> DEFINE l == [id |-> 0, num |-> 0, ghost |-> FALSE]
    <3>1. x.short = <<ref>> /\ x.long = <<>> /\ d.short = <<l>> /\ d.long = <<>> /\ d.maxIdx = NoIdx
      BY <1>1, <2>3 DEF AfterIdrPicture
    <3>2. ~l.ghost /\ l.id = 0 /\ l.num = 0
      OBVIOUS
    <3> HIDE DEF l
    <3>3. \A a, b : Len(<<a>>) = 1 /\ <<a>>[1] = a /\ <<b>>[1] = b
      OBVIOUS
    <3>4. SameShort(map, <<ref>>, <<l>>)
      BY <1>2, <3>2, <3>3 DEF SameShort
    <3> QED BY <2>1, <3>1, <3>4 DEF Agree
  <2> QED BY <2>2, <2>3
<1>5. Matches(map, x, d)
  BY <1>1, <1>3, <1>4 DEF Matches
<1>6. d.prev \in Nums
  BY <1>3, NumsAreNumbers
<1> QED BY <1>1, <1>3, <1>5, <1>6, SimStart DEF x

\* What the manager will have made of the pictures sent so far.
Ends(e, y) ==
  y \in HStates /\ (e.whole => y.mode # "lossy" /\ (y.mode = "on" => Sim(y.map, e, y.ctx)))

Sending(e, pic, o, y) ==
  /\ MaxRefs >= 1 /\ e \in Encoder /\ Orderly(e) /\ pic \in Pics /\ o \in Pictures(e, pic)
  /\ Ends(e, y)

Sends(o, y) == \E z \in HStates : HeaderStep(o.h, y, z) /\ Ends(o.enc, z)

LEMMA IdrSends ==
  ASSUME NEW e, NEW pic, NEW o, NEW y, Sending(e, pic, o, y), o \in IdrPictures(e, pic)
  PROVE  Sends(o, y)
<1> USE DEF Sending
<1>1. PICK long \in BOOLEAN : o.h = IdrHeader(e, pic, long) /\ o.enc = AfterIdr(e, pic, long)
  BY IdrPicturesAre
<1> DEFINE h == o.h
           d == PutPicture(y.ctx, h).ctx
           map == [y.map EXCEPT ![0] = pic]
           z == [mode |-> "on", ctx |-> d, map |-> map]
<1>2. h \in Headers /\ h.idr /\ h.num = 0 /\ h.pic = pic /\ h.longTerm = long
  BY <1>1, PicturesType DEF IdrHeader
<1>3. Sound(y.ctx) /\ y.map \in Maps
  BY StateFields DEF Ends
<1>4. map \in Maps /\ map[0] = pic
  BY <1>3 DEF Maps
<1> HIDE DEF h
<1>5. AfterIdrPicture(d, long)
  BY <1>2, <1>3, IdrContext
<1>6. PutPicture(y.ctx, h) \in CompiledFrom(y.ctx, Headers)
  BY <1>2, <1>3, HeadersAreParsed, PutPictureCompiles
<1>7. Sound(d) /\ d.strict = y.ctx.strict /\ d \in Context
  <2> DEFINE q == PutPicture(y.ctx, h)
  <2> HIDE DEF q
  <2>1. q \in CompiledFrom(y.ctx, Headers) => Sound(q.ctx) /\ q.ctx.strict = y.ctx.strict
    BY CompiledFields
  <2>2. Sound(d) /\ d.strict = y.ctx.strict
    BY <1>6, <2>1 DEF q
  <2> QED BY <2>2 DEF Sound
<1> HIDE DEF d, map
<1>8. z \in HStates /\ z.mode = "on" /\ z.ctx = d /\ z.map = map
  BY <1>4, <1>7 DEF HStates, Modes
<1> HIDE DEF z
<1>9. HeaderStep(h, y, z)
  BY <1>2, <1>4, <1>7, <1>8 DEF HeaderStep, d
<1>10. Sim(map, AfterIdr(e, pic, long), d)
  BY <1>4, <1>5, IdrSim DEF Orderly
<1>11. Ends(o.enc, z)
  BY <1>1, <1>8, <1>10 DEF Ends
<1> QED BY <1>8, <1>9, <1>11 DEF Sends, h

\* The next picture is accepted, and decoded as it was encoded.
Advances(h, y, z) ==
  /\ z \in HStates /\ y.mode = "on" /\ z.mode = "on" /\ z.ctx.strict = y.ctx.strict
  /\ PutPicture(y.ctx, h).ok /\ z.ctx = PutPicture(y.ctx, h).ctx
  /\ Exactly(PutPicture(y.ctx, h).instructions, View(y), View(z))

Advancing(e, pic, p, m, y) == y \in HStates /\ y.mode = "on" /\ Sent(y.map, e, y.ctx, pic, p, m)

LEMMA PictureAdvances ==
  ASSUME NEW e, NEW pic, NEW p, NEW m, NEW y, Advancing(e, pic, p, m, y),
         NEW h \in Headers, h = HeaderOf(e, pic, p, m)
  PROVE  \E z : Advances(h, y, z) /\ Sim(z.map, Marked(e, m), z.ctx)
<1> DEFINE c == y.ctx
           map == y.map
           r == PutPicture(c, h)
           d == FillGap(c, h).ctx
           map2 == [map EXCEPT ![d.nextId] = h.pic]
           z == [mode |-> "on", ctx |-> r.ctx, map |-> map2]
<1>1. /\ y \in HStates /\ y.mode = "on" /\ Sent(map, e, c, pic, p, m)
      /\ c \in Context /\ Sound(c) /\ map \in Maps
  BY StateFields DEF Advancing
<1>2. Delivered(map, e, c, m, h)
  BY <1>1, PictureRight
<1>3. /\ r.ok = TRUE /\ map2 \in Maps /\ Sim(map2, Marked(e, m), r.ctx)
      /\ \E refs, pre, post : Decodes(map, c, h, d, refs, pre, post, r.instructions)
  BY <1>2 DEF Delivered, Maps
<1>4. PICK refs, pre, post : Decodes(map, c, h, d, refs, pre, post, r.instructions)
  BY <1>3
<1>5. r \in CompiledFrom(c, Headers)
  BY <1>1, HeadersAreParsed, PutPictureCompiles
<1> HIDE DEF r, d, map2
<1>6. Sound(r.ctx) /\ r.ctx.strict = c.strict /\ Leads(r.instructions, Refs(c), Refs(r.ctx)) /\ r.ctx \in Context
  <2>1. Sound(r.ctx) /\ r.ctx.strict = c.strict /\ Leads(r.instructions, Refs(c), Refs(r.ctx))
    BY <1>3, <1>5, CompiledFields
  <2> QED BY <2>1 DEF Sound
<1> DEFINE ins == r.instructions
           after == Refs(r.ctx)
<1> HIDE DEF ins, after
<1>7. ExactFrom(map, map2, c, h, d, refs, pre, post, ins, after)
  BY <1>1, <1>3, <1>4, <1>6 DEF ExactFrom, ins, after, map2
<1>8. Exactly(ins, On(Refs(c), map), On(after, map2))
  BY <1>7, PictureExact
<1>9. z \in HStates /\ z.mode = "on" /\ z.ctx = r.ctx /\ z.map = map2
  BY <1>3, <1>6 DEF HStates, Modes
<1> HIDE DEF z
<1>10. View(y) = On(Refs(c), map) /\ View(z) = On(after, map2)
  BY <1>1, <1>9 DEF View, On, after
<1>11. Exactly(PutPicture(y.ctx, h).instructions, View(y), View(z))
  BY <1>8, <1>10 DEF ins, r
<1>12. PutPicture(y.ctx, h).ok /\ z.ctx = PutPicture(y.ctx, h).ctx
  BY <1>3, <1>9 DEF r
<1>13. Advances(h, y, z)
  BY <1>1, <1>6, <1>9, <1>11, <1>12 DEF Advances
<1>14. Sim(z.map, Marked(e, m), z.ctx)
  BY <1>3, <1>9
<1> QED BY <1>13, <1>14

LEMMA OthersSend ==
  ASSUME NEW e, NEW pic, NEW o, NEW y, Sending(e, pic, o, y), o \in OtherPictures(e, pic), CanGoOn(e)
  PROVE  Sends(o, y)
<1> USE DEF Sending
<1>1. PICK p \in Predictions(e.short, e.long, NextNum(e)), m \in LegalMarkings(e, pic) :
        o = [h |-> HeaderOf(e, pic, p, m), enc |-> Marked(e, m)]
  BY DEF OtherPictures
<1> DEFINE h == o.h
<1>2. h = HeaderOf(e, pic, p, m) /\ o.enc = Marked(e, m)
  BY <1>1
<1>3. h \in Headers /\ ~h.idr /\ h.whole = e.whole
  BY <1>2, OtherPicturesType DEF HeaderOf
<1>4. y \in HStates /\ y.mode \in Modes /\ y.ctx \in Context /\ Sound(y.ctx) /\ y.map \in Maps
  BY StateFields DEF Ends
<1>5. o.enc.whole = e.whole
  <2>1. e \in Encoder
    OBVIOUS
  <2> QED BY <1>2, <2>1 DEF Marked, Encoder
<1> HIDE DEF h
<1>6. CASE y.mode = "off"
  <2>1. HeaderStep(h, y, y)
    BY <1>3, <1>6 DEF HeaderStep
  <2>2. Ends(o.enc, y)
    BY <1>4, <1>6 DEF Ends
  <2> QED BY <1>4, <2>1, <2>2 DEF Sends, h
<1>7. CASE y.mode # "off" /\ ~e.whole
  <2> DEFINE z == [mode |-> "lossy", ctx |-> y.ctx, map |-> y.map]
  <2>1. z \in HStates /\ z.mode = "lossy" /\ z.ctx = y.ctx
    BY <1>4 DEF HStates, Modes
  <2> HIDE DEF z
  <2>2. HeaderStep(h, y, z)
    BY <1>3, <1>7, <2>1 DEF HeaderStep
  <2>3. Ends(o.enc, z)
    BY <1>5, <1>7, <2>1 DEF Ends
  <2> QED BY <2>1, <2>2, <2>3 DEF Sends, h
<1>8. CASE y.mode # "off" /\ e.whole
  <2>1. y.mode = "on" /\ Sim(y.map, e, y.ctx)
    BY <1>4, <1>8 DEF Ends, Modes
  <2>2. Advancing(e, pic, p, m, y)
    BY <1>4, <2>1 DEF Advancing, Sent, Maps
  <2>3. PICK z : Advances(h, y, z) /\ Sim(z.map, Marked(e, m), z.ctx)
    BY <1>2, <1>3, <2>2, PictureAdvances
  <2>4. /\ z \in HStates /\ z.mode = "on" /\ z.ctx.strict = y.ctx.strict
        /\ PutPicture(y.ctx, h).ok /\ z.ctx = PutPicture(y.ctx, h).ctx
        /\ Exactly(PutPicture(y.ctx, h).instructions, View(y), View(z))
    BY <2>3 DEF Advances
  <2> DEFINE ins == PutPicture(y.ctx, h).instructions
  <2>5. AllOf(ins, h) /\ ins \in Seq(Instructions(Headers))
    BY <1>3, <1>4, <2>4, OthersForm
  <2>6. Shows(ins, View(y), View(z))
    <3> HIDE DEF ins
    <3>1. Exactly(ins, View(y), View(z))
      BY <2>4 DEF ins
    <3> QED BY <1>3, <1>8, <2>5, <3>1, ExactlyShows
  <2>7. HeaderStep(h, y, z)
    BY <1>3, <1>8, <2>1, <2>4, <2>6 DEF HeaderStep
  <2>8. Ends(o.enc, z)
    BY <1>2, <2>3, <2>4 DEF Ends
  <2> QED BY <2>4, <2>7, <2>8 DEF Sends, h
<1> QED BY <1>6, <1>7, <1>8

LEMMA PictureSends ==
  ASSUME NEW e, NEW pic, NEW o, NEW y, Sending(e, pic, o, y)
  PROVE  Sends(o, y) /\ Orderly(o.enc)
<1> USE DEF Sending
<1>1. CASE o \in IdrPictures(e, pic)
  <2>1. PICK long \in BOOLEAN : o.h = IdrHeader(e, pic, long) /\ o.enc = AfterIdr(e, pic, long)
    BY <1>1, IdrPicturesAre
  <2>2. Orderly(o.enc)
    BY <2>1, IdrIsOrderly DEF Orderly
  <2> QED BY <1>1, <2>2, IdrSends
<1>2. CASE o \in OtherPictures(e, pic) /\ CanGoOn(e)
  <2>1. PICK p \in Predictions(e.short, e.long, NextNum(e)), m \in LegalMarkings(e, pic) :
          o = [h |-> HeaderOf(e, pic, p, m), enc |-> Marked(e, m)]
    BY <1>2 DEF OtherPictures
  <2>2. Orderly(o.enc)
    BY <1>2, <2>1, MarkedIsOrderly
  <2> QED BY <1>2, <2>2, OthersSend
<1>3. o \in IdrPictures(e, pic) \/ (o \in OtherPictures(e, pic) /\ CanGoOn(e))
  BY DEF Pictures
<1> QED BY <1>1, <1>2, <1>3

LEMMA LossIsOrderly ==
  ASSUME NEW e \in Encoder, Orderly(e), NEW pic \in Pics, NEW x \in Losses(e, pic)
  PROVE  Orderly(x) /\ x.whole = FALSE
<1>1. PICK o \in OtherPictures(e, pic) : CanGoOn(e) /\ x = [o.enc EXCEPT !.whole = FALSE, !.lost = @ + 1]
  BY DEF Losses
<1>2. PICK p \in Predictions(e.short, e.long, NextNum(e)), m \in LegalMarkings(e, pic) :
        o = [h |-> HeaderOf(e, pic, p, m), enc |-> Marked(e, m)]
  BY <1>1 DEF OtherPictures
<1> DEFINE y == o.enc
<1>3. Orderly(y) /\ y \in Encoder
  BY <1>1, <1>2, MarkedIsOrderly, OtherPicturesType
<1>4. x = [y EXCEPT !.whole = FALSE, !.lost = y.lost + 1]
  BY <1>1
<1> HIDE DEF y
<1>5. x.short = y.short /\ x.long = y.long /\ x.prev = y.prev /\ x.skipped = y.skipped /\ x.uses = y.uses
      /\ x.whole = FALSE
  BY <1>3, <1>4 DEF Encoder
<1> QED BY <1>3, <1>5, OrderlyStays

\* The handling of corrupted states does not change.
LEMMA ExpectsStrict ==
  ASSUME NEW s \in Seq(Headers), NEW x, NEW y, Expects(s, x, y)
  PROVE  x \in HStates /\ y \in HStates /\ y.ctx.strict = x.ctx.strict
<1> DEFINE n == Len(s)
<1>1. n \in Nat /\ n \in 0 .. n /\ 0 \in 0 .. n
  OBVIOUS
<1>2. PICK f : Run(f, HeaderSteps, HStates, s, x, y)
  BY DEF Expects, Runs
<1>3. /\ f \in [0 .. n -> HStates] /\ f[0] = x /\ f[n] = y
      /\ \A k \in 1 .. n : <<s[k], f[k - 1], f[k]>> \in HeaderSteps
  BY <1>2 DEF Run
<1> DEFINE S == {k \in Nat : k <= n => f[k].ctx.strict = x.ctx.strict}
<1>4. 0 \in S
  BY <1>3
<1>5. ASSUME NEW j \in Nat, j \in S PROVE j + 1 \in S
  <2> SUFFICES ASSUME j + 1 <= n PROVE f[j + 1].ctx.strict = x.ctx.strict
    OBVIOUS
  <2> DEFINE k == j + 1
             h == s[k]
             a == f[j]
             b == f[k]
  <2>1. k \in 1 .. n /\ k - 1 = j /\ j \in 0 .. n /\ k \in 0 .. n /\ j <= n
    BY <1>1
  <2>2. a.ctx.strict = x.ctx.strict
    BY <1>5, <2>1
  <2>3. a \in HStates /\ b \in HStates /\ <<h, a, b>> \in HeaderSteps /\ h \in Headers
    <3>1. h \in Headers
      BY <1>1, <2>1 DEF n
    <3>2. <<s[k], f[k - 1], f[k]>> \in HeaderSteps
      BY <1>3, <2>1
    <3> QED BY <1>3, <2>1, <3>1, <3>2
  <2> HIDE DEF h, a, b
  <2>4. HeaderStep(h, a, b)
    BY <2>3, IsHeaderStep
  <2>5. b.ctx.strict = x.ctx.strict
    BY <2>2, <2>4 DEF HeaderStep
  <2> QED BY <2>5 DEF b
<1>6. n \in S
  <2> HIDE DEF S
  <2>1. Nat \subseteq S
    BY <1>4, <1>5, AllNumbers
  <2> QED BY <1>1, <2>1
<1>7. x \in HStates /\ y \in HStates
  BY <1>1, <1>3
<1> QED BY <1>3, <1>6, <1>7

-----------------------------------------------------------------------------
(* The stream, the manager and the buffer *)

\* What the buffer holds while the stream is followed.
Holds(v) ==
  following => /\ v.mode # "off"
               /\ v.mode = "on" => /\ DOMAIN slotOf = v.ids
                                   /\ \A id \in v.ids : content[slotOf[id]] = v.map[id]

(* The instructions to execute lead from v to what the manager has, and    *)
(* the access units in the splitters from there to what the encoder has.   *)
Tracked(v, x, y) ==
  /\ v \in Views /\ x \in HStates
  /\ Fits(ctx, x) /\ Holds(v) /\ Shows(todo, v, View(x))
  /\ Expects(buffered, x, y) /\ Ends(enc, y)

Track == Orderly(enc) /\ \E v, x, y : Tracked(v, x, y)

\* Between two events.
LEMMA TrackedBetween ==
  ASSUME todo = <<>>, NEW v, NEW x, NEW y, Tracked(v, x, y)
  PROVE  v = View(x)
<1>1. Shows(<<>>, v, View(x))
  BY DEF Tracked
<1> QED BY <1>1, NothingRunsBack DEF Shows

LEMMA OffEnds ==
  ASSUME NEW e, NEW y, Ends(e, y), NEW z, z = y \/ z = Off(y)
  PROVE  Ends(e, z)
<1>1. y \in HStates
  BY DEF Ends
<1>2. Off(y) \in HStates /\ Off(y).mode = "off"
  BY <1>1, OffIsState
<1> QED BY <1>2 DEF Ends

\* An event of the first n of the access units, which are those that are expected.
Event(held, n, x, y) ==
  /\ StreamTypes /\ decodeFailed \in BOOLEAN
  /\ held \in Seq(Headers) /\ n \in 0 .. Len(held)
  /\ Fits(ctx, x) /\ Holds(View(x)) /\ Expects(held, x, y)
  /\ ProcessEvent(SubSeq(held, 1, n))
  /\ buffered' = SubSeq(held, n + 1, Len(held)) /\ Ends(enc', y)

\* Where the event starts, when an earlier command may have failed.
LEMMA EventStarts ==
  ASSUME NEW held, NEW n, NEW x, NEW y, Event(held, n, x, y)
  PROVE  \E a, b : /\ Fits(From, a) /\ Expects(held, a, b) /\ Ends(enc', b)
                   /\ ~decodeFailed => a = x
                   /\ a.ctx.strict = ctx.strict
<1> USE DEF Event
<1>1. x \in HStates /\ Sound(ctx) /\ ctx.strict = x.ctx.strict
  BY ExpectsStrict DEF StreamTypes, Fits
<1>2. CASE ~decodeFailed
  BY <1>1, <1>2 DEF From
<1>3. CASE decodeFailed
  <2>1. PICK b : Expects(held, Off(x), b) /\ (b = y \/ b = Off(y))
    BY ExpectsOff
  <2>2. Ends(enc', b)
    BY <2>1, OffEnds
  <2>3. Off(x).mode = "off" /\ Off(x).ctx = x.ctx
    BY <1>1, OffIsState
  <2>4. Sound(From) /\ From.strict = ctx.strict
    BY <1>1, FromIsSound
  <2>5. Fits(From, Off(x))
    BY <1>1, <2>3, <2>4 DEF Fits
  <2> QED BY <1>1, <1>3, <2>1, <2>2, <2>3, <2>5
<1> QED BY <1>2, <1>3

LEMMA EventTracked ==
  ASSUME NEW held, NEW n, NEW x, NEW y, Event(held, n, x, y)
  PROVE  \E v, a, b : Tracked(v, a, b)'
<1> DEFINE aus  == SubSeq(held, 1, n)
           rest == SubSeq(held, n + 1, Len(held))
           r    == Compile(From, aus)
<1>1. /\ StreamTypes /\ held \in Seq(Headers) /\ n \in 0 .. Len(held)
      /\ ProcessEvent(aus) /\ buffered' = rest
  BY DEF Event
<1>2. aus \in Seq(Headers) /\ rest \in Seq(Headers)
  <2>1. Len(held) \in Nat /\ n \in Nat /\ n <= Len(held)
    BY <1>1
  <2> QED BY <1>1, <2>1
<1>3. PICK p, q : /\ Fits(From, p) /\ Expects(held, p, q) /\ Ends(enc', q)
                  /\ ~decodeFailed => p = x
                  /\ p.ctx.strict = ctx.strict
  BY EventStarts
<1>4. PICK z \in HStates : Expects(aus, p, z) /\ Expects(rest, z, q)
  <2> HIDE DEF aus, rest
  <2>1. Runs(HeaderSteps, HStates, held, p, q)
    BY <1>3 DEF Expects
  <2>2. \E z \in HStates : /\ Runs(HeaderSteps, HStates, SubSeq(held, 1, n), p, z)
                           /\ Runs(HeaderSteps, HStates, SubSeq(held, n + 1, Len(held)), z, q)
    BY <1>1, <2>1, RunsSplit
  <2> QED BY <2>2 DEF Expects, aus, rest
<1> HIDE DEF aus, rest
<1>5. p \in HStates /\ z.ctx.strict = p.ctx.strict
  BY <1>2, <1>4, ExpectsStrict
<1>6. /\ todo = <<>> /\ ctx' = r.ctx /\ todo' = r.instructions
      /\ following' = (following /\ ~decodeFailed /\ r.ok)
      /\ slotOf' = slotOf /\ content' = content
      /\ Sound(r.ctx) /\ r.ctx.strict = ctx.strict
      /\ ~r.ok => r.instructions = <<>>
  BY <1>1, <1>2, EventCompiles
<1>7. CASE r.ok
  <2> DEFINE v == View(p)
  <2>1. Compiling(From, aus, p, z)
    BY <1>2, <1>3, <1>4, <1>7 DEF Compiling
  <2>2. Compiled(From, aus, p, z)
    BY <2>1, CompileShows
  <2>3. Shows(r.instructions, v, View(z)) /\ Fits(r.ctx, z)
    BY <2>2 DEF Compiled
  <2> HIDE DEF r
  <2>4. v \in Views
    BY <1>5, StateFields
  <2>5. Holds(v)'
    <3>1. CASE following'
      <4>1. following /\ p = x
        BY <1>3, <1>6, <3>1
      <4>2. Holds(v)
        BY <4>1 DEF Event
      <4> QED BY <1>6, <3>1, <4>1, <4>2 DEF Holds
    <3>2. CASE ~following'
      BY <3>2 DEF Holds
    <3> QED BY <3>1, <3>2
  <2> HIDE DEF v
  <2>6. Tracked(v, z, q)'
    BY <1>1, <1>3, <1>4, <1>6, <2>3, <2>4, <2>5 DEF Tracked
  <2> QED BY <2>6
<1>8. CASE ~r.ok
  <2> DEFINE w == Off(z)
             v == View(w)
  <2> HIDE DEF r
  <2>1. w \in HStates /\ w.mode = "off" /\ w.ctx = z.ctx
    BY OffIsState
  <2>2. PICK b : Expects(rest, w, b) /\ (b = q \/ b = Off(q))
    BY <1>2, <1>4, ExpectsOff
  <2>3. Ends(enc', b)
    BY <1>3, <2>2, OffEnds
  <2> HIDE DEF w
  <2>4. v \in Views
    BY <2>1, StateFields
  <2>5. Shows(todo', v, View(w))
    <3>1. todo' = <<>>
      BY <1>6, <1>8
    <3>2. Shows(<<>>, v, v)
      BY <2>4, NothingRuns DEF Shows
    <3> QED BY <3>1, <3>2
  <2>6. Fits(ctx', w)
    BY <1>3, <1>5, <1>6, <2>1 DEF Fits
  <2>7. Holds(v)'
    <3>1. ~following'
      BY <1>6, <1>8
    <3> QED BY <3>1 DEF Holds
  <2> HIDE DEF v
  <2>8. Tracked(v, w, b)'
    <3>1. v \in Views /\ w \in HStates
      BY <2>1, <2>4
    <3>2. Shows(todo', v, View(w))
      BY <2>5 DEF v
    <3> QED BY <1>1, <2>2, <2>3, <2>6, <2>7, <3>1, <3>2 DEF Tracked
  <2> QED BY <2>8
<1> QED BY <1>7, <1>8

-----------------------------------------------------------------------------
(* The steps keep track *)

LEMMA InitTracked ==
  ASSUME \A s \in Scenarios : ~s.uses.resets, Init
  PROVE  Track
<1>1. /\ StreamTypes /\ scenario \in Scenarios /\ enc = FreshEncoder(scenario.uses)
      /\ ctx = FreshContext(scenario.strict) /\ buffered = <<>> /\ todo = <<>> /\ ~following
  BY InitTypes DEF Init
<1>2. scenario.uses \in Features /\ ~scenario.uses.resets /\ Sound(ctx) /\ ctx \in Context
  BY <1>1, DecoderAssumption DEF StreamTypes, Sound
<1>3. Orderly(enc)
  BY <1>1, <1>2, FreshIsOrderly
<1> DEFINE map == [n \in Nat |-> 1]
           x == [mode |-> "off", ctx |-> ctx, map |-> map]
           v == View(x)
<1>4. map \in Maps
  BY EncoderAssumption DEF Maps, Pics
<1> HIDE DEF map
<1>5. x \in HStates /\ x.mode = "off" /\ x.ctx = ctx
  BY <1>2, <1>4 DEF HStates, Modes
<1> HIDE DEF x
<1>6. v \in Views
  BY <1>5, StateFields
<1>7. Expects(<<>>, x, x) /\ Shows(<<>>, v, v)
  BY <1>5, <1>6, NothingRuns DEF Expects, Shows
<1>8. Ends(enc, x) /\ Fits(ctx, x) /\ Holds(v)
  BY <1>1, <1>2, <1>5 DEF Ends, Fits, Holds
<1>9. Tracked(v, x, x)
  <2>1. Shows(todo, v, View(x)) /\ Expects(buffered, x, x)
    BY <1>1, <1>7
  <2> QED BY <1>5, <1>6, <1>8, <2>1 DEF Tracked
<1> QED BY <1>3, <1>9 DEF Track

LEMMA DecodeChunkTracked ==
  ASSUME MaxRefs >= 1, StreamTypes, BufferTypes, Track, DecodeChunk
  PROVE  Track'
<1>1. PICK pic \in FreshPics : \E o \in Pictures(enc, pic) :
        LET held == Append(buffered, o.h)
            out  == IF Len(held) > MaxDelay THEN 1 ELSE 0
        IN  /\ ProcessEvent(SubSeq(held, 1, out))
            /\ buffered' = SubSeq(held, out + 1, Len(held))
            /\ enc' = o.enc
  BY DEF DecodeChunk
<1>2. PICK o \in Pictures(enc, pic) :
        LET held == Append(buffered, o.h)
            out  == IF Len(held) > MaxDelay THEN 1 ELSE 0
        IN  /\ ProcessEvent(SubSeq(held, 1, out))
            /\ buffered' = SubSeq(held, out + 1, Len(held))
            /\ enc' = o.enc
  BY <1>1
<1> DEFINE h    == o.h
           held == Append(buffered, h)
           out  == IF Len(held) > MaxDelay THEN 1 ELSE 0
<1>3. /\ ProcessEvent(SubSeq(held, 1, out))
      /\ buffered' = SubSeq(held, out + 1, Len(held)) /\ enc' = o.enc
  BY <1>2
<1>4. pic \in Pics /\ h \in Headers /\ enc \in Encoder
  BY FreshPicIsPic, PicturesType DEF StreamTypes
<1> HIDE DEF h
<1>5. PICK v, x, y : Tracked(v, x, y)
  BY DEF Track
<1>6. Sending(enc, pic, o, y)
  BY <1>4, <1>5 DEF Sending, Track, Tracked
<1>7. Sends(o, y) /\ Orderly(o.enc)
  BY <1>6, PictureSends
<1>8. PICK z \in HStates : HeaderStep(h, y, z) /\ Ends(o.enc, z)
  BY <1>7 DEF Sends, h
<1>9. buffered \in Seq(Headers) /\ y \in HStates /\ Expects(buffered, x, y)
  BY <1>5 DEF StreamTypes, Tracked, Ends
<1>10. Expects(held, x, z)
  <2> DEFINE one == <<h>>
  <2>1. held = buffered \o one /\ one \in Seq(Headers)
    BY <1>4, <1>9
  <2>2. <<h, y, z>> \in HeaderSteps
    BY <1>4, <1>8, <1>9, IsHeaderStep
  <2>3. Runs(HeaderSteps, HStates, one, y, z)
    BY <1>8, <1>9, <2>2, OneRuns
  <2> HIDE DEF one, held
  <2>4. Runs(HeaderSteps, HStates, buffered \o one, x, z)
    BY <1>9, <2>1, <2>3, RunsOn DEF Expects
  <2> QED BY <2>1, <2>4 DEF Expects
<1>11. held \in Seq(Headers) /\ out \in 0 .. Len(held)
  BY <1>4, <1>9, ChunkSplit DEF StreamTypes
<1> HIDE DEF held, out
<1>12. todo = <<>>
  BY <1>3 DEF ProcessEvent
<1>13. Holds(View(x)) /\ Fits(ctx, x)
  BY <1>5, <1>12, TrackedBetween DEF Tracked
<1>14. Event(held, out, x, z)
  BY <1>3, <1>8, <1>10, <1>11, <1>13 DEF Event, BufferTypes
<1>15. \E a, b, c : Tracked(a, b, c)'
  BY <1>14, EventTracked
<1>16. Orderly(enc')
  BY <1>3, <1>7
<1> QED BY <1>15, <1>16 DEF Track

LEMMA FlushTracked ==
  ASSUME StreamTypes, BufferTypes, Track, Flush
  PROVE  Track'
<1>1. ProcessEvent(buffered) /\ buffered' = <<>> /\ enc' = enc /\ todo = <<>>
  BY DEF Flush, ProcessEvent
<1>2. PICK v, x, y : Tracked(v, x, y)
  BY DEF Track
<1> DEFINE n == Len(buffered)
<1>3. \A q \in Seq(Headers) : /\ Len(q) \in 0 .. Len(q) /\ SubSeq(q, 1, Len(q)) = q
                             /\ SubSeq(q, Len(q) + 1, Len(q)) = <<>>
  OBVIOUS
<1>4. /\ buffered \in Seq(Headers) /\ n \in 0 .. Len(buffered) /\ SubSeq(buffered, 1, n) = buffered
      /\ SubSeq(buffered, n + 1, n) = <<>>
  BY <1>3 DEF StreamTypes
<1>5. Holds(View(x)) /\ Fits(ctx, x) /\ Expects(buffered, x, y) /\ Ends(enc, y)
  BY <1>1, <1>2, TrackedBetween DEF Tracked
<1>6. Event(buffered, n, x, y)
  BY <1>1, <1>4, <1>5 DEF Event, BufferTypes
<1> HIDE DEF n
<1>7. \E a, b, c : Tracked(a, b, c)'
  BY <1>6, EventTracked
<1>8. Orderly(enc')
  BY <1>1 DEF Track
<1> QED BY <1>7, <1>8 DEF Track

LEMMA LosePictureTracked ==
  ASSUME StreamTypes, Track, LosePicture
  PROVE  Track'
<1>1. /\ todo = <<>> /\ todo' = todo /\ buffered' = buffered /\ slotOf' = slotOf /\ content' = content
      /\ \/ ctx' = ctx /\ following' = following
         \/ ctx' = [ctx EXCEPT !.corrupted = TRUE] /\ following' = FALSE
  BY DEF LosePicture, dpbVars
<1>2. PICK pic \in FreshPics : enc' \in Losses(enc, pic)
  BY DEF LosePicture
<1>3. Orderly(enc') /\ enc'.whole = FALSE
  BY <1>2, FreshPicIsPic, LossIsOrderly DEF StreamTypes, Track
<1>4. PICK v, x, y : Tracked(v, x, y)
  BY DEF Track
<1>5. v \in Views /\ x \in HStates /\ y \in HStates /\ Sound(ctx) /\ Fits(ctx, x)
  BY <1>4 DEF Tracked, Ends, StreamTypes
<1>6. \A z \in HStates : Ends(enc', z)
  BY <1>3 DEF Ends
<1>7. CASE ctx' = ctx /\ following' = following
  <2>1. Holds(v)'
    BY <1>1, <1>4, <1>7 DEF Tracked, Holds
  <2>2. Tracked(v, x, y)'
    BY <1>1, <1>4, <1>5, <1>6, <1>7, <2>1 DEF Tracked
  <2> QED BY <1>3, <2>2 DEF Track
<1>8. CASE ctx' = [ctx EXCEPT !.corrupted = TRUE] /\ following' = FALSE
  <2> DEFINE w == Off(x)
             u == View(w)
  <2>1. w \in HStates /\ w.mode = "off" /\ w.ctx = x.ctx
    BY <1>5, OffIsState
  <2>2. PICK b : Expects(buffered, w, b) /\ (b = y \/ b = Off(y))
    BY <1>4, ExpectsOff DEF Tracked, StreamTypes
  <2>3. b \in HStates
    BY <1>5, <2>2, OffIsState
  <2> HIDE DEF w
  <2>4. u \in Views
    BY <2>1, StateFields
  <2>5. Shows(todo', u, u)
    BY <1>1, <2>4, NothingRuns DEF Shows
  <2>6. Fits(ctx', w)
    <3>1. Sound(ctx') /\ ctx'.strict = ctx.strict
      BY <1>5, <1>8, CorruptedSound
    <3> QED BY <1>5, <2>1, <3>1 DEF Fits
  <2>7. Holds(u)'
    BY <1>8 DEF Holds
  <2> HIDE DEF u
  <2>8. Tracked(u, w, b)'
    <3>1. Shows(todo', u, View(w))
      BY <2>5 DEF u
    <3> QED BY <1>1, <1>6, <2>1, <2>2, <2>3, <2>4, <2>6, <2>7, <3>1 DEF Tracked
  <2> QED BY <1>3, <2>8 DEF Track
<1> QED BY <1>1, <1>7, <1>8

LEMMA SkipPictureTracked ==
  ASSUME MaxRefs >= 1, StreamTypes, Track, SkipPicture
  PROVE  Track'
<1>1. /\ CanSkip(enc) /\ enc' = Skipped(enc)
      /\ UNCHANGED <<buffered, ctx, todo, slotOf, content, following>>
  BY DEF SkipPicture, dpbVars
<1>2. enc \in Encoder /\ Orderly(enc)
  BY DEF StreamTypes, Track
<1>3. Orderly(enc') /\ enc'.whole = enc.whole
  BY <1>1, <1>2, SkippedIsOrderly, SkippedType
<1>4. PICK v, x, y : Tracked(v, x, y)
  BY DEF Track
<1>5. Ends(enc', y)
  <2>1. Ends(enc, y)
    BY <1>4 DEF Tracked
  <2>2. CASE enc.whole /\ y.mode = "on"
    <3>1. Sim(y.map, enc, y.ctx)
      BY <2>1, <2>2 DEF Ends
    <3>2. Sim(y.map, enc', y.ctx)
      BY <1>1, <1>2, <3>1, SkippedSim
    <3> QED BY <2>1, <2>2, <3>2 DEF Ends
  <2>3. CASE ~(enc.whole /\ y.mode = "on")
    BY <1>3, <2>1, <2>3 DEF Ends
  <2> QED BY <2>2, <2>3
<1>6. Holds(v)'
  BY <1>1, <1>4 DEF Tracked, Holds
<1>7. Tracked(v, x, y)'
  BY <1>1, <1>4, <1>5, <1>6 DEF Tracked
<1> QED BY <1>3, <1>7 DEF Track

LEMMA UnchangedTracked ==
  ASSUME Track, ResultKnown \/ UNCHANGED vars
  PROVE  Track'
<1>1. UNCHANGED <<enc, buffered, ctx, todo, slotOf, content, following>>
  BY DEF ResultKnown, vars, dpbVars
<1>2. PICK v, x, y : Tracked(v, x, y)
  BY DEF Track
<1>3. Tracked(v, x, y)'
  BY <1>1, <1>2 DEF Tracked, Holds
<1> QED BY <1>1, <1>3 DEF Track

\* An instruction is executed, or ends the event.
DoneOrAbandoned(w) ==
  \/ todo' = <<>> /\ following' = FALSE
  \/ todo' = Tail(todo) /\ Holds(w)'

\* What DoDecode leaves.
Stored(i, used, map, pics, slot) ==
  /\ todo' = Tail(todo) /\ (following' => (following \/ i.op = "Idr") /\ i.of.whole)
  /\ DOMAIN slotOf' = DOMAIN map \cup {i.id}
  /\ \A id \in DOMAIN slotOf' : slotOf'[id] = IF id = i.id THEN slot ELSE map[id]
  /\ \A s \in Slots : content'[s] = IF s = slot THEN i.of.pic ELSE pics[s]

StoredOrNot(i, used, map, pics) ==
  \/ todo' = <<>> /\ following' = FALSE
  \/ \E slot \in Slots \ used : Stored(i, used, map, pics, slot)

LEMMA DecodeOutcome ==
  ASSUME NEW i \in Instructions(Headers),
         NEW used, NEW map, NEW pics \in [Slots -> Pics \cup {NoPic}],
         DoDecode(i, used, map, pics)
  PROVE  StoredOrNot(i, used, map, pics)
<1> USE DEF StoredOrNot, Stored
<1> DEFINE slot   == MinFree(used)
           longer == [id \in DOMAIN map \cup {i.id} |-> IF id = i.id THEN slot ELSE map[id]]
<1>1. CASE Slots \subseteq used
  BY <1>1 DEF DoDecode, Abandon
<1>2. CASE ~(Slots \subseteq used)
  <2>1. slot \in Slots \ used
    BY <1>2, MinFreeIsFree
  <2> HIDE DEF slot
  <2>2. \/ todo' = <<>> /\ following' = FALSE
        \/ /\ slotOf' = longer /\ todo' = Tail(todo) /\ content' = [pics EXCEPT ![slot] = i.of.pic]
           /\ following' => (following \/ i.op = "Idr") /\ i.of.whole
    BY <1>2 DEF DoDecode, Abandon, slot
  <2>3. ASSUME slotOf' = longer, content' = [pics EXCEPT ![slot] = i.of.pic]
        PROVE  /\ DOMAIN slotOf' = DOMAIN map \cup {i.id}
               /\ \A id \in DOMAIN slotOf' : slotOf'[id] = IF id = i.id THEN slot ELSE map[id]
               /\ \A s \in Slots : content'[s] = IF s = slot THEN i.of.pic ELSE pics[s]
    BY <2>1, <2>3
  <2> QED BY <2>1, <2>2, <2>3
<1> QED BY <1>1, <1>2

LEMMA IdrHolds ==
  ASSUME NEW i \in Instructions(Headers), i.op = "Idr", NEW v, NEW w \in Views, ViewStep(i, v, w),
         DoDecode(i, {}, <<>>, [s \in Slots |-> NoPic])
  PROVE  DoneOrAbandoned(w)
<1> DEFINE none == [s \in Slots |-> NoPic]
<1>1. none \in [Slots -> Pics \cup {NoPic}] /\ DOMAIN <<>> = {}
  OBVIOUS
<1> HIDE DEF none
<1>2. DoDecode(i, {}, <<>>, none)
  BY DEF none
<1>3. StoredOrNot(i, {}, <<>>, none)
  BY <1>1, <1>2, DecodeOutcome
<1>4. w.mode = "on" /\ w.ids = {i.id} /\ w.map[i.id] = i.of.pic
  BY DEF ViewStep
<1>5. ASSUME NEW slot \in Slots, todo' = Tail(todo), DOMAIN slotOf' = {i.id}, slotOf'[i.id] = slot,
             content'[slot] = i.of.pic
      PROVE  DoneOrAbandoned(w)
  BY <1>4, <1>5 DEF DoneOrAbandoned, Holds
<1>6. CASE todo' = <<>> /\ following' = FALSE
  BY <1>6 DEF DoneOrAbandoned
<1>7. CASE \E slot \in Slots : Stored(i, {}, <<>>, none, slot)
  <2>1. PICK slot \in Slots :
             /\ todo' = Tail(todo)
             /\ DOMAIN slotOf' = {i.id}
             /\ \A id \in DOMAIN slotOf' : slotOf'[id] = IF id = i.id THEN slot ELSE <<>>[id]
             /\ \A s \in Slots : content'[s] = IF s = slot THEN i.of.pic ELSE none[s]
    BY <1>1, <1>7 DEF Stored
  <2>2. slotOf'[i.id] = slot /\ content'[slot] = i.of.pic
    BY <2>1
  <2> QED BY <1>5, <2>1, <2>2
<1> QED BY <1>3, <1>6, <1>7 DEF StoredOrNot

LEMMA DecodedHolds ==
  ASSUME IInv, NEW i \in Instructions(Headers), i.op = "Decode", NEW v \in Views, NEW w \in Views,
         ViewStep(i, v, w), Holds(v), content \in [Slots -> Pics \cup {NoPic}],
         DoDecode(i, active, slotOf, content)
  PROVE  DoneOrAbandoned(w)
<1>1. StoredOrNot(i, active, slotOf, content)
  BY DecodeOutcome
<1>2. CASE todo' = <<>> /\ following' = FALSE
  BY <1>2 DEF DoneOrAbandoned
<1>3. ASSUME NEW slot \in Slots \ active,
             todo' = Tail(todo), following' => following /\ i.of.whole,
             DOMAIN slotOf' = DOMAIN slotOf \cup {i.id},
             \A id \in DOMAIN slotOf' : slotOf'[id] = IF id = i.id THEN slot ELSE slotOf[id],
             \A s \in Slots : content'[s] = IF s = slot THEN i.of.pic ELSE content[s]
      PROVE  DoneOrAbandoned(w)
  <2>1. CASE ~following'
    BY <1>3, <2>1 DEF DoneOrAbandoned, Holds
  <2>2. CASE following'
    <3>1. following /\ i.of.whole /\ v.mode # "off"
      BY <1>3, <2>2 DEF Holds
    <3>2. v.mode = "on" /\ w.mode = "on" /\ Exact(i, v, w)
      BY <3>1 DEF ViewStep
    <3>3. /\ DOMAIN slotOf = v.ids /\ \A id \in v.ids : content[slotOf[id]] = v.map[id]
      BY <3>1, <3>2 DEF Holds
    <3>4. i.id \notin v.ids /\ w.ids = v.ids \cup {i.id} /\ w.map = [v.map EXCEPT ![i.id] = i.of.pic]
      BY <3>2 DEF Exact
    <3>5. v.map \in Maps /\ i.id \in Nat /\ v.ids \subseteq Nat
      BY DEF Views, RefSets, Instructions
    <3>6. \A id \in v.ids : slotOf[id] \in active /\ slotOf[id] \in Slots
      BY <3>3 DEF IInv, SlotsApart
    <3>7. w.map[i.id] = i.of.pic /\ \A id \in v.ids : w.map[id] = v.map[id]
      BY <3>4, <3>5 DEF Maps
    <3>8. ASSUME NEW id \in w.ids PROVE content'[slotOf'[id]] = w.map[id]
      <4>1. CASE id = i.id
        BY <1>3, <3>3, <3>7, <4>1
      <4>2. CASE id # i.id
        <5>1. id \in v.ids /\ slotOf'[id] = slotOf[id]
          BY <1>3, <3>3, <3>4, <4>2
        <5>2. content'[slotOf[id]] = content[slotOf[id]]
          BY <1>3, <3>6, <5>1
        <5> QED BY <3>3, <3>7, <5>1, <5>2
      <4> QED BY <4>1, <4>2
    <3>9. DOMAIN slotOf' = w.ids
      BY <1>3, <3>3, <3>4
    <3> QED BY <1>3, <3>2, <3>8, <3>9 DEF DoneOrAbandoned, Holds
  <2> QED BY <2>1, <2>2
<1>4. \A slot \in Slots \ active : Stored(i, active, slotOf, content, slot) => DoneOrAbandoned(w)
  BY <1>3 DEF Stored
<1> QED BY <1>1, <1>2, <1>4 DEF StoredOrNot

LEMMA DropKeepsContent ==
  ASSUME IInv, NEW i, DoDrop(i)
  PROVE  \A id \in DOMAIN slotOf' : content'[slotOf'[id]] = content[slotOf[id]]
<1> DEFINE gone  == {id \in DOMAIN slotOf :
                       \E n \in DOMAIN i.ids :
                         id = i.ids[n] /\ \A k \in 1 .. n : i.ids[k] \in DOMAIN slotOf}
           freed == {slotOf[id] : id \in gone}
<1>1. /\ slotOf' = [id \in DOMAIN slotOf \ gone |-> slotOf[id]]
      /\ content' = [s \in Slots |-> IF s \in freed THEN NoPic ELSE content[s]]
  BY DEF DoDrop
<1>2. gone \subseteq DOMAIN slotOf /\ \A s : s \in freed => \E id \in gone : s = slotOf[id]
  OBVIOUS
<1> HIDE DEF gone, freed
<1>3. \A id \in DOMAIN slotOf' : /\ slotOf'[id] = slotOf[id] /\ id \in DOMAIN slotOf
                                 /\ id \notin gone
  BY <1>1
<1>4. \A id \in DOMAIN slotOf' : slotOf[id] \in Slots /\ slotOf[id] \notin freed
  BY <1>2, <1>3 DEF IInv, SlotsApart
<1> QED BY <1>1, <1>3, <1>4

LEMMA DroppedHolds ==
  ASSUME IInv, NEW i \in Instructions(Headers), i.op = "Drop", NEW v \in Views, NEW w \in Views,
         ViewStep(i, v, w), Holds(v), DoDrop(i)
  PROVE  DoneOrAbandoned(w)
<1>1. CASE ~(ToSet(i.ids) \subseteq DOMAIN slotOf)
  BY <1>1 DEF DoDrop, Abandon, DoneOrAbandoned
<1>2. CASE ToSet(i.ids) \subseteq DOMAIN slotOf
  <2>1. i.ids \in Seq(Nat)
    BY DEF Instructions
  <2>2. /\ todo' = Tail(todo) /\ following' = following
        /\ DOMAIN slotOf' = DOMAIN slotOf \ ToSet(i.ids)
    BY <1>2, <2>1, DroppedMirrors
  <2>3. \A id \in DOMAIN slotOf' : content'[slotOf'[id]] = content[slotOf[id]]
    BY DropKeepsContent
  <2>4. CASE ~following
    BY <2>2, <2>4 DEF DoneOrAbandoned, Holds
  <2>5. CASE following /\ ~i.of.whole
    <3>1. w.mode = "lossy"
      BY <2>5 DEF Holds, ViewStep
    <3> QED BY <2>2, <3>1 DEF DoneOrAbandoned, Holds
  <2>6. CASE following /\ i.of.whole
    <3>1. v.mode = "on" /\ w.mode = "on" /\ Exact(i, v, w)
      BY <2>6 DEF Holds, ViewStep
    <3>2. /\ DOMAIN slotOf = v.ids /\ \A id \in v.ids : content[slotOf[id]] = v.map[id]
      BY <2>6, <3>1 DEF Holds
    <3>3. w.ids = v.ids \ ToSet(i.ids) /\ w.map = v.map
      BY <3>1 DEF Exact
    <3>4. DOMAIN slotOf' = w.ids
      BY <2>2, <3>2, <3>3
    <3>5. \A id \in w.ids : content'[slotOf'[id]] = w.map[id]
      BY <2>3, <3>2, <3>3, <3>4
    <3> QED BY <2>2, <3>1, <3>4, <3>5 DEF DoneOrAbandoned, Holds
  <2> QED BY <2>4, <2>5, <2>6
<1> QED BY <1>1, <1>2

LEMMA ExecuteTracked ==
  ASSUME IInv, StreamTypes, BufferTypes, Track, Execute
  PROVE  Track'
<1> DEFINE i == Head(todo)
<1>1. /\ todo # <<>> /\ UNCHANGED <<enc, buffered, ctx>>
      /\ \/ i.op = "Idr" /\ DoDecode(i, {}, <<>>, [s \in Slots |-> NoPic])
         \/ i.op = "Decode" /\ DoDecode(i, active, slotOf, content)
         \/ i.op = "Drop" /\ DoDrop(i)
  BY DEF Execute
<1>2. PICK v, x, y : Tracked(v, x, y)
  BY DEF Track
<1>3. todo \in Seq(Instructions(Headers)) /\ i \in Instructions(Headers)
  BY <1>1 DEF StreamTypes
<1>4. PICK w \in Views : <<i, v, w>> \in ViewSteps /\ Runs(ViewSteps, Views, Tail(todo), w, View(x))
  <2>1. Runs(ViewSteps, Views, todo, v, View(x))
    BY <1>2 DEF Tracked, Shows
  <2> QED BY <1>1, <1>3, <2>1, RunsFirst
<1> HIDE DEF i
<1>5. v \in Views /\ x \in HStates /\ Holds(v)
  BY <1>2 DEF Tracked
<1>6. ViewStep(i, v, w)
  BY <1>3, <1>4, <1>5, IsViewStep
<1>7. DoneOrAbandoned(w)
  BY <1>1, <1>3, <1>5, <1>6, IdrHolds, DecodedHolds, DroppedHolds DEF BufferTypes
<1>8. CASE todo' = <<>> /\ following' = FALSE
  <2> DEFINE u == View(x)
  <2>1. u \in Views
    BY <1>5, StateFields
  <2>2. Shows(todo', u, u) /\ Holds(u)'
    BY <1>8, <2>1, NothingRuns DEF Shows, Holds
  <2>3. Tracked(u, x, y)'
    BY <1>1, <1>2, <2>1, <2>2 DEF Tracked
  <2> QED BY <1>1, <2>3 DEF Track
<1>9. CASE todo' = Tail(todo) /\ Holds(w)'
  <2>1. Tracked(w, x, y)'
    BY <1>1, <1>2, <1>4, <1>9 DEF Tracked, Shows
  <2> QED BY <1>1, <2>1 DEF Track
<1> QED BY <1>7, <1>8, <1>9 DEF DoneOrAbandoned

LEMMA NextTracked ==
  ASSUME MaxRefs >= 1, IInv, StreamTypes, BufferTypes, Track, [Next]_vars
  PROVE  Track'
BY DecodeChunkTracked, FlushTracked, LosePictureTracked, SkipPictureTracked, ExecuteTracked,
   UnchangedTracked DEF Next

\* There are more slots than references, one for the picture being decoded.
LEMMA SlotLeft ==
  ASSUME IInv, Few(DOMAIN slotOf), active = {slotOf[id] : id \in DOMAIN slotOf}
  PROVE  active # Slots
<1> DEFINE D == DOMAIN slotOf
<1>1. IsFiniteSet(D) /\ Cardinality(D) <= MaxRefs /\ MaxRefs \in Nat /\ Cardinality(D) \in Nat
  BY StreamAssumption, FS_CardinalityType DEF Few
<1>2. slotOf \in Surjection(D, active)
  <2>1. slotOf \in [D -> active]
    BY DEF IInv
  <2>2. \A s \in active : \E id \in D : slotOf[id] = s
    OBVIOUS
  <2> QED BY <2>1, <2>2 DEF Surjection
<1> HIDE DEF D
<1>3. Cardinality(active) <= Cardinality(D) /\ IsFiniteSet(active)
  BY <1>1, <1>2, FS_Surjection
<1>4. Cardinality(Slots) = MaxRefs + 1
  <2>1. 0 \in Int /\ MaxRefs \in Int /\ 0 <= MaxRefs
    BY <1>1
  <2>2. Cardinality(0 .. MaxRefs) = MaxRefs - 0 + 1
    BY <2>1, FS_Interval
  <2> QED BY <1>1, <2>2 DEF Slots
<1> QED BY <1>1, <1>3, <1>4

LEMMA TrackedDecodes ==
  ASSUME IInv, StreamTypes, Mirror, Track, todo # <<>>, Undisturbed(Head(todo))
  PROVE  LET i == Head(todo)
         IN  /\ i.op = "Decode" =>
                  /\ active # Slots /\ Resolves(slotOf, active, i.refs)
                  /\ [k \in DOMAIN i.refs |-> content[slotOf[i.refs[k]]]] = i.of.wanted
             /\ i.op = "Drop" => ToSet(i.ids) \subseteq DOMAIN slotOf
<1> DEFINE i == Head(todo)
<1>1. following /\ i.of.whole
  BY DEF Undisturbed
<1>2. PICK v, x, y : Tracked(v, x, y)
  BY DEF Track
<1>3. todo \in Seq(Instructions(Headers)) /\ i \in Instructions(Headers)
  BY DEF StreamTypes
<1>4. PICK w \in Views : <<i, v, w>> \in ViewSteps
  <2>1. Runs(ViewSteps, Views, todo, v, View(x))
    BY <1>2 DEF Tracked, Shows
  <2> QED BY <1>3, <2>1, RunsFirst
<1> HIDE DEF i
<1>5. v \in Views /\ Holds(v)
  BY <1>2 DEF Tracked
<1>6. ViewStep(i, v, w)
  BY <1>3, <1>4, <1>5, IsViewStep
<1>7. i.op # "Idr" => v.mode = "on" /\ Exact(i, v, w)
  BY <1>1, <1>5, <1>6 DEF ViewStep, Holds
<1>8. v.mode = "on" => DOMAIN slotOf = v.ids /\ \A id \in v.ids : content[slotOf[id]] = v.map[id]
  BY <1>1, <1>5 DEF Holds
<1>9. ASSUME i.op = "Decode"
      PROVE  /\ active # Slots /\ Resolves(slotOf, active, i.refs)
             /\ [k \in DOMAIN i.refs |-> content[slotOf[i.refs[k]]]] = i.of.wanted
  <2>1. /\ Few(v.ids) /\ i.refs \in Seq(Nat) /\ ToSet(i.refs) \subseteq v.ids
        /\ [k \in DOMAIN i.refs |-> v.map[i.refs[k]]] = i.of.wanted
    BY <1>7, <1>9 DEF Exact
  <2>2. DOMAIN slotOf = v.ids /\ \A id \in v.ids : content[slotOf[id]] = v.map[id]
    BY <1>7, <1>8, <1>9
  <2>3. \A k \in DOMAIN i.refs : i.refs[k] \in v.ids
    BY <2>1 DEF ToSet
  <2>4. active # Slots
    BY <1>1, <2>1, <2>2, SlotLeft DEF Mirror
  <2>5. Resolves(slotOf, active, i.refs)
    BY <2>2, <2>3 DEF Resolves, IInv, SlotsApart
  <2>6. \A k \in DOMAIN i.refs : content[slotOf[i.refs[k]]] = v.map[i.refs[k]]
    BY <2>2, <2>3
  <2>7. [k \in DOMAIN i.refs |-> content[slotOf[i.refs[k]]]] = [k \in DOMAIN i.refs |-> v.map[i.refs[k]]]
    BY <2>6
  <2> QED BY <2>1, <2>4, <2>5, <2>7
<1>10. i.op = "Drop" => ToSet(i.ids) \subseteq DOMAIN slotOf
  BY <1>7, <1>8 DEF Exact
<1> QED BY <1>9, <1>10 DEF i

LEMMA TrackedAccepts ==
  ASSUME StreamTypes, Track, todo = <<>>, buffered # <<>>,
         Head(buffered).idr \/ (following /\ Head(buffered).whole)
  PROVE  PutPicture(ctx, Head(buffered)).ok
<1> DEFINE h == Head(buffered)
<1>1. PICK v, x, y : Tracked(v, x, y)
  BY DEF Track
<1>2. buffered \in Seq(Headers) /\ h \in Headers /\ Sound(ctx)
  BY DEF StreamTypes
<1>3. PICK z \in HStates : <<h, x, z>> \in HeaderSteps
  <2>1. Runs(HeaderSteps, HStates, buffered, x, y)
    BY <1>1 DEF Tracked, Expects
  <2> QED BY <1>2, <2>1, RunsFirst
<1> HIDE DEF h
<1>4. CASE h.idr
  <2>1. IdrResult(ctx, h, PutPicture(ctx, h))
    BY <1>2, <1>4, IdrPicture
  <2> QED BY <2>1 DEF IdrResult, h
<1>5. CASE ~h.idr /\ following /\ h.whole
  <2>1. x \in HStates /\ Fits(ctx, x) /\ Holds(View(x))
    BY <1>1, TrackedBetween DEF Tracked
  <2>2. HeaderStep(h, x, z)
    BY <1>2, <1>3, <2>1, IsHeaderStep
  <2>3. x.mode # "off"
    BY <1>5, <2>1, StateFields DEF Holds
  <2>4. x.mode = "on" /\ PutPicture(x.ctx, h).ok
    BY <1>5, <2>2, <2>3 DEF HeaderStep
  <2>5. x.ctx = ctx
    BY <2>1, <2>4 DEF Fits
  <2> QED BY <2>4, <2>5 DEF h
<1> QED BY <1>4, <1>5 DEF h

(* While the stream arrives whole, process_event executes every            *)
(* instruction, and a picture is decoded from exactly the pictures, in     *)
(* exactly the order, that the encoder predicted it from.  For streams     *)
(* with at least one reference that do not use                             *)
(* memory_management_control_operation 5.                                  *)
THEOREM DecodedAsEncodedCorrect ==
  ASSUME MaxRefs >= 1, \A s \in Scenarios : ~s.uses.resets
  PROVE  Spec => []DecodedAsEncoded
<1>1. IInv /\ StreamTypes /\ Mirror /\ Track => DecodedAsEncoded
  <2> SUFFICES ASSUME IInv, StreamTypes, Mirror, Track PROVE DecodedAsEncoded
    OBVIOUS
  <2>1. (todo # <<>> /\ Undisturbed(Head(todo))) =>
          LET i == Head(todo)
          IN  /\ i.op = "Decode" =>
                   /\ active # Slots /\ Resolves(slotOf, active, i.refs)
                   /\ [k \in DOMAIN i.refs |-> content[slotOf[i.refs[k]]]] = i.of.wanted
              /\ i.op = "Drop" => ToSet(i.ids) \subseteq DOMAIN slotOf
    BY TrackedDecodes
  <2> QED BY <2>1 DEF DecodedAsEncoded
<1>2. Init => IInv /\ StreamTypes /\ BufferTypes /\ Mirror /\ Track
  BY InitIInv, InitTypes, InitMirrors, InitTracked
<1>3. IInv /\ StreamTypes /\ BufferTypes /\ Mirror /\ Track /\ [Next]_vars
        => (IInv /\ StreamTypes /\ BufferTypes /\ Mirror /\ Track)'
  BY NextIInv, NextTypes, NextMirrors, NextTracked
<1> QED BY <1>1, <1>2, <1>3, PTL DEF Spec

(* While the stream arrives whole, put_picture refuses no access unit of   *)
(* it, over the wrap of frame_num and over intended gaps, in either        *)
(* handling of corrupted states.  For the same streams.                    *)
THEOREM WholeStreamAcceptedCorrect ==
  ASSUME MaxRefs >= 1, \A s \in Scenarios : ~s.uses.resets
  PROVE  Spec => []WholeStreamAccepted
<1>1. StreamTypes /\ Track => WholeStreamAccepted
  BY TrackedAccepts DEF WholeStreamAccepted
<1>2. Init => IInv /\ StreamTypes /\ BufferTypes /\ Track
  BY InitIInv, InitTypes, InitTracked
<1>3. IInv /\ StreamTypes /\ BufferTypes /\ Track /\ [Next]_vars
        => (IInv /\ StreamTypes /\ BufferTypes /\ Track)'
  BY NextIInv, NextTypes, NextTracked
<1> QED BY <1>1, <1>2, <1>3, PTL DEF Spec

-----------------------------------------------------------------------------
(* Strict handling of a stream without intended gaps *)

\* A reference picture is refused if the context is corrupted or frame_num has jumped.
Refusing(c, h) ==
  /\ h \in Headers /\ ~h.idr /\ ~h.gaps /\ h.marking # "none"
  /\ c \in Context /\ c.strict /\ (c.corrupted \/ ~Follows(c, h.num))

LEMMA StrictRefuses ==
  ASSUME NEW c, NEW h, Refusing(c, h)
  PROVE  LET r == PutPicture(c, h)
         IN  r.instructions = <<>> /\ r.ctx.corrupted = TRUE
<1> DEFINE d == [c EXCEPT !.corrupted = TRUE]
<1>1. Refused(c, h)
  BY DEF Refusing, Refused
<1>2. PutPicture(c, h) = Failed(d)
  BY <1>1 DEF PutPicture
<1>3. d.corrupted = TRUE
  BY DEF Refusing, Context
<1> HIDE DEF d
<1>4. Failed(d).instructions = <<>> /\ Failed(d).ctx = d
  BY DEF Failed
<1> QED BY <1>2, <1>3, <1>4

\* A picture that is no reference leaves frame_num and the corrupted state alone.
Passing(c, h) ==
  h \in Headers /\ ~h.idr /\ ~h.gaps /\ h.marking = "none" /\ Sound(c)

Passed(c, d) == d.prev = c.prev /\ d.corrupted = c.corrupted

LEMMA NonReferencePasses ==
  ASSUME NEW c, NEW h, Passing(c, h)
  PROVE  Passed(c, PutPicture(c, h).ctx)
<1> USE DEF Passing
<1> DEFINE g == FillGap(c, h)
           refs == References(c, h)
           k == Mark(c, h, refs.ids)
<1>1. ~Refused(c, h)
  BY DEF Refused
<1>2. MissingNums(c, h) = <<>>
  BY DEF MissingNums
<1>3. g.ctx = c /\ g.drops = <<>> /\ g.ok = TRUE
  BY <1>2, NothingMissing
<1>4. c \in Context
  BY DEF Sound
<1>5. k.ok = TRUE /\ k.ctx.prev = c.prev /\ k.ctx.corrupted = c.corrupted
  BY <1>4 DEF Mark, MarkNonReference, Accepted, Context
<1>6. CASE refs.ok
  <2>1. PutPicture(c, h) = AfterGap(h, <<>>, k)
    <3>1. c = FillGap(c, h).ctx /\ FillGap(c, h).ok = TRUE /\ refs.ok = TRUE
      BY <1>3, <1>6 DEF References
    <3> HIDE DEF g, k
    <3>2. PutPicture(c, h) = AfterGap(h, FillGap(c, h).drops, Mark(c, h, References(c, h).ids))
      BY <1>1, <3>1, PutPictureIs
    <3> QED BY <1>3, <3>2 DEF g, k
  <2> DEFINE ids == refs.ids
  <2>2. ids \in RefLists(Headers)
    BY <1>4 DEF RefLists
  <2> HIDE DEF ids
  <2>3. Mark(c, h, ids) \in CompiledFrom(c, Headers)
    BY <2>2, HeadersAreParsed, MarkCompiles
  <2>4. k \in CompiledFrom(c, Headers)
    BY <2>3 DEF ids
  <2> HIDE DEF k
  <2>5. IsAfter(h, <<>>, k, AfterGap(h, <<>>, k))
    <3> DEFINE none == <<>>
    <3> HIDE DEF none
    <3>1. IsAfter(h, none, k, AfterGap(h, none, k))
      BY <1>5, <2>4, AfterGapFields
    <3> QED BY <3>1 DEF none
  <2> QED BY <1>5, <2>1, <2>5 DEF IsAfter, Passed
<1>7. CASE ~refs.ok
  <2>1. PutPicture(c, h) = Failed(c)
    <3> HIDE DEF refs
    <3>1. PutPicture(c, h) =
            LET Listed(gap, rs) == IF gap.ok /\ rs.ok
                                   THEN AfterGap(h, gap.drops, Mark(gap.ctx, h, rs.ids))
                                   ELSE Failed(gap.ctx)
                Filled(gap)     == Listed(gap, References(gap.ctx, h))
            IN  Filled(g)
      BY <1>1 DEF PutPicture, g
    <3> HIDE DEF g
    <3> QED BY <1>3, <1>7, <3>1 DEF refs
  <2> QED BY <2>1 DEF Failed, Passed
<1> QED BY <1>6, <1>7

\* What one of the pictures to come makes of the manager: an IDR picture starts over, a picture is
\* decoded as it was encoded, a reference picture is refused, or it is no reference.
StrictStep(h, x, y) ==
  /\ ~h.gaps /\ y.ctx.strict = x.ctx.strict
  /\ IF h.idr
     THEN y.mode = "on" /\ y.ctx = PutPicture(x.ctx, h).ctx /\ y.map[0] = h.pic
     ELSE \/ Advances(h, x, y)
          \/ x.mode = "off" /\ y.mode = "off"
          \/ h.marking = "none" /\ y.mode = "lossy" /\ y.ctx = x.ctx
          \/ h.marking # "none" /\ y.mode = "off" /\ ~Follows(x.ctx, h.num)

\* The encoder is ahead of PrevRefFrameNum by some of the pictures lost.
Trails(e, p) == p \in Nums /\ \E j \in 1 .. e.lost : e.prev = (p + j) % MaxFrameNum

StrictEnds(e, y) ==
  /\ y \in HStates
  /\ \/ y.mode = "off" \/ e.age >= MaxGop \/ Trails(e, y.ctx.prev)
     \/ y.mode = "on" /\ Sim(y.map, e, y.ctx)

\* Fewer pictures get lost than frame_num can tell.
Bounded(e) == e.lost <= MaxLost /\ MaxLost + 1 < MaxFrameNum

StrictSending(e, pic, o, y) ==
  /\ MaxRefs >= 1 /\ e \in Encoder /\ Orderly(e) /\ Bounded(e) /\ ~e.uses.gaps
  /\ pic \in Pics /\ o \in Pictures(e, pic) /\ StrictEnds(e, y)

StrictSends(o, y) == \E z \in HStates : StrictStep(o.h, y, z) /\ StrictEnds(o.enc, z)

LEMMA IdrStrictlySends ==
  ASSUME NEW e, NEW pic, NEW o, NEW y, StrictSending(e, pic, o, y), o \in IdrPictures(e, pic)
  PROVE  StrictSends(o, y)
<1> USE DEF StrictSending
<1> DEFINE x == Off(y)
<1>1. y \in HStates
  BY DEF StrictEnds
<1>2. x \in HStates /\ x.mode = "off" /\ x.ctx = y.ctx
  BY <1>1, OffIsState
<1> HIDE DEF x
<1>3. PICK long \in BOOLEAN : o.h = IdrHeader(e, pic, long) /\ o.enc = AfterIdr(e, pic, long)
  BY IdrPicturesAre
<1>4. ~o.h.gaps /\ o.h.idr
  BY <1>3 DEF IdrHeader
<1>5. o.enc.whole = TRUE
  BY <1>3, IdrIsOrderly DEF Orderly
<1>6. Sending(e, pic, o, x)
  BY <1>2 DEF Sending, Ends
<1>7. PICK z \in HStates : HeaderStep(o.h, x, z) /\ Ends(o.enc, z)
  BY <1>6, IdrSends DEF Sends
<1>8. z.mode = "on" /\ StrictStep(o.h, y, z)
  BY <1>2, <1>4, <1>7 DEF HeaderStep, StrictStep
<1>9. StrictEnds(o.enc, z)
  BY <1>5, <1>7, <1>8 DEF Ends, StrictEnds
<1> QED BY <1>8, <1>9 DEF StrictSends

\* One more reference picture.
LEMMA TrailsOn ==
  ASSUME NEW e \in Encoder, Bounded(e), NEW p, Trails(e, p)
  PROVE  \E j \in 1 .. e.lost : /\ NextNum(e) = (p + (j + 1)) % MaxFrameNum
                                /\ NextNum(e) \notin {p, (p + 1) % MaxFrameNum}
<1>1. p \in Nums
  BY DEF Trails
<1>2. PICK j \in 1 .. e.lost : e.prev = (p + j) % MaxFrameNum
  BY DEF Trails
<1>3. e.lost \in Nat /\ MaxLost \in Nat /\ MaxFrameNum \in Nat
  BY StreamAssumption, EncoderAssumption DEF Encoder
<1>4. j \in Nat /\ j >= 1 /\ j + 1 < MaxFrameNum
  BY <1>3 DEF Bounded
<1>5. /\ (((p + j) % MaxFrameNum) + 1) % MaxFrameNum = (p + (j + 1)) % MaxFrameNum
      /\ (p + (j + 1)) % MaxFrameNum # p
      /\ (p + (j + 1)) % MaxFrameNum # (p + 1) % MaxFrameNum
  BY <1>1, <1>4, NumsOn
<1> QED BY <1>2, <1>5 DEF NextNum

LEMMA OthersStrictlySend ==
  ASSUME NEW e, NEW pic, NEW o, NEW y, StrictSending(e, pic, o, y), o \in OtherPictures(e, pic),
         CanGoOn(e)
  PROVE  StrictSends(o, y)
<1> USE DEF StrictSending
<1>1. PICK p \in Predictions(e.short, e.long, NextNum(e)), m \in LegalMarkings(e, pic) :
        o = [h |-> HeaderOf(e, pic, p, m), enc |-> Marked(e, m)]
  BY DEF OtherPictures
<1> DEFINE h == o.h
           f == o.enc
<1>2. h = HeaderOf(e, pic, p, m) /\ f = Marked(e, m)
  BY <1>1
<1>3. h \in Headers /\ ~h.idr /\ ~h.gaps /\ h.num = NextNum(e) /\ h.marking = m.marking
  BY <1>2, OtherPicturesType DEF HeaderOf
<1>4. y \in HStates /\ y.mode \in Modes /\ y.ctx \in Context /\ Sound(y.ctx) /\ y.map \in Maps
  BY StateFields DEF StrictEnds
<1>5. f.lost = e.lost /\ f.prev = m.prev
  <2>1. e \in Encoder
    OBVIOUS
  <2> QED BY <1>2, <2>1 DEF Marked, Encoder
<1> HIDE DEF h, f
<1>6. CASE y.mode = "off"
  <2>1. StrictStep(h, y, y)
    BY <1>3, <1>6 DEF StrictStep
  <2>2. StrictEnds(f, y)
    BY <1>4, <1>6 DEF StrictEnds
  <2> QED BY <1>4, <2>1, <2>2 DEF StrictSends, h, f
<1>7. CASE Trails(e, y.ctx.prev) /\ m.marking = "none"
  <2> DEFINE z == [mode |-> "lossy", ctx |-> y.ctx, map |-> y.map]
  <2>1. z \in HStates /\ z.mode = "lossy" /\ z.ctx = y.ctx
    BY <1>4 DEF HStates, Modes
  <2> HIDE DEF z
  <2>2. StrictStep(h, y, z)
    BY <1>3, <1>7, <2>1 DEF StrictStep
  <2>3. f.prev = e.prev
    BY <1>5, <1>7, LegalPrev DEF Orderly
  <2>4. StrictEnds(f, z)
    BY <1>5, <1>7, <2>1, <2>3 DEF StrictEnds, Trails
  <2> QED BY <2>1, <2>2, <2>4 DEF StrictSends, h, f
<1>8. CASE Trails(e, y.ctx.prev) /\ m.marking # "none"
  <2> DEFINE z == Off(y)
  <2>1. z \in HStates /\ z.mode = "off" /\ z.ctx = y.ctx
    BY <1>4, OffIsState
  <2> HIDE DEF z
  <2>2. ~Follows(y.ctx, h.num)
    BY <1>3, <1>8, TrailsOn DEF Follows
  <2>3. StrictStep(h, y, z)
    BY <1>3, <1>8, <2>1, <2>2 DEF StrictStep
  <2>4. StrictEnds(f, z)
    BY <2>1 DEF StrictEnds
  <2> QED BY <2>1, <2>3, <2>4 DEF StrictSends, h, f
<1>9. CASE y.mode = "on" /\ Sim(y.map, e, y.ctx)
  <2>1. Advancing(e, pic, p, m, y)
    BY <1>4, <1>9 DEF Advancing, Sent, Maps
  <2>2. PICK z : Advances(h, y, z) /\ Sim(z.map, Marked(e, m), z.ctx)
    BY <1>2, <1>3, <2>1, PictureAdvances
  <2>3. z \in HStates /\ z.mode = "on" /\ z.ctx.strict = y.ctx.strict
    BY <2>2 DEF Advances
  <2>4. StrictStep(h, y, z)
    BY <1>3, <2>2, <2>3 DEF StrictStep
  <2>5. StrictEnds(f, z)
    BY <1>2, <2>2, <2>3 DEF StrictEnds, f
  <2> QED BY <2>3, <2>4, <2>5 DEF StrictSends, h, f
<1>10. ~(e.age >= MaxGop)
  BY EncoderAssumption DEF CanGoOn, Encoder
<1> QED BY <1>6, <1>7, <1>8, <1>9, <1>10 DEF StrictEnds

LEMMA PictureStrictlySends ==
  ASSUME NEW e, NEW pic, NEW o, NEW y, StrictSending(e, pic, o, y)
  PROVE  StrictSends(o, y)
BY IdrStrictlySends, OthersStrictlySend DEF StrictSending, Pictures

LEMMA NoneMarksNothing ==
  ASSUME NEW e, ~e.uses.resets, NEW pic, NEW m \in LegalMarkings(e, pic), m.marking = "none"
  PROVE  m.short = e.short /\ m.long = e.long
<1> DEFINE short == e.short
           long == e.long
           num == NextNum(e)
           uses == e.uses
<1>1. \/ m = Marking("none", <<>>, short, long, e.prev)
      \/ m \in Markings(short, long, num, pic, uses) /\ ~uses.resets
  BY DEF LegalMarkings
<1> HIDE DEF num, uses, short, long
<1>2. ASSUME m \in Markings(short, long, num, pic, uses), ~uses.resets PROVE FALSE
  <2>1. \/ Slides(m, short, long, num, pic) \/ Unmarks(m, short, long, num, pic)
        \/ Converts(m, short, long, num, pic) \/ Promotes(m, short, long, num, pic)
        \/ Frees(m, short, long, num, pic)
    BY <1>2, MarkingForms
  <2> QED BY <2>1 DEF Slides, Unmarks, Converts, Promotes, Frees, Marking
<1>3. m.short = short /\ m.long = long
  BY <1>1, <1>2 DEF Marking
<1> QED BY <1>3 DEF short, long

\* A picture that gets lost leaves the manager as it was, or behind.
Losing(e, pic, x, y) ==
  /\ e \in Encoder /\ Orderly(e) /\ Bounded(e) /\ ~e.uses.gaps /\ pic \in Pics
  /\ x \in Losses(e, pic) /\ StrictEnds(e, y)

LEMMA LossStrictlyEnds ==
  ASSUME NEW e, NEW pic, NEW x, NEW y, Losing(e, pic, x, y)
  PROVE  StrictEnds(x, y) /\ x.lost <= MaxLost
<1> USE DEF Losing
<1>1. PICK o \in OtherPictures(e, pic) :
        CanGoOn(e) /\ e.lost < MaxLost /\ x = [o.enc EXCEPT !.whole = FALSE, !.lost = @ + 1]
  BY DEF Losses
<1>2. PICK p \in Predictions(e.short, e.long, NextNum(e)), m \in LegalMarkings(e, pic) :
        o = [h |-> HeaderOf(e, pic, p, m), enc |-> Marked(e, m)]
  BY <1>1 DEF OtherPictures
<1> DEFINE f == o.enc
<1>3. f = Marked(e, m) /\ f \in Encoder
  BY <1>1, <1>2, OtherPicturesType
<1>4. /\ f.lost = e.lost /\ f.prev = m.prev /\ f.short = m.short /\ f.long = m.long /\ f.skipped = 0
      /\ e.lost \in Nat /\ MaxLost \in Nat
  <2>1. e \in Encoder
    OBVIOUS
  <2> QED BY <1>3, <2>1, EncoderAssumption DEF Marked, Encoder
<1>5. x = [f EXCEPT !.whole = FALSE, !.lost = f.lost + 1]
  BY <1>1
<1> HIDE DEF f
<1>6. /\ x.lost = e.lost + 1 /\ x.prev = m.prev /\ x.short = m.short /\ x.long = m.long
      /\ x.skipped = 0
  BY <1>3, <1>4, <1>5 DEF Encoder
<1> SUFFICES StrictEnds(x, y)
  BY <1>1, <1>4, <1>6
<1>7. m.prev = IF m.marking = "none" THEN e.prev ELSE NextNum(e)
  BY LegalPrev DEF Orderly
<1>8. y \in HStates
  BY DEF StrictEnds
<1>9. CASE y.mode = "off"
  BY <1>8, <1>9 DEF StrictEnds
<1>10. CASE Trails(e, y.ctx.prev)
  <2>1. PICK j \in 1 .. e.lost : /\ e.prev = (y.ctx.prev + j) % MaxFrameNum
    BY <1>10 DEF Trails
  <2>2. PICK k \in 1 .. e.lost : NextNum(e) = (y.ctx.prev + (k + 1)) % MaxFrameNum
    BY <1>10, TrailsOn
  <2>3. j \in 1 .. x.lost /\ k + 1 \in 1 .. x.lost
    BY <1>4, <1>6
  <2>4. Trails(x, y.ctx.prev)
    BY <1>6, <1>7, <1>10, <2>1, <2>2, <2>3 DEF Trails
  <2> QED BY <1>8, <2>4 DEF StrictEnds
<1>11. CASE y.mode = "on" /\ Sim(y.map, e, y.ctx)
  <2>1. e.skipped = 0
    BY DEF Orderly, Encoder
  <2>2. y.ctx.prev \in Nums /\ Sound(y.ctx) /\ y.ctx.corrupted = FALSE
    BY <1>11 DEF Sim
  <2>3. Matches(y.map, e, y.ctx)
    BY <1>11, <2>1 DEF Sim, Inferred
  <2>4. CASE m.marking = "none"
    <3>1. x.prev = e.prev /\ x.short = e.short /\ x.long = e.long
      BY <1>6, <1>7, <2>4, NoneMarksNothing DEF Orderly
    <3>2. Matches(y.map, x, y.ctx)
      BY <2>3, <3>1 DEF Matches
    <3>3. Sim(y.map, x, y.ctx)
      BY <1>6, <2>2, <3>2, SimStart
    <3> QED BY <1>8, <1>11, <3>3 DEF StrictEnds
  <2>5. CASE m.marking # "none"
    <3>1. x.prev = (y.ctx.prev + 1) % MaxFrameNum
      BY <1>6, <1>7, <2>3, <2>5 DEF NextNum, Matches
    <3>2. 1 \in 1 .. x.lost
      BY <1>4, <1>6
    <3>3. Trails(x, y.ctx.prev)
      BY <2>2, <3>1, <3>2 DEF Trails
    <3> QED BY <1>8, <3>3 DEF StrictEnds
  <2> QED BY <2>4, <2>5
<1>12. ~(e.age >= MaxGop)
  BY <1>1, EncoderAssumption DEF CanGoOn, Encoder
<1> QED BY <1>9, <1>10, <1>11, <1>12 DEF StrictEnds

\* The context c is as expected in state x of a stream that is handled strictly.
StrictFits(c, x) ==
  /\ x \in HStates /\ Sound(c) /\ c.strict = TRUE /\ x.ctx.strict = TRUE
  /\ x.mode = "on" => x.ctx = c
  /\ x.mode = "lossy" => c.corrupted \/ c.prev = x.ctx.prev
  /\ x.mode = "off" => c.corrupted

\* The buffer holds the references of v, and nothing else.
Buffers(v) ==
  /\ DOMAIN slotOf = v.ids /\ active = {slotOf[id] : id \in DOMAIN slotOf}
  /\ \A id \in v.ids : content[slotOf[id]] = v.map[id]

(* The instructions lead from what the buffer holds to what the manager    *)
(* has, or start over, or are of no reference picture.                     *)
LeadsExactly(ins, x) ==
  x.mode = "on" /\ \E v \in Views : Exactly(ins, v, View(x)) /\ Buffers(v)

StartsOver(ins, x) ==
  /\ x.mode = "on" /\ Refs(x.ctx) = {0}
  /\ \E h \in Headers : ins = <<Idr(h, 0)>> /\ x.map[0] = h.pic

NoReference(ins, x) ==
  x.mode # "on" /\ \A k \in DOMAIN ins : ins[k].op # "Idr" /\ ins[k].of.marking = "none"

Working(ins, x) == LeadsExactly(ins, x) \/ StartsOver(ins, x) \/ NoReference(ins, x)

StrictPutting(c, h, x, y) ==
  /\ h \in Headers /\ y \in HStates /\ StrictFits(c, x) /\ StrictStep(h, x, y)
  /\ x.mode = "on" => Buffers(View(x))

StrictPut(c, h, y) ==
  LET r == PutPicture(c, h)
  IN  StrictFits(r.ctx, y) /\ Working(r.instructions, y)

LEMMA IdrStrictlyPut ==
  ASSUME NEW c, NEW h, NEW x, NEW y, StrictPutting(c, h, x, y), h.idr
  PROVE  StrictPut(c, h, y)
<1> DEFINE r == PutPicture(c, h)
           i == Idr(h, 0)
<1>1. /\ h \in Headers /\ x \in HStates /\ y \in HStates /\ Sound(c) /\ c.strict = TRUE
      /\ x.ctx.strict = TRUE /\ (x.mode = "on" => x.ctx = c)
      /\ y.ctx.strict = x.ctx.strict /\ y.mode = "on" /\ y.ctx = PutPicture(x.ctx, h).ctx
      /\ y.map[0] = h.pic
  BY DEF StrictPutting, StrictFits, StrictStep
<1>2. r.ok = TRUE /\ r.instructions = <<i>>
  <2>1. IdrResult(c, h, r)
    BY <1>1, IdrPicture
  <2> QED BY <2>1 DEF IdrResult
<1>3. Put(c, h, x, y)
  <2>1. HeaderStep(h, x, y) /\ Fits(c, x)
    BY <1>1 DEF HeaderStep, Fits
  <2>2. Putting(c, h, x, y)
    BY <1>1, <1>2, <2>1 DEF Putting
  <2> QED BY <2>2, PutShows
<1>4. Shows(<<i>>, View(x), View(y)) /\ Fits(r.ctx, y)
  BY <1>2, <1>3 DEF Put
<1> HIDE DEF r
<1>5. i.op = "Idr" /\ i.id = 0 /\ i.of = h /\ i \in Instructions(Headers)
  BY <1>1 DEF Idr, Instructions
<1> HIDE DEF i
<1>6. Refs(y.ctx) = {0}
  <2> DEFINE s == <<i>>
             T == Instructions(Headers)
             v == View(x)
             w == View(y)
  <2>1. s \in Seq(T) /\ s # <<>> /\ Head(s) = i /\ Tail(s) = <<>>
    <3>1. i \in T
      BY <1>5
    <3> HIDE DEF T
    <3> QED BY <3>1
  <2>2. v \in Views /\ w \in Views /\ w.ids = Refs(y.ctx)
    BY <1>1, StateFields
  <2>3. Runs(ViewSteps, Views, s, v, w)
    BY <1>4 DEF Shows
  <2> HIDE DEF s, T, v, w
  <2>4. PICK u \in Views : <<Head(s), v, u>> \in ViewSteps /\ Runs(ViewSteps, Views, Tail(s), u, w)
    BY <2>1, <2>3, RunsFirst
  <2>5. u = w
    BY <2>1, <2>4, NothingRunsBack
  <2>6. ViewStep(i, v, w)
    BY <1>5, <2>1, <2>2, <2>4, <2>5, IsViewStep
  <2> QED BY <1>5, <2>2, <2>6 DEF ViewStep
<1>7. StartsOver(<<i>>, y)
  BY <1>1, <1>6 DEF StartsOver, i
<1>8. StrictFits(r.ctx, y)
  BY <1>1, <1>4 DEF Fits, StrictFits
<1> QED BY <1>2, <1>7, <1>8 DEF StrictPut, Working, r

\* Nothing is made of a reference picture, and of another one nothing the references depend on.
Unexpected(c, h, y) ==
  /\ h \in Headers /\ ~h.idr /\ ~h.gaps /\ y \in HStates /\ y.mode # "on" /\ y.ctx.strict = TRUE
  /\ Sound(c) /\ c.strict = TRUE

LEMMA UnexpectedWorks ==
  ASSUME NEW c, NEW h, NEW y, Unexpected(c, h, y),
         h.marking # "none" => Refusing(c, h)
  PROVE  /\ Working(PutPicture(c, h).instructions, y)
         /\ Sound(PutPicture(c, h).ctx) /\ PutPicture(c, h).ctx.strict = TRUE
         /\ IF h.marking = "none" THEN Passed(c, PutPicture(c, h).ctx)
            ELSE PutPicture(c, h).ctx.corrupted = TRUE
<1> USE DEF Unexpected
<1> DEFINE r == PutPicture(c, h)
           ins == r.instructions
<1>1. r \in CompiledFrom(c, Headers)
  BY HeadersAreParsed, PutPictureCompiles
<1>2. Sound(r.ctx) /\ r.ctx.strict = TRUE /\ (~r.ok => ins = <<>>)
  <2> HIDE DEF r
  <2> QED BY <1>1, CompiledFields
<1>3. CASE h.marking = "none"
  <2>1. Passed(c, r.ctx)
    BY <1>3, NonReferencePasses DEF Passing
  <2>2. AllOf(ins, h) \/ ins = <<>>
    BY <1>2, OthersForm
  <2> HIDE DEF ins
  <2>3. \A k \in DOMAIN ins : ins[k].op # "Idr" /\ ins[k].of.marking = "none"
    <3>1. CASE ins = <<>>
      BY <3>1
    <3>2. CASE AllOf(ins, h)
      BY <1>3, <3>2 DEF AllOf
    <3> QED BY <2>2, <3>1, <3>2
  <2>4. Working(ins, y)
    BY <2>3 DEF NoReference, Working
  <2> QED BY <1>2, <1>3, <2>1, <2>4 DEF ins
<1>4. CASE h.marking # "none"
  <2>1. ins = <<>> /\ r.ctx.corrupted = TRUE
    BY <1>4, StrictRefuses
  <2> HIDE DEF ins
  <2>2. DOMAIN ins = {}
    BY <2>1
  <2>3. Working(ins, y)
    BY <2>2 DEF NoReference, Working
  <2> QED BY <1>2, <1>4, <2>1, <2>3 DEF ins
<1> QED BY <1>3, <1>4

LEMMA PictureStrictlyPut ==
  ASSUME NEW c, NEW h, NEW x, NEW y, StrictPutting(c, h, x, y)
  PROVE  StrictPut(c, h, y)
<1> DEFINE r == PutPicture(c, h)
<1>1. /\ h \in Headers /\ x \in HStates /\ y \in HStates /\ Sound(c) /\ c \in Context
      /\ c.strict = TRUE /\ x.ctx.strict = TRUE /\ y.ctx.strict = TRUE /\ ~h.gaps
      /\ StrictFits(c, x) /\ StrictStep(h, x, y) /\ x.mode \in Modes /\ y.mode \in Modes
  BY StateFields DEF StrictPutting, StrictFits, StrictStep, Sound
<1>2. CASE h.idr
  BY <1>2, IdrStrictlyPut
<1>3. CASE ~h.idr /\ Advances(h, x, y)
  <2>1. /\ x.mode = "on" /\ y.mode = "on" /\ x.ctx = c /\ y.ctx = r.ctx
        /\ Exactly(r.instructions, View(x), View(y))
    BY <1>1, <1>3 DEF Advances, StrictFits
  <2>2. View(x) \in Views /\ Buffers(View(x))
    BY <1>1, <2>1, StateFields DEF StrictPutting
  <2>3. LeadsExactly(r.instructions, y)
    BY <2>1, <2>2 DEF LeadsExactly
  <2>4. Sound(y.ctx)
    BY <1>1, StateFields
  <2>5. StrictFits(r.ctx, y)
    BY <1>1, <2>1, <2>4 DEF StrictFits
  <2> QED BY <2>3, <2>5 DEF StrictPut, Working
<1>4. ASSUME ~h.idr, y.mode # "on", h.marking # "none" => Refusing(c, h),
             h.marking = "none" /\ y.mode = "off" => c.corrupted,
             h.marking = "none" /\ y.mode = "lossy" => c.corrupted \/ c.prev = y.ctx.prev
      PROVE  StrictPut(c, h, y)
  <2>1. Unexpected(c, h, y)
    BY <1>1, <1>4 DEF Unexpected
  <2>2. /\ Working(r.instructions, y) /\ Sound(r.ctx) /\ r.ctx.strict = TRUE
        /\ IF h.marking = "none" THEN Passed(c, r.ctx) ELSE r.ctx.corrupted = TRUE
    BY <1>4, <2>1, UnexpectedWorks
  <2> HIDE DEF r
  <2>3. StrictFits(r.ctx, y)
    BY <1>1, <1>4, <2>2 DEF StrictFits, Passed
  <2> QED BY <2>2, <2>3 DEF StrictPut, r
<1>5. CASE ~h.idr /\ x.mode = "off" /\ y.mode = "off"
  <2>1. c.corrupted
    BY <1>1, <1>5 DEF StrictFits
  <2>2. h.marking # "none" => Refusing(c, h)
    BY <1>1, <1>5, <2>1 DEF Refusing
  <2> QED BY <1>4, <1>5, <2>1, <2>2
<1>6. CASE ~h.idr /\ h.marking = "none" /\ y.mode = "lossy" /\ y.ctx = x.ctx
  <2>1. c.corrupted \/ c.prev = x.ctx.prev
    BY <1>1 DEF StrictFits, Modes
  <2> QED BY <1>4, <1>6, <2>1
<1>7. CASE ~h.idr /\ h.marking # "none" /\ y.mode = "off" /\ ~Follows(x.ctx, h.num)
  <2>1. c.corrupted \/ c.prev = x.ctx.prev
    BY <1>1 DEF StrictFits, Modes
  <2>2. c.corrupted \/ ~Follows(c, h.num)
    BY <1>7, <2>1 DEF Follows
  <2>3. Refusing(c, h)
    BY <1>1, <1>7, <2>2 DEF Refusing
  <2> QED BY <1>4, <1>7, <2>3
<1>8. \/ h.idr \/ Advances(h, x, y)
      \/ x.mode = "off" /\ y.mode = "off"
      \/ h.marking = "none" /\ y.mode = "lossy" /\ y.ctx = x.ctx
      \/ h.marking # "none" /\ y.mode = "off" /\ ~Follows(x.ctx, h.num)
  BY <1>1 DEF StrictStep
<1> QED BY <1>2, <1>3, <1>5, <1>6, <1>7, <1>8

(* The access units in the splitter: at most one, if it holds back no more. *)
Pending(s, x, y) ==
  \/ s = <<>> /\ x = y
  \/ \E h \in Headers : s = <<h>> /\ StrictStep(h, x, y)

StrictlyTracked(x, y) ==
  StrictFits(ctx, x) /\ Working(todo, x) /\ Pending(buffered, x, y) /\ StrictEnds(enc, y)

StrictTrack ==
  /\ enc.lost <= MaxLost
  /\ ctx.strict /\ ~enc.uses.gaps => \E x, y : StrictlyTracked(x, y)

\* Between two events.
LEMMA IdleBuffers ==
  ASSUME NEW x, Working(<<>>, x)
  PROVE  x.mode = "on" => Buffers(View(x))
<1>1. CASE LeadsExactly(<<>>, x)
  <2>1. PICK v \in Views : Exactly(<<>>, v, View(x)) /\ Buffers(v)
    BY <1>1 DEF LeadsExactly
  <2>2. v = View(x)
    BY <2>1, NothingRunsBack DEF Exactly
  <2> QED BY <2>1, <2>2
<1>2. ~StartsOver(<<>>, x)
  <2>1. \A i : <<>> # <<i>>
    OBVIOUS
  <2> QED BY <2>1 DEF StartsOver
<1> QED BY <1>1, <1>2 DEF Working, NoReference

LEMMA IdleWorks ==
  ASSUME NEW x \in HStates, x.mode = "on" => Buffers(View(x))
  PROVE  Working(<<>>, x)
<1>1. CASE x.mode = "on"
  <2>1. View(x) \in Views
    BY StateFields
  <2>2. Exactly(<<>>, View(x), View(x))
    BY <2>1, NothingRuns DEF Exactly
  <2> QED BY <1>1, <2>1, <2>2 DEF Working, LeadsExactly
<1>2. CASE x.mode # "on"
  <2>1. DOMAIN <<>> = {}
    OBVIOUS
  <2> QED BY <1>2, <2>1 DEF Working, NoReference
<1> QED BY <1>1, <1>2

\* After a loss that is noticed, or a decode command that failed.
Corrupted(c) == [c EXCEPT !.corrupted = TRUE]

LEMMA CorruptedFits ==
  ASSUME NEW c, NEW x, StrictFits(c, x)
  PROVE  StrictFits(Corrupted(c), Off(x))
<1>1. Sound(c) /\ c \in Context /\ c.strict = TRUE /\ x \in HStates /\ x.ctx.strict = TRUE
  BY DEF StrictFits, Sound
<1>2. Sound(Corrupted(c)) /\ Corrupted(c).strict = c.strict
  BY <1>1, CorruptedSound DEF Corrupted
<1>3. Corrupted(c).corrupted = TRUE
  BY <1>1 DEF Corrupted, Context
<1>4. Off(x) \in HStates /\ Off(x).mode = "off" /\ Off(x).ctx = x.ctx
  BY <1>1, OffIsState
<1> QED BY <1>1, <1>2, <1>3, <1>4 DEF StrictFits

Rebased(s, e, x, y) == x \in HStates /\ Pending(s, x, y) /\ StrictEnds(e, y)

LEMMA OffPends ==
  ASSUME NEW s, NEW e, NEW x, NEW y, Rebased(s, e, x, y)
  PROVE  \E b : Rebased(s, e, Off(x), b)
<1> USE DEF Rebased
<1>1. y \in HStates
  BY DEF StrictEnds
<1>2. /\ Off(x) \in HStates /\ Off(x).mode = "off" /\ Off(x).ctx = x.ctx
      /\ Off(y) \in HStates /\ Off(y).mode = "off" /\ Off(y).ctx = y.ctx
  BY <1>1, OffIsState
<1>3. StrictEnds(e, Off(y))
  BY <1>2 DEF StrictEnds
<1>4. CASE s = <<>> /\ x = y
  <2>1. Pending(s, Off(x), Off(y))
    BY <1>4 DEF Pending
  <2> QED BY <1>2, <1>3, <2>1
<1>5. ASSUME NEW h \in Headers, s = <<h>>, StrictStep(h, x, y)
      PROVE  \E b : Rebased(s, e, Off(x), b)
  <2>1. CASE h.idr
    <3>1. StrictStep(h, Off(x), y)
      BY <1>2, <1>5, <2>1 DEF StrictStep
    <3>2. Pending(s, Off(x), y)
      BY <1>5, <3>1 DEF Pending
    <3> QED BY <1>2, <3>2
  <2>2. CASE ~h.idr
    <3>1. StrictStep(h, Off(x), Off(y))
      BY <1>2, <1>5, <2>2 DEF StrictStep
    <3>2. Pending(s, Off(x), Off(y))
      BY <1>5, <3>1 DEF Pending
    <3> QED BY <1>2, <1>3, <3>2
  <2> QED BY <2>1, <2>2
<1> QED BY <1>4, <1>5 DEF Pending

\* An event starts from what an earlier command has left.
Starting(a, b) ==
  /\ StrictFits(From, a) /\ Pending(buffered, a, b) /\ StrictEnds(enc, b)
  /\ a.mode = "on" => Buffers(View(a))

LEMMA EventStartsStrictly ==
  ASSUME NEW x, NEW y, StrictlyTracked(x, y), todo = <<>>
  PROVE  \E a, b : Starting(a, b)
<1> USE DEF StrictlyTracked
<1>1. x.mode = "on" => Buffers(View(x))
  BY IdleBuffers
<1>2. CASE ~decodeFailed
  <2>1. Starting(x, y)
    BY <1>1, <1>2 DEF Starting, From
  <2> QED BY <2>1
<1>3. CASE decodeFailed
  <2>1. x \in HStates
    BY DEF StrictFits
  <2>2. Rebased(buffered, enc, x, y)
    BY <2>1 DEF Rebased
  <2>3. PICK b : Rebased(buffered, enc, Off(x), b)
    BY <2>2, OffPends
  <2>4. StrictFits(From, Off(x))
    BY <1>3, CorruptedFits DEF Corrupted, From
  <2>5. Off(x).mode # "on"
    BY <2>1, OffIsState
  <2>6. Starting(Off(x), b)
    BY <2>3, <2>4, <2>5 DEF Starting, Rebased
  <2> QED BY <2>6
<1> QED BY <1>2, <1>3

LEMMA NothingProcessed ==
  ASSUME Sound(ctx), ProcessEvent(<<>>)
  PROVE  ctx' = From /\ todo' = <<>> /\ UNCHANGED <<active, slotOf, content>>
<1> DEFINE s == <<>>
<1>1. s \in Seq(Headers) /\ Len(s) = 0
  OBVIOUS
<1>2. ctx' = Compile(From, s).ctx /\ todo' = Compile(From, s).instructions
      /\ UNCHANGED <<active, slotOf, content>>
  BY DEF ProcessEvent, From, dpbVars
<1> HIDE DEF s
<1>3. Sound(From)
  BY FromIsSound
<1>4. PICK r : CompileTrace(r, From, s, Headers)
  BY <1>1, <1>3, HeadersAreParsed, CompileTraced
<1>5. Compile(From, s) = Accepted(From, <<>>)
  BY <1>1, <1>4 DEF CompileTrace
<1> QED BY <1>2, <1>5 DEF Accepted

LEMMA OneProcessed ==
  ASSUME Sound(ctx), NEW h \in Headers, ProcessEvent(<<h>>)
  PROVE  LET r == PutPicture(From, h)
         IN  ctx' = r.ctx /\ todo' = r.instructions /\ UNCHANGED <<active, slotOf, content>>
<1> DEFINE s == <<h>>
           p == PutPicture(From, h)
           none == Accepted(From, <<>>)
<1>1. s \in Seq(Headers) /\ Len(s) = 1 /\ s[1] = h
  OBVIOUS
<1>2. ctx' = Compile(From, s).ctx /\ todo' = Compile(From, s).instructions
      /\ UNCHANGED <<active, slotOf, content>>
  BY DEF ProcessEvent, From, dpbVars
<1> HIDE DEF s
<1>3. Sound(From)
  BY FromIsSound
<1>4. PICK r : CompileTrace(r, From, s, Headers)
  BY <1>1, <1>3, HeadersAreParsed, CompileTraced
<1>5. none.ok = TRUE /\ none.ctx = From /\ none.instructions = <<>>
  BY DEF Accepted
<1>6. Compile(From, s) = Joined(none, p)
  <2>1. r[0] = none /\ r[1] = Compile(From, s)
    BY <1>1, <1>4 DEF CompileTrace
  <2>2. 1 \in 1 .. Len(s) /\ 1 - 1 = 0
    BY <1>1
  <2>3. r[1] = IF r[1 - 1].ok THEN Joined(r[1 - 1], PutPicture(r[1 - 1].ctx, s[1])) ELSE r[1 - 1]
    BY <1>4, <2>2 DEF CompileTrace
  <2> HIDE DEF none
  <2> QED BY <1>1, <1>5, <2>1, <2>2, <2>3
<1>7. p \in CompiledFrom(From, Headers)
  BY <1>3, HeadersAreParsed, PutPictureCompiles
<1> HIDE DEF none, p
<1>8. p.instructions \in Seq(Instructions(Headers)) /\ p.ok \in BOOLEAN
  BY <1>7, CompiledFields
<1>9. CASE p.ok
  <2>1. Joined(none, p).ok
    BY <1>7, <1>9, CompiledFields DEF Joined, Outcomes
  <2>2. JoinedOn(none, p)
    BY <1>7, <2>1, JoinedIs
  <2>3. none.instructions \o p.instructions = p.instructions
    <3>1. \A T : \A q \in Seq(T) : <<>> \o q = q
      OBVIOUS
    <3> QED BY <1>5, <1>8, <3>1
  <2>4. Joined(none, p).ctx = p.ctx /\ Joined(none, p).instructions = p.instructions
    BY <2>2, <2>3 DEF JoinedOn
  <2> QED BY <1>2, <1>6, <2>4 DEF p
<1>10. CASE ~p.ok
  <2>1. Joined(none, p) = p
    BY <1>10 DEF Joined
  <2> QED BY <1>2, <1>6, <2>1 DEF p
<1> QED BY <1>8, <1>9, <1>10

\* The instructions do not depend on how they came about.
LEMMA WorkingNext ==
  ASSUME NEW ins, NEW x, Working(ins, x), todo' = ins, UNCHANGED <<active, slotOf, content>>
  PROVE  Working(todo, x)'
<1>1. \A v : Buffers(v) => Buffers(v)'
  BY DEF Buffers
<1>2. LeadsExactly(ins, x) => LeadsExactly(todo, x)'
  BY <1>1 DEF LeadsExactly
<1>3. StartsOver(ins, x) => StartsOver(todo, x)'
  BY DEF StartsOver
<1>4. NoReference(ins, x) => NoReference(todo, x)'
  BY DEF NoReference
<1> QED BY <1>2, <1>3, <1>4 DEF Working

Begins(a) == StrictFits(From, a) /\ (a.mode = "on" => Buffers(View(a)))

LEMMA OneWorks ==
  ASSUME Sound(ctx), NEW h \in Headers, NEW a, NEW b \in HStates,
         Begins(a), StrictStep(h, a, b), ProcessEvent(<<h>>)
  PROVE  StrictFits(ctx', b) /\ Working(todo, b)'
<1> DEFINE c == From
           r == PutPicture(c, h)
<1>1. ctx' = r.ctx /\ todo' = r.instructions /\ UNCHANGED <<active, slotOf, content>>
  BY OneProcessed
<1> HIDE DEF c
<1>2. StrictPutting(c, h, a, b)
  BY DEF StrictPutting, Begins, c
<1>3. StrictFits(r.ctx, b) /\ Working(r.instructions, b)
  BY <1>2, PictureStrictlyPut DEF StrictPut
<1> HIDE DEF r
<1> QED BY <1>1, <1>3, WorkingNext

LEMMA NoneWorks ==
  ASSUME Sound(ctx), NEW a, Begins(a), ProcessEvent(<<>>)
  PROVE  StrictFits(ctx', a) /\ Working(todo, a)'
<1>1. ctx' = From /\ todo' = <<>> /\ UNCHANGED <<active, slotOf, content>>
  BY NothingProcessed
<1>2. StrictFits(From, a) /\ a \in HStates /\ Working(<<>>, a)
  BY IdleWorks DEF Begins, StrictFits
<1> QED BY <1>1, <1>2, WorkingNext

LEMMA PictureLost ==
  ASSUME NEW e \in Encoder, e.lost <= MaxLost, NEW pic \in Pics, NEW o \in Pictures(e, pic)
  PROVE  o.enc.lost <= MaxLost
<1>1. CASE o \in IdrPictures(e, pic)
  <2>1. PICK long \in BOOLEAN : o.enc = AfterIdr(e, pic, long)
    BY <1>1, IdrPicturesAre
  <2> DEFINE refs == <<[pic |-> pic, num |-> 0]>>
             f == FreshEncoder(e.uses)
  <2>2. f.lost = 0 /\ f = [f EXCEPT !.lost = f.lost]
    BY DEF FreshEncoder
  <2> HIDE DEF f, refs
  <2>3. o.enc.lost = 0
    BY <2>1, <2>2 DEF AfterIdr, f, refs
  <2> QED BY <2>3, StreamAssumption, EncoderAssumption
<1>2. CASE o \in OtherPictures(e, pic)
  <2>1. PICK p \in Predictions(e.short, e.long, NextNum(e)), m \in LegalMarkings(e, pic) :
          o = [h |-> HeaderOf(e, pic, p, m), enc |-> Marked(e, m)]
    BY <1>2 DEF OtherPictures
  <2>2. o.enc = Marked(e, m)
    BY <2>1
  <2>3. o.enc.lost = e.lost
    BY <2>2 DEF Marked, Encoder
  <2> QED BY <2>3
<1> QED BY <1>1, <1>2 DEF Pictures

LEMMA InitStrict ==
  ASSUME Init
  PROVE  StrictTrack
<1>1. /\ StreamTypes /\ scenario \in Scenarios /\ enc = FreshEncoder(scenario.uses)
      /\ ctx = FreshContext(scenario.strict) /\ buffered = <<>> /\ todo = <<>>
  BY InitTypes DEF Init
<1>2. enc.lost = 0 /\ enc.age = MaxGop /\ Sound(ctx) /\ ctx \in Context /\ ctx.strict \in BOOLEAN
  BY <1>1, DecoderAssumption DEF StreamTypes, Sound, FreshEncoder
<1>3. 0 <= MaxLost /\ MaxGop >= MaxGop
  BY StreamAssumption, EncoderAssumption
<1> DEFINE map == [n \in Nat |-> 1]
           x == [mode |-> "lossy", ctx |-> ctx, map |-> map]
<1>4. map \in Maps
  BY EncoderAssumption DEF Maps, Pics
<1> HIDE DEF map
<1>5. x \in HStates /\ x.mode = "lossy" /\ x.ctx = ctx
  BY <1>2, <1>4 DEF HStates, Modes
<1> HIDE DEF x
<1>6. StrictEnds(enc, x)
  BY <1>2, <1>3, <1>5 DEF StrictEnds
<1>7. Working(todo, x) /\ Pending(buffered, x, x)
  BY <1>1, <1>5, IdleWorks DEF Pending
<1>8. ctx.strict => StrictlyTracked(x, x)
  BY <1>2, <1>5, <1>6, <1>7 DEF StrictlyTracked, StrictFits
<1> QED BY <1>2, <1>3, <1>8 DEF StrictTrack

\* A picture is sent, and an access unit reaches the end of the splitters, if they are full.
LEMMA SplitOne ==
  ASSUME NEW T, NEW h \in T
  PROVE  /\ Append(<<>>, h) = <<h>> /\ Len(<<h>>) = 1
         /\ SubSeq(<<h>>, 1, 0) = <<>> /\ SubSeq(<<h>>, 1, 1) = <<h>> /\ SubSeq(<<h>>, 2, 1) = <<>>
<1> DEFINE s == <<h>>
<1>1. s \in Seq(T) /\ Len(s) = 1 /\ Append(<<>>, h) = s
  OBVIOUS
<1> HIDE DEF s
<1>2. SubSeq(s, 1, 1) = s
  BY <1>1
<1>3. SubSeq(s, 1, 0) = <<>> /\ SubSeq(s, 2, 1) = <<>>
  OBVIOUS
<1> QED BY <1>1, <1>2, <1>3 DEF s

LEMMA SplitTwo ==
  ASSUME NEW T, NEW g \in T, NEW h \in T
  PROVE  /\ Append(<<g>>, h) = <<g, h>> /\ Len(<<g, h>>) = 2
         /\ SubSeq(<<g, h>>, 1, 1) = <<g>> /\ SubSeq(<<g, h>>, 2, 2) = <<h>>
<1> DEFINE s == <<g, h>>
           t == <<g>>
           u == <<h>>
           p == Append(t, h)
           q == SubSeq(s, 1, 1)
           r == SubSeq(s, 2, 2)
<1>1. s \in Seq(T) /\ Len(s) = 2 /\ s[1] = g /\ s[2] = h
  OBVIOUS
<1>2. t \in Seq(T) /\ Len(t) = 1 /\ t[1] = g /\ u \in Seq(T) /\ Len(u) = 1 /\ u[1] = h
  OBVIOUS
<1> HIDE DEF s, t, u
<1>3. p \in Seq(T) /\ Len(p) = 2 /\ p[1] = g /\ p[2] = h
  <2>1. \A w \in Seq(T) : LET v == Append(w, h)
                          IN  /\ v \in Seq(T) /\ Len(v) = Len(w) + 1
                              /\ Len(w) = 1 => v[1] = w[1] /\ v[2] = h
    OBVIOUS
  <2> QED BY <1>2, <2>1
<1>4. q \in Seq(T) /\ Len(q) = 1 /\ q[1] = g
  BY <1>1
<1>5. r \in Seq(T) /\ Len(r) = 1 /\ r[1] = h
  BY <1>1
<1> HIDE DEF p, q, r
<1>6. p = s
  BY <1>1, <1>3
<1>7. q = t /\ r = u
  BY <1>2, <1>4, <1>5
<1> QED BY <1>1, <1>6, <1>7 DEF p, q, r, s, t, u

LEMMA ChunkStrict ==
  ASSUME MaxDelay <= 1, StreamTypes, NEW h \in Headers, NEW a, NEW b, Starting(a, b),
         NEW z \in HStates, StrictStep(h, b, z),
         LET held == Append(buffered, h)
             out  == IF Len(held) > MaxDelay THEN 1 ELSE 0
         IN  /\ ProcessEvent(SubSeq(held, 1, out))
             /\ buffered' = SubSeq(held, out + 1, Len(held))
  PROVE  \E x, y : StrictFits(ctx', x) /\ Working(todo, x)' /\ Pending(buffered', x, y) /\ y = z
<1> DEFINE held == Append(buffered, h)
           out  == IF Len(held) > MaxDelay THEN 1 ELSE 0
<1>1. ProcessEvent(SubSeq(held, 1, out)) /\ buffered' = SubSeq(held, out + 1, Len(held))
  OBVIOUS
<1>2. /\ Sound(ctx) /\ Begins(a) /\ a \in HStates /\ b \in HStates /\ Pending(buffered, a, b)
      /\ MaxDelay \in Nat
  BY DecoderAssumption DEF Starting, Begins, StreamTypes, StrictFits, StrictEnds
<1>3. CASE buffered = <<>> /\ a = b
  <2>1. held = <<h>> /\ Len(held) = 1
    BY <1>3, SplitOne
  <2>2. CASE MaxDelay = 0
    <3>1. SubSeq(held, 1, out) = <<h>> /\ SubSeq(held, out + 1, Len(held)) = <<>>
      BY <2>1, <2>2, SplitOne
    <3>2. ProcessEvent(<<h>>) /\ buffered' = <<>>
      BY <1>1, <3>1 DEF ProcessEvent
    <3>3. StrictFits(ctx', z) /\ Working(todo, z)'
      BY <1>2, <1>3, <3>2, OneWorks
    <3> QED BY <3>2, <3>3 DEF Pending
  <2>3. CASE MaxDelay = 1
    <3>1. SubSeq(held, 1, out) = <<>> /\ SubSeq(held, out + 1, Len(held)) = <<h>>
      BY <2>1, <2>3, SplitOne
    <3>2. ProcessEvent(<<>>) /\ buffered' = <<h>>
      BY <1>1, <3>1 DEF ProcessEvent
    <3>3. StrictFits(ctx', a) /\ Working(todo, a)'
      BY <1>2, <3>2, NoneWorks
    <3>4. Pending(buffered', a, z)
      BY <1>3, <3>2 DEF Pending
    <3> QED BY <3>3, <3>4
  <2> QED BY <1>2, <2>2, <2>3
<1>4. ASSUME NEW g \in Headers, buffered = <<g>>, StrictStep(g, a, b)
      PROVE  \E x, y : /\ StrictFits(ctx', x) /\ Working(todo, x)' /\ Pending(buffered', x, y)
                       /\ y = z
  <2> DEFINE two == <<g, h>>
  <2>1. /\ Append(<<g>>, h) = two /\ Len(two) = 2
        /\ SubSeq(two, 1, 1) = <<g>> /\ SubSeq(two, 2, 2) = <<h>>
    BY SplitTwo
  <2> HIDE DEF two
  <2>2. SubSeq(held, 1, out) = <<g>> /\ SubSeq(held, out + 1, Len(held)) = <<h>>
    <3>1. held = two
      BY <1>4, <2>1
    <3>2. out = 1
      BY <1>2, <2>1, <3>1
    <3> HIDE DEF held, out
    <3>3. out + 1 = 2 /\ Len(held) = 2
      BY <2>1, <3>1, <3>2
    <3>4. SubSeq(held, 1, out) = <<g>>
      BY <2>1, <3>1, <3>2
    <3>5. SubSeq(held, out + 1, Len(held)) = <<h>>
      BY <2>1, <3>1, <3>3, Zenon
    <3> QED BY <3>4, <3>5
  <2>3. ProcessEvent(<<g>>) /\ buffered' = <<h>>
    BY <1>1, <2>2 DEF ProcessEvent
  <2>4. StrictFits(ctx', b) /\ Working(todo, b)'
    BY <1>2, <1>4, <2>3, OneWorks
  <2>5. Pending(buffered', b, z)
    BY <2>3 DEF Pending
  <2> QED BY <2>4, <2>5
<1> QED BY <1>2, <1>3, <1>4 DEF Pending

LEMMA DecodeChunkStrict ==
  ASSUME MaxRefs >= 1, MaxDelay <= 1, MaxLost + 1 < MaxFrameNum,
         StreamTypes, Track, StrictTrack, DecodeChunk
  PROVE  StrictTrack'
<1>1. PICK pic \in FreshPics : \E o \in Pictures(enc, pic) :
        LET held == Append(buffered, o.h)
            out  == IF Len(held) > MaxDelay THEN 1 ELSE 0
        IN  /\ ProcessEvent(SubSeq(held, 1, out))
            /\ buffered' = SubSeq(held, out + 1, Len(held))
            /\ enc' = o.enc
  BY DEF DecodeChunk
<1>2. PICK o \in Pictures(enc, pic) :
        LET held == Append(buffered, o.h)
            out  == IF Len(held) > MaxDelay THEN 1 ELSE 0
        IN  /\ ProcessEvent(SubSeq(held, 1, out))
            /\ buffered' = SubSeq(held, out + 1, Len(held))
            /\ enc' = o.enc
  BY <1>1
<1> DEFINE h    == o.h
           held == Append(buffered, h)
           out  == IF Len(held) > MaxDelay THEN 1 ELSE 0
<1>3. /\ ProcessEvent(SubSeq(held, 1, out))
      /\ buffered' = SubSeq(held, out + 1, Len(held)) /\ enc' = o.enc
  BY <1>2
<1>4. /\ pic \in Pics /\ h \in Headers /\ enc \in Encoder /\ o.enc.uses = enc.uses
      /\ enc.lost <= MaxLost /\ Orderly(enc)
  BY FreshPicIsPic, PicturesType DEF StreamTypes, StrictTrack, Track
<1>5. enc'.lost <= MaxLost /\ enc'.uses = enc.uses
  BY <1>3, <1>4, PictureLost
<1>6. SubSeq(held, 1, out) \in Seq(Headers)
  BY <1>4, ChunkSplit DEF StreamTypes
<1>7. todo = <<>> /\ ctx'.strict = ctx.strict
  BY <1>3, <1>6, EventTypes DEF ProcessEvent, StreamTypes
<1>8. ASSUME ctx.strict, ~enc.uses.gaps
      PROVE  \E x, y : StrictlyTracked(x, y)'
  <2>1. PICK a, b : Starting(a, b)
    BY <1>7, <1>8, EventStartsStrictly DEF StrictTrack
  <2>2. StrictSending(enc, pic, o, b)
    BY <1>4, <1>8, <2>1 DEF StrictSending, Bounded, Starting
  <2>3. PICK z \in HStates : StrictStep(h, b, z) /\ StrictEnds(o.enc, z)
    BY <2>2, PictureStrictlySends DEF StrictSends
  <2> HIDE DEF h
  <2>4. PICK x, y : /\ StrictFits(ctx', x) /\ Working(todo, x)' /\ Pending(buffered', x, y)
                    /\ y = z
    BY <1>3, <1>4, <2>1, <2>3, ChunkStrict
  <2>5. StrictEnds(enc', y)
    BY <1>3, <2>3, <2>4
  <2> QED BY <2>4, <2>5 DEF StrictlyTracked
<1> HIDE DEF h, held, out
<1> QED BY <1>5, <1>7, <1>8 DEF StrictTrack

LEMMA FlushStrict ==
  ASSUME StreamTypes, StrictTrack, Flush
  PROVE  StrictTrack'
<1>1. /\ buffered # <<>> /\ ProcessEvent(buffered) /\ buffered' = <<>> /\ enc' = enc /\ todo = <<>>
      /\ buffered \in Seq(Headers) /\ Sound(ctx)
  BY DEF Flush, ProcessEvent, StreamTypes
<1>2. ctx'.strict = ctx.strict
  BY <1>1, EventTypes DEF StreamTypes
<1>3. ASSUME ctx.strict, ~enc.uses.gaps
      PROVE  \E x, y : StrictlyTracked(x, y)'
  <2>1. PICK a, b : Starting(a, b)
    BY <1>1, <1>3, EventStartsStrictly DEF StrictTrack
  <2>2. Begins(a) /\ b \in HStates /\ StrictEnds(enc, b)
    BY <2>1 DEF Starting, Begins, StrictEnds
  <2>3. PICK h \in Headers : buffered = <<h>> /\ StrictStep(h, a, b)
    BY <1>1, <2>1 DEF Starting, Pending
  <2>4. ProcessEvent(<<h>>)
    BY <1>1, <2>3 DEF ProcessEvent
  <2>5. StrictFits(ctx', b) /\ Working(todo, b)'
    BY <1>1, <2>2, <2>3, <2>4, OneWorks
  <2>6. StrictlyTracked(b, b)'
    BY <1>1, <2>2, <2>5 DEF StrictlyTracked, Pending
  <2> QED BY <2>6
<1> QED BY <1>1, <1>2, <1>3 DEF StrictTrack

LEMMA LossLost ==
  ASSUME NEW e \in Encoder, NEW pic \in Pics, NEW x \in Losses(e, pic)
  PROVE  x.lost <= MaxLost
<1>1. PICK o \in OtherPictures(e, pic) :
        e.lost < MaxLost /\ x = [o.enc EXCEPT !.whole = FALSE, !.lost = @ + 1]
  BY DEF Losses
<1>2. PICK p \in Predictions(e.short, e.long, NextNum(e)), m \in LegalMarkings(e, pic) :
        o = [h |-> HeaderOf(e, pic, p, m), enc |-> Marked(e, m)]
  BY <1>1 DEF OtherPictures
<1> DEFINE f == o.enc
<1>3. f = Marked(e, m) /\ f \in Encoder
  BY <1>1, <1>2, OtherPicturesType
<1>4. f.lost = e.lost /\ e.lost \in Nat /\ MaxLost \in Nat
  BY <1>3, EncoderAssumption DEF Marked, Encoder
<1>5. x = [f EXCEPT !.whole = FALSE, !.lost = f.lost + 1]
  BY <1>1
<1> HIDE DEF f
<1>6. x.lost = e.lost + 1
  BY <1>3, <1>4, <1>5 DEF Encoder
<1> QED BY <1>1, <1>4, <1>6

LEMMA LosePictureStrict ==
  ASSUME MaxLost + 1 < MaxFrameNum, StreamTypes, Track, StrictTrack, LosePicture
  PROVE  StrictTrack'
<1>1. /\ todo = <<>> /\ UNCHANGED <<todo, buffered, active, slotOf, content>>
      /\ \/ ctx' = ctx
         \/ ctx' = [ctx EXCEPT !.corrupted = TRUE]
  BY DEF LosePicture, dpbVars
<1>2. PICK pic \in FreshPics : enc' \in Losses(enc, pic)
  BY DEF LosePicture
<1>3. /\ pic \in Pics /\ enc \in Encoder /\ enc.lost <= MaxLost /\ Orderly(enc) /\ Sound(ctx)
  BY FreshPicIsPic DEF StreamTypes, StrictTrack, Track
<1>4. enc'.lost <= MaxLost /\ enc'.uses = enc.uses
  BY <1>2, <1>3, LossesType, LossLost
<1>5. ctx'.strict = ctx.strict
  BY <1>1, <1>3, CorruptedSound
<1>6. ASSUME ctx.strict, ~enc.uses.gaps
      PROVE  \E x, y : StrictlyTracked(x, y)'
  <2>1. PICK x, y : StrictlyTracked(x, y)
    BY <1>6 DEF StrictTrack
  <2>2. Losing(enc, pic, enc', y)
    BY <1>2, <1>3, <1>6, <2>1 DEF Losing, Bounded, StrictlyTracked
  <2>3. StrictEnds(enc', y)
    BY <2>2, LossStrictlyEnds
  <2>4. Working(<<>>, x)
    BY <1>1, <2>1 DEF StrictlyTracked
  <2>5. CASE ctx' = ctx
    <3>1. Working(todo, x)'
      BY <1>1, <2>4, WorkingNext
    <3>2. StrictlyTracked(x, y)'
      BY <1>1, <2>1, <2>3, <2>5, <3>1 DEF StrictlyTracked
    <3> QED BY <3>2
  <2>6. CASE ctx' = [ctx EXCEPT !.corrupted = TRUE]
    <3>1. Rebased(buffered, enc', x, y)
      BY <2>1, <2>3 DEF Rebased, StrictlyTracked, StrictFits
    <3>2. PICK b : Rebased(buffered, enc', Off(x), b)
      BY <3>1, OffPends
    <3>3. StrictFits(ctx', Off(x))
      BY <2>1, <2>6, CorruptedFits DEF Corrupted, StrictlyTracked
    <3>4. Off(x) \in HStates /\ Off(x).mode # "on"
      BY <3>1, OffIsState DEF Rebased
    <3>5. Working(<<>>, Off(x))
      BY <3>4, IdleWorks
    <3>6. Working(todo, Off(x))'
      BY <1>1, <3>5, WorkingNext
    <3>7. StrictlyTracked(Off(x), b)'
      BY <1>1, <3>2, <3>3, <3>6 DEF StrictlyTracked, Rebased
    <3> QED BY <3>7
  <2> QED BY <1>1, <2>5, <2>6
<1> QED BY <1>4, <1>5, <1>6 DEF StrictTrack

LEMMA SkipPictureStrict ==
  ASSUME StreamTypes, StrictTrack, SkipPicture
  PROVE  StrictTrack'
<1>1. CanSkip(enc) /\ enc' = Skipped(enc) /\ enc \in Encoder
  BY DEF SkipPicture, StreamTypes
<1>2. enc'.uses = enc.uses /\ enc.uses.gaps
  BY <1>1, SkippedType DEF CanSkip
<1>3. enc'.lost = enc.lost
  BY <1>1 DEF Skipped, Encoder
<1> QED BY <1>2, <1>3 DEF StrictTrack

LEMMA UnchangedStrict ==
  ASSUME StrictTrack, ResultKnown \/ UNCHANGED vars
  PROVE  StrictTrack'
<1>1. UNCHANGED <<enc, buffered, ctx, todo, active, slotOf, content>>
  BY DEF ResultKnown, vars, dpbVars
<1>2. \A x : Working(todo, x) => Working(todo, x)'
  BY <1>1, WorkingNext
<1>3. \A x, y : StrictlyTracked(x, y) => StrictlyTracked(x, y)'
  BY <1>1, <1>2 DEF StrictlyTracked
<1> QED BY <1>1, <1>3 DEF StrictTrack

\* What DoDecode leaves, if it succeeds.
Filled(i, used, map, pics, slot) ==
  /\ todo' = Tail(todo) /\ active' = used \cup {slot}
  /\ DOMAIN slotOf' = DOMAIN map \cup {i.id}
  /\ \A id \in DOMAIN slotOf' : slotOf'[id] = IF id = i.id THEN slot ELSE map[id]
  /\ \A s \in Slots : content'[s] = IF s = slot THEN i.of.pic ELSE pics[s]

LEMMA DecodeSucceeds ==
  ASSUME NEW i, NEW used, NEW map, NEW pics \in [Slots -> Pics \cup {NoPic}],
         ~(Slots \subseteq used), \A slot : Resolves(map, used \cup {slot}, i.refs),
         DoDecode(i, used, map, pics)
  PROVE  \E slot \in Slots \ used : Filled(i, used, map, pics, slot)
<1> DEFINE slot   == MinFree(used)
           longer == [id \in DOMAIN map \cup {i.id} |-> IF id = i.id THEN slot ELSE map[id]]
<1>1. slot \in Slots \ used
  BY MinFreeIsFree
<1> HIDE DEF slot
<1>2. Resolves(map, used \cup {slot}, i.refs)
  OBVIOUS
<1>3. active' = used \cup {slot}
  BY DEF DoDecode, slot
<1>4. slotOf' = longer /\ todo' = Tail(todo) /\ content' = [pics EXCEPT ![slot] = i.of.pic]
  BY <1>2, <1>3 DEF DoDecode, Resolves, slot
<1>5. /\ DOMAIN slotOf' = DOMAIN map \cup {i.id}
      /\ \A id \in DOMAIN slotOf' : slotOf'[id] = IF id = i.id THEN slot ELSE map[id]
      /\ \A s \in Slots : content'[s] = IF s = slot THEN i.of.pic ELSE pics[s]
  BY <1>1, <1>4
<1> QED BY <1>1, <1>3, <1>4, <1>5 DEF Filled

\* One instruction takes what the buffer holds from v to w.
Done(w) == todo' = Tail(todo) /\ Buffers(w)'

LEMMA DecodeFollows ==
  ASSUME IInv, NEW i \in Instructions(Headers), i.op = "Decode", NEW v \in Views, NEW w \in Views,
         Exact(i, v, w), Buffers(v), content \in [Slots -> Pics \cup {NoPic}],
         DoDecode(i, active, slotOf, content)
  PROVE  Done(w)
<1>1. /\ Few(v.ids) /\ i.id \notin v.ids /\ w.ids = v.ids \cup {i.id}
      /\ w.map = [v.map EXCEPT ![i.id] = i.of.pic] /\ ToSet(i.refs) \subseteq v.ids
  BY DEF Exact
<1>2. /\ DOMAIN slotOf = v.ids /\ active = {slotOf[id] : id \in DOMAIN slotOf}
      /\ \A id \in v.ids : content[slotOf[id]] = v.map[id]
  BY DEF Buffers
<1>3. active \subseteq Slots /\ \A id \in v.ids : slotOf[id] \in active /\ slotOf[id] \in Slots
  BY <1>2 DEF IInv, SlotsApart
<1>4. ~(Slots \subseteq active)
  BY <1>1, <1>2, <1>3, SlotLeft
<1>5. \A slot : Resolves(slotOf, active \cup {slot}, i.refs)
  <2>1. \A k \in DOMAIN i.refs : i.refs[k] \in v.ids
    BY <1>1 DEF ToSet
  <2> QED BY <1>2, <1>3, <2>1 DEF Resolves
<1>6. \E slot \in Slots : slot \notin active /\ Filled(i, active, slotOf, content, slot)
  BY <1>4, <1>5, DecodeSucceeds
<1>7. PICK slot \in Slots :
      /\ slot \notin active /\ todo' = Tail(todo) /\ active' = active \cup {slot}
      /\ DOMAIN slotOf' = DOMAIN slotOf \cup {i.id}
      /\ \A id \in DOMAIN slotOf' : slotOf'[id] = IF id = i.id THEN slot ELSE slotOf[id]
      /\ \A s \in Slots : content'[s] = IF s = slot THEN i.of.pic ELSE content[s]
  BY <1>6 DEF Filled
<1>8. v.map \in Maps /\ i.id \in Nat /\ v.ids \subseteq Nat
  BY DEF Views, RefSets, Instructions
<1>9. w.map[i.id] = i.of.pic /\ \A id \in v.ids : w.map[id] = v.map[id]
  BY <1>1, <1>8 DEF Maps
<1>10. ASSUME NEW id \in w.ids PROVE content'[slotOf'[id]] = w.map[id]
  <2>1. CASE id = i.id
    BY <1>2, <1>7, <1>9, <2>1
  <2>2. CASE id # i.id
    <3>1. id \in v.ids /\ slotOf'[id] = slotOf[id]
      BY <1>1, <1>2, <1>7, <2>2
    <3>2. content'[slotOf[id]] = content[slotOf[id]]
      BY <1>3, <1>7, <3>1
    <3> QED BY <1>2, <1>9, <3>1, <3>2
  <2> QED BY <2>1, <2>2
<1>11. DOMAIN slotOf' = w.ids
  BY <1>1, <1>2, <1>7
<1>12. active' = {slotOf'[id] : id \in DOMAIN slotOf'}
  <2>1. \A id \in v.ids : slotOf'[id] = slotOf[id]
    BY <1>1, <1>2, <1>7
  <2>2. slotOf'[i.id] = slot
    BY <1>7
  <2> QED BY <1>1, <1>2, <1>7, <2>1, <2>2
<1>13. \A id \in w.ids : content'[slotOf'[id]] = w.map[id]
  BY <1>10
<1>14. todo' = Tail(todo)
  BY <1>7
<1> QED BY <1>11, <1>12, <1>13, <1>14 DEF Done, Buffers

LEMMA DropFollows ==
  ASSUME IInv, NEW i \in Instructions(Headers), i.op = "Drop", NEW v \in Views, NEW w \in Views,
         Exact(i, v, w), Buffers(v), DoDrop(i)
  PROVE  Done(w)
<1>1. ToSet(i.ids) \subseteq v.ids /\ w.ids = v.ids \ ToSet(i.ids) /\ w.map = v.map
  BY DEF Exact
<1>2. /\ DOMAIN slotOf = v.ids /\ active = {slotOf[id] : id \in DOMAIN slotOf}
      /\ \A id \in v.ids : content[slotOf[id]] = v.map[id]
  BY DEF Buffers
<1>3. i.ids \in Seq(Nat)
  BY DEF Instructions
<1>4. /\ todo' = Tail(todo)
      /\ DOMAIN slotOf' = DOMAIN slotOf \ ToSet(i.ids)
      /\ active' = {slotOf'[id] : id \in DOMAIN slotOf'}
  BY <1>1, <1>2, <1>3, DroppedMirrors
<1>5. \A id \in DOMAIN slotOf' : content'[slotOf'[id]] = content[slotOf[id]]
  BY DropKeepsContent
<1>6. DOMAIN slotOf' = w.ids /\ \A id \in w.ids : content'[slotOf'[id]] = w.map[id]
  BY <1>1, <1>2, <1>4, <1>5
<1> QED BY <1>4, <1>6 DEF Done, Buffers

\* Of the three ways the instructions can be, each goes on.
Executed ==
  LET i == Head(todo)
  IN  \/ i.op = "Idr" /\ DoDecode(i, {}, <<>>, [s \in Slots |-> NoPic])
      \/ i.op = "Decode" /\ DoDecode(i, active, slotOf, content)
      \/ i.op = "Drop" /\ DoDrop(i)

LEMMA ExactExecuted ==
  ASSUME IInv, StreamTypes, BufferTypes, todo # <<>>, Executed,
         NEW x \in HStates, LeadsExactly(todo, x)
  PROVE  LeadsExactly(todo, x)'
<1> DEFINE i == Head(todo)
<1>1. /\ \/ i.op = "Idr" /\ DoDecode(i, {}, <<>>, [s \in Slots |-> NoPic])
         \/ i.op = "Decode" /\ DoDecode(i, active, slotOf, content)
         \/ i.op = "Drop" /\ DoDrop(i)
  BY DEF Executed
<1>2. todo \in Seq(Instructions(Headers)) /\ i \in Instructions(Headers)
  BY DEF StreamTypes
<1>3. x.mode = "on" /\ \E v \in Views : Exactly(todo, v, View(x)) /\ Buffers(v)
  BY DEF LeadsExactly
<1>4. PICK v \in Views : Exactly(todo, v, View(x)) /\ Buffers(v)
  BY <1>3
<1>5. PICK w \in Views : <<i, v, w>> \in ExactSteps /\ Runs(ExactSteps, Views, Tail(todo), w, View(x))
  BY <1>2, <1>4, RunsFirst DEF Exactly
<1> HIDE DEF i
<1>6. i.op # "Idr" /\ Exact(i, v, w)
  BY <1>2, <1>5, IsExactStep DEF ExactStep
<1>7. Done(w)
  <2>1. CASE i.op = "Decode" /\ DoDecode(i, active, slotOf, content)
    BY <1>2, <1>4, <1>6, <2>1, DecodeFollows DEF BufferTypes
  <2>2. CASE i.op = "Drop" /\ DoDrop(i)
    BY <1>2, <1>4, <1>6, <2>2, DropFollows
  <2> QED BY <1>1, <1>6, <2>1, <2>2
<1>8. todo' = Tail(todo) /\ Buffers(w)'
  BY <1>7 DEF Done
<1>9. Exactly(todo', w, View(x))
  BY <1>5, <1>8 DEF Exactly
<1> QED BY <1>3, <1>8, <1>9 DEF LeadsExactly

LEMMA StartExecuted ==
  ASSUME todo # <<>>, Executed, NEW x \in HStates, StartsOver(todo, x)
  PROVE  LeadsExactly(todo, x)'
<1>1. PICK h \in Headers : todo = <<Idr(h, 0)>> /\ x.map[0] = h.pic
  BY DEF StartsOver
<1> DEFINE i    == Head(todo)
           none == [s \in Slots |-> NoPic]
<1>2. i = Idr(h, 0) /\ Tail(todo) = <<>>
  BY <1>1
<1>3. i.op = "Idr" /\ i.id = 0 /\ i.refs = <<>> /\ i.of.pic = h.pic
  BY <1>2 DEF Idr
<1>4. DoDecode(i, {}, <<>>, none)
  BY <1>3 DEF Executed
<1>5. none \in [Slots -> Pics \cup {NoPic}] /\ DOMAIN <<>> = {}
  OBVIOUS
<1>6. ~(Slots \subseteq {})
  <2>1. 0 \in Slots
    BY StreamAssumption DEF Slots
  <2> QED BY <2>1
<1> HIDE DEF i, none
<1>7. \A slot : Resolves(<<>>, {} \cup {slot}, i.refs)
  BY <1>3, <1>5 DEF Resolves
<1>8. PICK slot \in Slots \ {} : Filled(i, {}, <<>>, none, slot)
  BY <1>4, <1>5, <1>6, <1>7, DecodeSucceeds
<1>9. /\ todo' = <<>> /\ active' = {slot} /\ DOMAIN slotOf' = {0}
      /\ slotOf'[0] = slot /\ content'[slot] = h.pic
  BY <1>2, <1>3, <1>5, <1>8 DEF Filled
<1>10. x.mode = "on" /\ View(x) \in Views /\ View(x).ids = {0} /\ View(x).map = x.map
  BY StateFields DEF StartsOver
<1> DEFINE v == View(x)
<1> HIDE DEF v
<1>11. Buffers(v)'
  <2>1. v.ids = {0} /\ v.map[0] = h.pic
    BY <1>1, <1>10 DEF v
  <2> QED BY <1>9, <2>1 DEF Buffers
<1>12. Exactly(todo', v, v) /\ v \in Views
  BY <1>9, <1>10, NothingRuns DEF Exactly, v
<1>13. Exactly(todo', v, View(x))
  BY <1>12 DEF v
<1> QED BY <1>10, <1>11, <1>12, <1>13 DEF LeadsExactly

LEMMA NoReferenceExecuted ==
  ASSUME StreamTypes, BufferTypes, todo # <<>>, Executed, NEW x, NoReference(todo, x)
  PROVE  NoReference(todo, x)'
<1> DEFINE i == Head(todo)
<1>1. todo \in Seq(Instructions(Headers)) /\ i \in Instructions(Headers)
  BY DEF StreamTypes
<1>2. i.op # "Idr"
  <2>1. 1 \in DOMAIN todo /\ i = todo[1]
    BY <1>1
  <2> QED BY <2>1 DEF NoReference
<1>3. todo' = <<>> \/ todo' = Tail(todo)
  <2>1. CASE i.op = "Decode" /\ DoDecode(i, active, slotOf, content)
    <3>1. StoredOrNot(i, active, slotOf, content)
      BY <1>1, <2>1, DecodeOutcome DEF BufferTypes
    <3> QED BY <3>1 DEF StoredOrNot, Stored
  <2>2. CASE i.op = "Drop" /\ DoDrop(i)
    BY <2>2 DEF DoDrop, Abandon
  <2> QED BY <1>2, <2>1, <2>2 DEF Executed
<1>4. \A k \in DOMAIN todo' : \E m \in DOMAIN todo : todo'[k] = todo[m]
  <2>1. DOMAIN <<>> = {}
    OBVIOUS
  <2>2. \A q \in Seq(Instructions(Headers)) : q # <<>> =>
          \A k \in DOMAIN Tail(q) : k + 1 \in DOMAIN q /\ Tail(q)[k] = q[k + 1]
    OBVIOUS
  <2> QED BY <1>1, <1>3, <2>1, <2>2
<1> QED BY <1>4 DEF NoReference

LEMMA ExecuteStrict ==
  ASSUME IInv, StreamTypes, BufferTypes, StrictTrack, Execute
  PROVE  StrictTrack'
<1>1. /\ todo # <<>> /\ UNCHANGED <<enc, buffered, ctx>> /\ Executed
  BY DEF Execute, Executed
<1>2. ASSUME NEW x, NEW y, StrictlyTracked(x, y) PROVE StrictlyTracked(x, y)'
  <2>1. x \in HStates /\ Working(todo, x)
    BY <1>2 DEF StrictlyTracked, StrictFits
  <2>2. Working(todo, x)'
    BY <1>1, <2>1, ExactExecuted, StartExecuted, NoReferenceExecuted DEF Working
  <2> QED BY <1>1, <1>2, <2>2 DEF StrictlyTracked
<1> QED BY <1>1, <1>2 DEF StrictTrack

LEMMA NextStrict ==
  ASSUME MaxRefs >= 1, MaxDelay <= 1, MaxLost + 1 < MaxFrameNum,
         IInv, StreamTypes, BufferTypes, Track, StrictTrack, [Next]_vars
  PROVE  StrictTrack'
BY DecodeChunkStrict, FlushStrict, LosePictureStrict, SkipPictureStrict, ExecuteStrict,
   UnchangedStrict DEF Next

LEMMA StrictDecodes ==
  ASSUME IInv, StreamTypes, StrictTrack
  PROVE  StrictReferencesAreRight
<1> DEFINE i == Head(todo)
<1> SUFFICES ASSUME ctx.strict, ~enc.uses.gaps, todo # <<>>, i.op = "Decode",
                    i.of.marking # "none", Resolves(slotOf, active, i.refs)
             PROVE  [k \in DOMAIN i.refs |-> content[slotOf[i.refs[k]]]] = i.of.wanted
  BY DEF StrictReferencesAreRight
<1>1. todo \in Seq(Instructions(Headers)) /\ i \in Instructions(Headers)
  BY DEF StreamTypes
<1>2. PICK x, y : StrictlyTracked(x, y)
  BY DEF StrictTrack
<1>3. CASE LeadsExactly(todo, x)
  <2>1. PICK v \in Views : Exactly(todo, v, View(x)) /\ Buffers(v)
    BY <1>3 DEF LeadsExactly
  <2>2. PICK w \in Views : <<i, v, w>> \in ExactSteps
    BY <1>1, <2>1, RunsFirst DEF Exactly
  <2> HIDE DEF i
  <2>3. Exact(i, v, w)
    BY <1>1, <2>2, IsExactStep DEF ExactStep
  <2>4. /\ ToSet(i.refs) \subseteq v.ids
        /\ [k \in DOMAIN i.refs |-> v.map[i.refs[k]]] = i.of.wanted
    BY <2>3 DEF Exact
  <2>5. \A k \in DOMAIN i.refs : i.refs[k] \in v.ids
    BY <2>4 DEF ToSet
  <2>6. \A k \in DOMAIN i.refs : content[slotOf[i.refs[k]]] = v.map[i.refs[k]]
    BY <2>1, <2>5 DEF Buffers
  <2>7. [k \in DOMAIN i.refs |-> content[slotOf[i.refs[k]]]] = [k \in DOMAIN i.refs |-> v.map[i.refs[k]]]
    BY <2>6
  <2> QED BY <2>4, <2>7
<1>4. ~StartsOver(todo, x)
  <2>1. \A h : Head(<<Idr(h, 0)>>) = Idr(h, 0) /\ Idr(h, 0).op = "Idr"
    BY DEF Idr
  <2> QED BY <2>1 DEF StartsOver
<1>5. ~NoReference(todo, x)
  <2>1. 1 \in DOMAIN todo /\ i = todo[1]
    BY <1>1
  <2> QED BY <2>1 DEF NoReference
<1> QED BY <1>2, <1>3, <1>4, <1>5 DEF StrictlyTracked, Working

(* Strict handling: whatever is lost, with a notice or without one, a      *)
(* reference picture is decoded from exactly the pictures it was predicted *)
(* from, or not at all (verify_frame_num and the corrupted state).  For    *)
(* streams as above, when fewer pictures of a group are lost than          *)
(* frame_num can tell, and an event completes at most one access unit.     *)
THEOREM StrictReferencesAreRightCorrect ==
  ASSUME MaxRefs >= 1, \A s \in Scenarios : ~s.uses.resets,
         MaxLost + 1 < MaxFrameNum, MaxDelay <= 1
  PROVE  Spec => []StrictReferencesAreRight
<1>1. IInv /\ StreamTypes /\ StrictTrack => StrictReferencesAreRight
  BY StrictDecodes
<1>2. Init => IInv /\ StreamTypes /\ BufferTypes /\ Track /\ StrictTrack
  BY InitIInv, InitTypes, InitTracked, InitStrict
<1>3. IInv /\ StreamTypes /\ BufferTypes /\ Track /\ StrictTrack /\ [Next]_vars
        => (IInv /\ StreamTypes /\ BufferTypes /\ Track /\ StrictTrack)'
  BY NextIInv, NextTypes, NextTracked, NextStrict
<1> QED BY <1>1, <1>2, <1>3, PTL DEF Spec
=============================================================================
