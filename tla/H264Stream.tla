----------------------------- MODULE H264Stream -----------------------------
(***************************************************************************)
(* The other end of the H.264 decoder: an encoder that keeps its reference *)
(* pictures the way clause 8.2.5 of the H.264 specification describes.  It *)
(* uses the sliding window, each memory management operation and either    *)
(* kind of list modification, but at most one modification per picture and *)
(* one long-term index.  It is not part of this repository; H264Decoder    *)
(* compares with it what the reference manager makes of the headers.       *)
(*                                                                         *)
(* It works with pictures, not with numbers: `short` are the short-term   *)
(* references in decoding order, so the sliding window takes the first and *)
(* a P slice starts with the last, and `long` is the long-term reference,  *)
(* if there is one.  frame_num is what it writes into the header.  A       *)
(* header also says, for the properties only, which picture it is, which   *)
(* ones it was predicted from (`wanted`), and whether every picture since  *)
(* the last IDR picture has been delivered (`whole`).                      *)
(***************************************************************************)
EXTENDS ReferenceManager

CONSTANTS
  MaxPics,       \* bound: names for the pictures alive at one time
  MaxGop,        \* bound: pictures from one IDR picture to the next
  MaxLost        \* pictures lost between two IDR pictures

ASSUME EncoderAssumption ==
  /\ {MaxPics, MaxGop} \subseteq Nat \ {0} /\ MaxLost \in Nat

\* The picture inferred for a gap in frame_num.
Ghost == 0
Pics  == 1 .. MaxPics

(* What a stream makes use of: gaps_in_frame_num_value_allowed_flag,       *)
(* long-term references, and memory_management_control_operation 5.        *)
Features == [gaps : BOOLEAN, longTerms : BOOLEAN, resets : BOOLEAN]

\* Before the first IDR picture.
FreshEncoder(features) ==
  [short |-> <<>>, long |-> <<>>, prev |-> 0, age |-> MaxGop, uses |-> features, whole |-> TRUE,
   lost |-> 0, skipped |-> 0]

NextNum(enc) == (enc.prev + 1) % MaxFrameNum

\* Room for one more reference
CanSlide(short, long) == Len(short) + Len(long) < MaxRefs \/ short # <<>>

Slid(short, long) == IF Len(short) + Len(long) < MaxRefs THEN short ELSE Tail(short)

\* How many frame_nums the picture num is behind r.
Distance(num, r) == (num - r.num) % MaxFrameNum

-----------------------------------------------------------------------------
(* The reference list: one of the pictures comes first, the others keep    *)
(* the initial order, and the slice uses them up to the first inferred one. *)

DefaultList(short, long) == Reverse(short) \o long

Led(list, i) == <<list[i]>> \o RemoveAt(list, i)

Usable(list) ==
  LET ghost == SelectInSeq(list, LAMBDA r : r.pic = Ghost)
  IN  IF ghost = 0 THEN list ELSE SubSeq(list, 1, ghost - 1)

Intra == [intra |-> TRUE, active |-> 0, mods |-> <<>>, wanted |-> <<>>]

\* Picture i of the list comes first.
Predicted(short, long, num, i) ==
  LET list == DefaultList(short, long)
      used == Usable(Led(list, i))
      modification == IF i <= Len(short)
                      THEN [op |-> "Subtract", value |-> Distance(num, list[i]) - 1]
                      ELSE [op |-> "LongTermRef", value |-> 0]
  IN  [intra |-> FALSE, active |-> Len(used),
       mods   |-> IF i = 1 THEN <<>> ELSE <<modification>>,
       wanted |-> [k \in DOMAIN used |-> used[k].pic]]

\* The picture is predicted from the initial list, or from one with a single
\* modification, though a header may have a sequence of them.
Predictions(short, long, num) ==
  LET list  == DefaultList(short, long)
      first == {i \in DOMAIN list : list[i].pic # Ghost}
  IN  IF first = {} THEN {Intra} ELSE {Predicted(short, long, num, i) : i \in first}

-----------------------------------------------------------------------------
(* The marking, with the references after it. *)

Marking(kind, ops, short, long, prev) ==
  [marking |-> kind, ops |-> ops, short |-> short, long |-> long, prev |-> prev]

Unmark(op, idx)  == [op |-> op, idx |-> idx, diff |-> 0]
UseMaxIdx        == Unmark("MaxLongTermIdx", 0)
Take(op, num, r) == [op |-> op, idx |-> 0, diff |-> Distance(num, r) - 1]

Markings(short, long, num, pic, uses) ==
  LET cur == [pic |-> pic, num |-> num]
      Adaptive(ops, left, kept) == Marking("adaptive", ops, Append(left, cur), kept, num)
  IN  (IF CanSlide(short, long)
       THEN {Marking("sliding", <<>>, Append(Slid(short, long), cur), long, num)} ELSE {})
      \cup {Adaptive(<<Take("ShortTermUnused", num, short[i])>>, RemoveAt(short, i), long) :
              i \in DOMAIN short}
      \cup (IF ~uses.longTerms THEN {} ELSE
             {Adaptive(<<UseMaxIdx, Take("ShortTermToLongTerm", num, short[i])>>,
                       RemoveAt(short, i), <<short[i]>>) :
                i \in {j \in DOMAIN short : short[j].pic # Ghost}}
             \cup {Marking("adaptive", <<UseMaxIdx, Unmark("CurrentToLongTerm", 0)>>,
                           short, <<cur>>, num)}
             \cup (IF long = <<>> THEN {} ELSE
                    {Adaptive(<<Unmark("LongTermUnused", 0)>>, short, <<>>),
                     Adaptive(<<Unmark("MaxLongTermIdx", NoIdx)>>, short, <<>>)}))
      \cup (IF ~uses.resets THEN {} ELSE
             {Marking("adaptive", <<Unmark("AllUnused", 0)>>, <<[cur EXCEPT !.num = 0]>>, <<>>, 0)})

\* Within the capacity of the stream; a non-reference picture marks nothing.
LegalMarkings(enc, pic) ==
  {m \in Markings(enc.short, enc.long, NextNum(enc), pic, enc.uses) :
     Len(m.short) + Len(m.long) <= MaxRefs /\ m.short # <<>>}
  \cup {Marking("none", <<>>, enc.short, enc.long, enc.prev)}

-----------------------------------------------------------------------------
(* What the encoder may send next, with its own state afterwards. *)

IdrPictures(enc, pic) ==
  LET refs == <<[pic |-> pic, num |-> 0]>>
  IN  {[h   |-> [pic |-> pic, wanted |-> <<>>, whole |-> TRUE, gaps |-> enc.uses.gaps, idr |-> TRUE,
                 longTerm |-> longTerm, intra |-> TRUE, num |-> 0, marking |-> "idr", ops |-> <<>>,
                 mods |-> <<>>, active |-> 0],
        enc |-> [FreshEncoder(enc.uses) EXCEPT !.age = 1,
                  !.short = IF longTerm THEN <<>> ELSE refs,
                  !.long = IF longTerm THEN refs ELSE <<>>]] :
         longTerm \in IF enc.uses.longTerms THEN BOOLEAN ELSE {FALSE}}

\* Predicted as p and marked as m.
HeaderOf(enc, pic, p, m) ==
  [pic |-> pic, wanted |-> p.wanted, whole |-> enc.whole, gaps |-> enc.uses.gaps,
   idr |-> FALSE, longTerm |-> FALSE, intra |-> p.intra, num |-> NextNum(enc),
   marking |-> m.marking, ops |-> m.ops, mods |-> p.mods, active |-> p.active]

Marked(enc, m) ==
  [enc EXCEPT !.short = m.short, !.long = m.long, !.prev = m.prev, !.age = @ + 1, !.skipped = 0]

OtherPictures(enc, pic) ==
  {[h |-> HeaderOf(enc, pic, p, m), enc |-> Marked(enc, m)] :
     p \in Predictions(enc.short, enc.long, NextNum(enc)), m \in LegalMarkings(enc, pic)}

\* frame_num tells the short-term references apart.
CanGoOn(enc) ==
  /\ enc.age < MaxGop
  /\ \A i \in DOMAIN enc.short : enc.short[i].num # NextNum(enc)

Pictures(enc, pic) ==
  IdrPictures(enc, pic) \cup (IF CanGoOn(enc) THEN OtherPictures(enc, pic) ELSE {})

\* A picture that does not arrive; IDR pictures do.
Losses(enc, pic) ==
  IF CanGoOn(enc) /\ enc.lost < MaxLost
  THEN {[e.enc EXCEPT !.whole = FALSE, !.lost = @ + 1] : e \in OtherPictures(enc, pic)}
  ELSE {}

(* A reference picture that is left out on purpose; all receivers infer    *)
(* it.  A gap is no longer than frame_num can express.                     *)
CanSkip(enc) ==
  /\ enc.uses.gaps /\ enc.skipped < MaxGapSize /\ enc.skipped + 2 < MaxFrameNum
  /\ CanGoOn(enc)
  /\ CanSlide(enc.short, enc.long)

Skipped(enc) ==
  [enc EXCEPT !.short = Append(Slid(@, enc.long), [pic |-> Ghost, num |-> NextNum(enc)]),
              !.prev = NextNum(enc), !.age = @ + 1, !.skipped = @ + 1]
=============================================================================
