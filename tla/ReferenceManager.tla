-------------------------- MODULE ReferenceManager --------------------------
(***************************************************************************)
(* The reference manager of the H.264 parser                               *)
(* (gpu-video/src/parser/reference_manager.rs): which decoded pictures the *)
(* stream still refers to, and the instructions each picture compiles to   *)
(* (parser/decoder_instructions.rs).  `put_picture` is a function of the   *)
(* context and of one picture, so this module has operators only; module   *)
(* H264Decoder puts them to work.                                          *)
(*                                                                         *)
(* Intra and P slices of frames are modelled.  B slices, and with them the *)
(* picture order counts, are left out, as are parse errors.                *)
(***************************************************************************)
EXTENDS Integers, SequencesExt

CONSTANTS
  MaxFrameNum,   \* SeqParameterSet::max_frame_num
  MaxRefs,       \* SeqParameterSet::max_num_ref_frames
  MaxGapSize     \* ReferenceContext::MAX_GAP_SIZE

ASSUME StreamAssumption ==
  /\ MaxFrameNum \in Nat /\ MaxFrameNum > 2
  /\ MaxRefs \in Nat /\ MaxGapSize \in Nat

\* No long-term frame index.
NoIdx == -1

(* The context.  `short` and `long` are the vectors of ReferencePictures,  *)
(* `prev` is PrevRefFrameNum and `maxIdx` MaxLongTermFrameIdx.             *)
FreshContext(strict) ==
  [short |-> <<>>, long |-> <<>>, nextId |-> 0, prev |-> 0, maxIdx |-> NoIdx,
   corrupted |-> FALSE, strict |-> strict]

-----------------------------------------------------------------------------
(* Frame numbers *)

\* FrameNumWrap, and PicNum, of a short-term picture.
Wrap(num, cur) == IF num > cur THEN num - MaxFrameNum ELSE num

\* Mutant: the successor is not taken modulo MaxFrameNum.
FollowsUnwrapped(ctx, num) == num \in {ctx.prev, ctx.prev + 1}

Follows(ctx, num) == num \in {ctx.prev, (ctx.prev + 1) % MaxFrameNum}

\* Mutant: only noticed losses are refused.
RefusedNoticed(ctx, h) ==
  h.marking # "none" /\ ~h.idr /\ ctx.strict /\ ctx.corrupted

Refused(ctx, h) ==
  /\ h.marking # "none" /\ ~h.idr /\ ctx.strict
  /\ ctx.corrupted \/ (~h.gaps /\ ~Follows(ctx, h.num))

-----------------------------------------------------------------------------
(* The sliding window *)

\* Those of the pictures that are among `chosen`, in their order.
Kept(pics, chosen) ==
  FoldLeft(LAMBDA kept, p : IF p \in chosen THEN Append(kept, p) ELSE kept, <<>>, pics)

Existing(pics)   == Kept(pics, {p \in ToSet(pics) : ~p.ghost})
Above(pics, idx) == {p \in ToSet(pics) : p.idx > idx}
Ids(pics)      == [i \in DOMAIN pics |-> pics[i].id]

AddShort(ctx, num, ghost) ==
  [ctx EXCEPT !.short = Append(@, [id |-> ctx.nextId, num |-> num, ghost |-> ghost]),
              !.nextId = @ + 1]

AddLong(ctx, num, idx) ==
  [ctx EXCEPT !.long = Append(@, [id |-> ctx.nextId, num |-> num, idx |-> idx]),
              !.nextId = @ + 1]

OverCapacity(ctx) ==
  /\ Len(ctx.short) + Len(ctx.long) > (IF MaxRefs = 0 THEN 1 ELSE MaxRefs)
  /\ ctx.short # <<>>

\* Position of the short-term picture with the least FrameNumWrap, the first of equal ones.
Oldest(ctx, cur) ==
  LET wrap(i) == Wrap(ctx.short[i].num, cur)
  IN  CHOOSE i \in DOMAIN ctx.short :
        \A j \in DOMAIN ctx.short : wrap(i) < wrap(j) \/ (wrap(i) = wrap(j) /\ i <= j)

\* Mutant: the picture just decoded goes first.
EvictLast(ctx, cur) ==
  IF OverCapacity(ctx)
  THEN [ctx |-> [ctx EXCEPT !.short = Front(@)], drops |-> <<Last(ctx.short).id>>]
  ELSE [ctx |-> ctx, drops |-> <<>>]

ShortEvicted(ctx, i) ==
  [ctx   |-> [ctx EXCEPT !.short = RemoveAt(@, i)],
   drops |-> IF ctx.short[i].ghost THEN <<>> ELSE <<ctx.short[i].id>>]

Evict(ctx, cur) ==
  IF OverCapacity(ctx) THEN ShortEvicted(ctx, Oldest(ctx, cur)) ELSE [ctx |-> ctx, drops |-> <<>>]

-----------------------------------------------------------------------------
(* Gaps in frame_num *)

MissingNums(ctx, h) ==
  IF h.gaps /\ ~h.idr /\ ~Follows(ctx, h.num)
  THEN [i \in 1 .. (h.num - ctx.prev - 1) % MaxFrameNum |-> (ctx.prev + i) % MaxFrameNum]
  ELSE <<>>

\* Every missing picture takes part in the sliding window as a non-existing reference.
WithGhost(acc, num) ==
  LET Joined(e) == [acc EXCEPT !.ctx = [e.ctx EXCEPT !.prev = num], !.drops = @ \o e.drops]
  IN  Joined(Evict(AddShort(acc.ctx, num, TRUE), num))

FillGap(ctx, h) ==
  LET Filled(nums) == FoldLeft(WithGhost, [ctx |-> ctx, drops |-> <<>>, ok |-> TRUE], nums)
      Upto(nums)   == IF Len(nums) <= MaxGapSize THEN Filled(nums)
                      ELSE [Filled(SubSeq(nums, 1, MaxGapSize)) EXCEPT !.ok = FALSE]
  IN  Upto(MissingNums(ctx, h))

-----------------------------------------------------------------------------
(* The reference picture list of a P slice *)

\* By ascending key, those with the same key in their order: k - 1 pictures are before picture k.
Sorted(pics, key) ==
  LET Before(i) == {j \in DOMAIN pics : key[j] < key[i] \/ (key[j] = key[i] /\ j < i)}
  IN  [k \in DOMAIN pics |-> pics[CHOOSE i \in DOMAIN pics : Cardinality(Before(i)) = k - 1]]

\* Descending PicNum, then ascending LongTermPicNum.
InitialList(ctx, cur) ==
  LET short == [i \in DOMAIN ctx.short |->
                  [id |-> ctx.short[i].id, num |-> ctx.short[i].num, idx |-> NoIdx,
                   ghost |-> ctx.short[i].ghost]]
      long  == [i \in DOMAIN ctx.long |->
                  [id |-> ctx.long[i].id, num |-> ctx.long[i].num, idx |-> ctx.long[i].idx,
                   ghost |-> FALSE]]
  IN  Sorted(short, [i \in DOMAIN ctx.short |-> -Wrap(ctx.short[i].num, cur)])
        \o Sorted(long, [i \in DOMAIN ctx.long |-> ctx.long[i].idx])

\* Copy picture i of the list to position `at`, and remove the original behind it.
MovedUp(list, at, i) ==
  IF at > Len(list) + 1 THEN list
  ELSE LET Behind(copied) == IF at <= i THEN RemoveAt(copied, i + 1) ELSE copied
       IN  Behind(InsertAt(list, at, list[i]))

\* Subtract and Add
ModifyShort(acc, op, cur) ==
  LET Move(i, num) ==
        IF i = 0 \/ acc.list[i].ghost \/ acc.list[i].idx # NoIdx THEN [acc EXCEPT !.ok = FALSE]
        ELSE [acc EXCEPT !.at = @ + 1, !.pred = num, !.list = MovedUp(@, acc.at, i)]
      Find(num) == Move(SelectInSeq(acc.list, LAMBDA p : Wrap(p.num, cur) = Wrap(num, cur)), num)
  IN  Find((IF op.op = "Subtract" THEN acc.pred - (op.value + 1) ELSE acc.pred + op.value + 1)
             % MaxFrameNum)

\* The code puts the picture in with `insert`, which panics when more operations
\* have been applied than there are references; a header of H264Stream has one.
ModifyLong(acc, op) ==
  LET Move(i) ==
        IF i = 0 THEN [acc EXCEPT !.ok = FALSE]
        ELSE [acc EXCEPT !.at = @ + 1, !.list = InsertAt(RemoveAt(@, i), acc.at, @[i])]
  IN  Move(SelectInSeq(acc.list, LAMBDA p : p.idx = op.value))

Modified(list, h) ==
  FoldLeft(LAMBDA acc, op : IF ~acc.ok THEN acc
                            ELSE IF op.op = "LongTermRef" THEN ModifyLong(acc, op)
                            ELSE ModifyShort(acc, op, h.num),
           [list |-> list, at |-> 1, pred |-> h.num, ok |-> TRUE], h.mods)

\* reference_list_l0, empty for an intra picture.
References(ctx, h) ==
  LET Upto(n, len)    == IF n < len THEN n ELSE len
      Use(active, ok) == [ids |-> Ids(active), ok |-> ok /\ \A i \in DOMAIN active : ~active[i].ghost]
      Cut(m)          == Use(SubSeq(m.list, 1, Upto(h.active, Len(m.list))), m.ok)
  IN  IF h.intra THEN [ids |-> <<>>, ok |-> TRUE] ELSE Cut(Modified(InitialList(ctx, h.num), h))

-----------------------------------------------------------------------------
(* Reference picture marking.  An error in the middle of the operations    *)
(* leaves the context as the operations before it have made it.            *)

\* Mutant: a replaced long-term reference keeps its slot.
RemoveLongKept(acc, idx) ==
  [acc EXCEPT !.ctx.long = Kept(@, {p \in ToSet(@) : p.idx # idx})]

RemoveLong(acc, idx) ==
  LET Freed(i) == IF i = 0 THEN acc
                   ELSE [acc EXCEPT !.ctx.long = RemoveAt(@, i),
                                    !.drops = Append(@, acc.ctx.long[i].id)]
  IN  Freed(SelectInSeq(acc.ctx.long, LAMBDA p : p.idx = idx))

\* 0 when the picture does not exist
ShortAt(acc, h, op) ==
  SelectInSeq(acc.ctx.short, LAMBDA p : Wrap(p.num, h.num) = h.num - (op.diff + 1))

\* `shortAt` is what the operation names, `freed` what is left without that long-term index.
Operate(acc, op, shortAt, freed) ==
  LET target == acc.ctx.short[shortAt]
      taken  == [freed EXCEPT !.ctx.short = RemoveAt(@, shortAt)]
  IN  CASE op.op = "ShortTermUnused" ->
             IF shortAt = 0 THEN [acc EXCEPT !.ok = FALSE]
             ELSE [acc EXCEPT !.ctx.short = RemoveAt(@, shortAt),
                              !.drops = IF target.ghost THEN @ ELSE Append(@, target.id)]
        [] op.op = "LongTermUnused" ->
             [freed EXCEPT !.ok = freed # acc]
        [] op.op = "ShortTermToLongTerm" ->
             IF shortAt = 0 THEN [freed EXCEPT !.ok = FALSE]
             ELSE IF target.ghost THEN [taken EXCEPT !.ok = FALSE]
             ELSE [taken EXCEPT !.ctx.long =
                     Append(@, [id |-> target.id, num |-> target.num, idx |-> op.idx])]
        [] op.op = "MaxLongTermIdx" ->
             [acc EXCEPT !.ctx.maxIdx = op.idx,
                         !.drops = @ \o Ids(Kept(acc.ctx.long, Above(acc.ctx.long, op.idx))),
                         !.ctx.long = Kept(@, ToSet(@) \ Above(@, op.idx))]
        [] op.op = "AllUnused" ->
             [acc EXCEPT !.ctx.short = <<>>, !.ctx.long = <<>>, !.ctx.maxIdx = NoIdx,
                         !.drops = @ \o Ids(Existing(acc.ctx.short)) \o Ids(acc.ctx.long)]
        [] op.op = "CurrentToLongTerm" ->
             [freed EXCEPT !.idx = op.idx]

Operation(acc, h, op) == Operate(acc, op, ShortAt(acc, h, op), RemoveLong(acc, op.idx))

Operations(ctx, h) ==
  FoldLeft(LAMBDA acc, op : IF acc.ok THEN Operation(acc, h, op) ELSE acc,
           [ctx |-> ctx, drops |-> <<>>, idx |-> NoIdx, ok |-> TRUE], h.ops)

(* What a picture compiles to.  The instruction keeps the picture itself,  *)
(* as decode_info does.                                                    *)
Decode(h, id, refs) == [op |-> "Decode", id |-> id, refs |-> refs, of |-> h]
Idr(h, id)          == [op |-> "Idr", id |-> id, refs |-> <<>>, of |-> h]
Drop(h, ids)        == [op |-> "Drop", ids |-> ids, of |-> h]
DropAll(h, ids)     == IF ids = <<>> THEN <<>> ELSE <<Drop(h, ids)>>

Accepted(ctx, instructions) == [ctx |-> ctx, instructions |-> instructions, ok |-> TRUE]
Failed(ctx)                 == [ctx |-> ctx, instructions |-> <<>>, ok |-> FALSE]

MarkIdr(ctx, h) ==
  LET fresh == FreshContext(ctx.strict)
  IN  Accepted(IF h.longTerm THEN [AddLong(fresh, h.num, 0) EXCEPT !.maxIdx = 0]
               ELSE AddShort(fresh, h.num, FALSE),
               <<Idr(h, 0)>>)

\* The picture is decoded, then what it replaces is dropped.
DecodedAs(id, h, refs, ctx, drops) ==
  Accepted(ctx, <<Decode(h, id, refs)>> \o DropAll(h, drops))

MarkSlidingWindow(ctx, h, refs) ==
  LET Done(e) == DecodedAs(ctx.nextId, h, refs, e.ctx, e.drops)
  IN  Done(Evict(AddShort(ctx, h.num, FALSE), h.num))

MarkAdaptive(ctx, h, refs) ==
  LET Add(done) == IF done.idx = NoIdx THEN AddShort(done.ctx, h.num, FALSE)
                   ELSE AddLong(done.ctx, h.num, done.idx)
      Done(next, drops) ==
        IF next.maxIdx # NoIdx /\ Len(next.long) > next.maxIdx + 1 THEN Failed(next)
        ELSE DecodedAs(ctx.nextId, h, refs, next, drops)
      Check(done) == IF ~done.ok THEN Failed(done.ctx) ELSE Done(Add(done), done.drops)
  IN  Check(Operations(ctx, h))

MarkNonReference(ctx, h, refs) ==
  Accepted([ctx EXCEPT !.nextId = @ + 1],
           <<Decode(h, ctx.nextId, refs), Drop(h, <<ctx.nextId>>)>>)

Mark(ctx, h, refs) ==
  CASE h.idr                 -> MarkIdr(ctx, h)
    [] h.marking = "sliding"  -> MarkSlidingWindow(ctx, h, refs)
    [] h.marking = "adaptive" -> MarkAdaptive(ctx, h, refs)
    [] h.marking = "none"     -> MarkNonReference(ctx, h, refs)

\* What the gap has replaced is dropped first.
AfterGap(h, drops, marked) ==
  IF ~marked.ok THEN marked
  ELSE [marked EXCEPT !.instructions = DropAll(h, drops) \o @,
                      !.ctx.prev = IF h.marking = "none" THEN @ ELSE h.num]

PutPicture(ctx, h) ==
  LET Listed(gap, refs) == IF gap.ok /\ refs.ok
                           THEN AfterGap(h, gap.drops, Mark(gap.ctx, h, refs.ids))
                           ELSE Failed(gap.ctx)
      Filled(gap)       == Listed(gap, References(gap.ctx, h))
  IN  IF Refused(ctx, h) THEN Failed([ctx EXCEPT !.corrupted = TRUE]) ELSE Filled(FillGap(ctx, h))

(* All the access units of one event.  The first error ends it, and the    *)
(* instructions of the access units before it are lost.                    *)
Compile(ctx, aus) ==
  LET Joined(instructions, r) ==
        IF r.ok THEN [r EXCEPT !.instructions = instructions \o @] ELSE r
  IN  FoldLeft(LAMBDA acc, h :
                 IF acc.ok THEN Joined(acc.instructions, PutPicture(acc.ctx, h)) ELSE acc,
               Accepted(ctx, <<>>), aus)
=============================================================================
