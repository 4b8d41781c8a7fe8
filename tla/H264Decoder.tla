---------------------------- MODULE H264Decoder ----------------------------
(***************************************************************************)
(* The H.264 decoder of gpu-video: access units in, decode commands out.   *)
(*                                                                         *)
(* `process_event` (backends/vulkan/vulkan_decoder/decoders_h264.rs) parses *)
(* a chunk, lets the reference manager compile the access units that are   *)
(* complete, and executes the instructions one after the other on the      *)
(* decoded picture buffer (vulkan_decoder.rs, wrappers/video.rs).  The     *)
(* decode commands run asynchronously: the waiter thread                   *)
(* (waiter_thread.rs) finds out later that one of them failed and leaves a *)
(* flag for the next event.                                                *)
(*                                                                         *)
(* The state of the encoder and the two ghost fields of a picture come     *)
(* from H264Stream.  A slot of the buffer holds the name of the picture    *)
(* that was decoded into it.                                               *)
(***************************************************************************)
EXTENDS H264Stream, FiniteSets, TLC

CONSTANTS
  Scenarios,     \* [uses: what the stream makes use of, strict: whether the handling of
                 \* corrupted states is Strict, fails: whether decode commands may fail]
  MaxDelay,      \* access units the splitters hold back
  MaxInFlight    \* DecoderParameters::max_in_flight_submissions

ASSUME DecoderAssumption ==
  /\ Scenarios \subseteq [uses : Features, strict : BOOLEAN, fails : BOOLEAN]
  /\ MaxDelay \in Nat /\ MaxInFlight \in Nat \ {0}

VARIABLES
  scenario,      \* one of Scenarios
  enc,           \* the encoder
  buffered,      \* the access units in NALUSplitter and AUSplitter
  ctx,           \* ReferenceContext
  todo,          \* the instructions of this event that are not executed yet
  active,        \* slot_active_bitmap
  slotOf,        \* reference_id_to_dpb_slot_index
  content,       \* per slot: the picture in it
  inFlight,      \* per decode command whose result is not known yet: whether it failed
  decodeFailed,  \* VulkanDecoderH264::decode_failed
  following      \* ghost: the last IDR picture was decoded, and all since, undisturbed

vars == <<scenario, enc, buffered, ctx, todo, active, slotOf, content, inFlight, decodeFailed, following>>
dpbVars == <<active, slotOf, content>>

\* session_resources.rs: +1 for current frame
Slots == 0 .. MaxRefs
NoPic == 0

Init ==
  /\ scenario \in Scenarios
  /\ enc = FreshEncoder(scenario.uses)
  /\ ctx = FreshContext(scenario.strict)
  /\ buffered = <<>> /\ todo = <<>> /\ inFlight = <<>>
  /\ active = {} /\ slotOf = <<>> /\ content = [s \in Slots |-> NoPic]
  /\ decodeFailed = FALSE /\ following = FALSE

-----------------------------------------------------------------------------
(* process_event *)

ProcessEvent(aus) ==
  /\ todo = <<>>
  /\ \E compiled \in {Compile(IF decodeFailed THEN [ctx EXCEPT !.corrupted = TRUE] ELSE ctx, aus)} :
       /\ ctx' = compiled.ctx
       /\ todo' = compiled.instructions
       /\ following' = (following /\ ~decodeFailed /\ compiled.ok)
  /\ decodeFailed' = FALSE
  /\ UNCHANGED <<scenario, dpbVars, inFlight>>

Mentioned(h) == {h.pic} \cup ToSet(h.wanted)

\* The first name that nothing mentions any more.
FreshPics ==
  LET Unused(p) == /\ \A r \in ToSet(enc.short \o enc.long) : r.pic # p
                   /\ \A h \in ToSet(buffered) : p \notin Mentioned(h)
                   /\ \A s \in Slots : content[s] # p
  IN  {p \in Pics : Unused(p) /\ \A q \in 1 .. p - 1 : ~Unused(q)}

\* DecodeChunk: the access unit completes the one before the last.  A chunk with
\* several access units is a bound left out; Flush completes several.
DecodeChunk ==
  \E pic \in FreshPics : \E e \in Pictures(enc, pic) :
    LET held == Append(buffered, e.h)
        out  == IF Len(held) > MaxDelay THEN 1 ELSE 0
    IN  /\ ProcessEvent(SubSeq(held, 1, out))
        /\ buffered' = SubSeq(held, out + 1, Len(held))
        /\ enc' = e.enc

\* SignalFrameEnd and Flush
Flush ==
  /\ buffered # <<>>
  /\ ProcessEvent(buffered)
  /\ buffered' = <<>>
  /\ UNCHANGED enc

\* A picture gets lost on the way; some transports notice it: SignalDataLoss.
LosePicture ==
  /\ todo = <<>>
  /\ \E pic \in FreshPics : enc' \in Losses(enc, pic)
  /\ \/ UNCHANGED <<ctx, decodeFailed, following>>
     \/ /\ ctx' = [ctx EXCEPT !.corrupted = TRUE]
        /\ decodeFailed' = FALSE
        /\ following' = FALSE
  /\ UNCHANGED <<scenario, buffered, todo, dpbVars, inFlight>>

SkipPicture ==
  /\ todo = <<>>
  /\ CanSkip(enc)
  /\ enc' = Skipped(enc)
  /\ UNCHANGED <<scenario, buffered, ctx, todo, dpbVars, inFlight, decodeFailed, following>>

-----------------------------------------------------------------------------
(* The instructions *)

\* Mutants: the slot after all slots, and after as many slots as are in use.
LastPlusOne(used) == MaxRefs + 1
AsManyAsUsed(used) == Cardinality(used)

MinFree(used) == CHOOSE s \in Slots \ used : \A t \in Slots \ used : s <= t

Resolves(map, used, refs) ==
  \A i \in DOMAIN refs : refs[i] \in DOMAIN map /\ map[refs[i]] \in used

\* An instruction that fails ends the event.
Abandon ==
  /\ todo' = <<>>
  /\ following' = FALSE
  /\ UNCHANGED inFlight

DoDecode(i, used, map, pics) ==
  IF Slots \subseteq used
  THEN active' = used /\ slotOf' = map /\ content' = pics /\ Abandon
  ELSE LET slot == MinFree(used)
       IN  /\ active' = used \cup {slot}
           /\ IF Resolves(map, active', i.refs)
              THEN /\ slotOf' = [id \in DOMAIN map \cup {i.id} |->
                                   IF id = i.id THEN slot ELSE map[id]]
                   /\ content' = [pics EXCEPT ![slot] = i.of.pic]
                   /\ todo' = Tail(todo)
                   /\ \E failed \in IF scenario.fails THEN BOOLEAN ELSE {FALSE} :
                        /\ inFlight' = Append(inFlight, failed)
                        /\ following' = ((following \/ i.op = "Idr") /\ i.of.whole /\ ~failed)
              ELSE slotOf' = map /\ content' = pics /\ Abandon

\* The references up to the first unknown one are dropped.
DoDrop(i) ==
  LET gone  == {id \in DOMAIN slotOf :
                  \E n \in DOMAIN i.ids :
                    id = i.ids[n] /\ \A k \in 1 .. n : i.ids[k] \in DOMAIN slotOf}
      freed == {slotOf[id] : id \in gone}
  IN  /\ active' = active \ freed
      /\ slotOf' = [id \in DOMAIN slotOf \ gone |-> slotOf[id]]
      /\ content' = [s \in Slots |-> IF s \in freed THEN NoPic ELSE content[s]]
      /\ IF ToSet(i.ids) \subseteq DOMAIN slotOf
         THEN todo' = Tail(todo) /\ UNCHANGED <<inFlight, following>>
         ELSE Abandon

\* The loop of process_event_textures; wait_if_full comes first, and its timeout
\* on a device that hangs is left out.
Execute ==
  /\ todo # <<>>
  /\ Len(inFlight) < MaxInFlight
  /\ LET i == Head(todo)
     IN  \/ i.op = "Idr" /\ DoDecode(i, {}, <<>>, [s \in Slots |-> NoPic])
         \/ i.op = "Decode" /\ DoDecode(i, active, slotOf, content)
         \/ i.op = "Drop" /\ DoDrop(i)
  /\ UNCHANGED <<scenario, enc, buffered, ctx, decodeFailed>>

\* The waiter thread learns the result of the oldest decode command.
ResultKnown ==
  /\ inFlight # <<>>
  /\ inFlight' = Tail(inFlight)
  /\ decodeFailed' = (decodeFailed \/ Head(inFlight))
  /\ UNCHANGED <<scenario, enc, buffered, ctx, todo, dpbVars, following>>

Next ==
  \/ DecodeChunk \/ Flush \/ LosePicture \/ SkipPicture
  \/ Execute \/ ResultKnown

Spec == Init /\ [][Next]_vars

-----------------------------------------------------------------------------
(* Properties *)

ExistingIds == ToSet(Ids(Existing(ctx.short))) \cup ToSet(Ids(ctx.long))

TypeOK ==
  /\ active \subseteq Slots
  /\ slotOf \in [DOMAIN slotOf -> Slots] /\ DOMAIN slotOf \subseteq Nat
  /\ content \in [Slots -> Pics \cup {NoPic}]
  /\ decodeFailed \in BOOLEAN /\ following \in BOOLEAN
  /\ Len(buffered) <= MaxDelay /\ Len(inFlight) <= MaxInFlight

(* Two references never share a slot of the decoded picture buffer, and    *)
(* the slot of a reference is never handed out again while it is in use,   *)
(* whatever is lost, refused or fails half-way (DecodedPicturesBuffer and  *)
(* reference_id_to_dpb_slot_index).                                        *)
SlotsApart ==
  /\ \A id \in DOMAIN slotOf : slotOf[id] \in active
  /\ \A a, b \in DOMAIN slotOf : slotOf[a] = slotOf[b] => a = b

(* While the stream arrives whole, every instruction of the reference      *)
(* manager can be executed, and a picture is decoded from exactly the      *)
(* pictures, in exactly the order, that the encoder predicted it from:     *)
(* the numbers the manager computes name the same pictures.                *)
Undisturbed(i) == following /\ i.of.whole

DecodedAsEncoded ==
  todo # <<>> =>
    LET i == Head(todo)
    IN  CASE i.op = "Decode" ->
               Undisturbed(i) =>
                 /\ active # Slots
                 /\ Resolves(slotOf, active, i.refs)
                 /\ [k \in DOMAIN i.refs |-> content[slotOf[i.refs[k]]]] = i.of.wanted
          [] i.op = "Drop" -> Undisturbed(i) => ToSet(i.ids) \subseteq DOMAIN slotOf
          [] OTHER -> TRUE

(* While the stream arrives whole, no access unit of it is refused: not    *)
(* when frame_num wraps, not after intended gaps, in either handling of    *)
(* corrupted states.                                                       *)
WholeStreamAccepted ==
  (todo = <<>> /\ buffered # <<>> /\ ~decodeFailed) =>
    LET h == Head(buffered)
    IN  (h.idr \/ (following /\ h.whole)) => PutPicture(ctx, h).ok

(* Between two events of a stream that arrives whole, the buffer holds the *)
(* existing references and nothing else: no slot leaks, not even after the *)
(* errors of an earlier group of pictures.                                 *)
BufferMirrorsReferences ==
  (following /\ todo = <<>>) =>
    DOMAIN slotOf = ExistingIds /\ active = {slotOf[id] : id \in DOMAIN slotOf}

(* Strict handling: a reference picture is decoded from the pictures it    *)
(* was predicted from, or not at all, though pictures were lost without a  *)
(* notice (verify_frame_num); device.rs: "error on every subsequent frame  *)
(* that depends on them".                                                  *)
StrictReferencesAreRight ==
  (ctx.strict /\ ~enc.uses.gaps /\ todo # <<>>) =>
    LET i == Head(todo)
    IN  (i.op = "Decode" /\ i.of.marking # "none" /\ Resolves(slotOf, active, i.refs)) =>
          [k \in DOMAIN i.refs |-> content[slotOf[i.refs[k]]]] = i.of.wanted
=============================================================================
