-------------------------- MODULE PipelineOutputs --------------------------
(***************************************************************************)
(* How outputs start and end (core/pipeline/{instance,output,input}.rs).   *)
(*                                                                         *)
(* Calls of the API register and unregister inputs and outputs under the   *)
(* pipeline lock.  The renderer thread and the audio mixer thread take the *)
(* lock once for every EOS in a batch and once to ask all outputs for      *)
(* their state; they send, and take outputs out of the renderer or the     *)
(* mixer, without it.  Outputs are known to the threads by OutputId, which *)
(* can be registered again, while a registration is known by its Ref.      *)
(*                                                                         *)
(* An action is what a thread does under the lock, or between two locks.   *)
(* HashMaps are functions whose domains are the keys.                      *)
(***************************************************************************)
EXTENDS Integers, Sequences

CONSTANTS
  InputIds,
  OutputIds,
  Sides,       \* "video", the renderer thread, and "audio", the mixer thread
  Options,     \* what an output can be registered with: a condition per track
  Cap,         \* capacity of the channels from the queue
  ReuseInputs, \* whether an InputId is registered again after it was removed
  MaxRefs      \* bound: number of output registrations

Kinds == {"any_of", "all_of", "any_input", "all_inputs", "never"}

\* PipelineOutputEndCondition; `of` is empty for those without a list.
Conditions == [kind : Kinds, of : SUBSET InputIds]

ASSUME ConstAssumption ==
  /\ Sides \subseteq {"video", "audio"}
  /\ Options \subseteq UNION {[tracks -> Conditions] : tracks \in SUBSET Sides}
  /\ Cap \in Nat \ {0}
  /\ ReuseInputs \in BOOLEAN
  /\ MaxRefs \in Nat

VARIABLES
  (* Pipeline::inputs and Pipeline::outputs *)
  inputs,     \* InputId -> side -> whether its EOS has been handled
  outputs,    \* OutputId -> [ref, started, cond]
  nextRef,    \* Ref::new: NEXT_ID
  scheduled,  \* refs of outputs with a start event in the queue
  (* The queue, and the streams it ends *)
  used,       \* input ids that have been registered
  live,       \* <<input, side>> registered and not ended yet
  chan,       \* batches for each thread: the inputs whose stream ends there
  (* The two threads *)
  pc,
  todo,       \* inputs whose EOS is still to be handled
  finished,   \* OutputId -> ref, outputs that are still to get their EOS
  leaving,    \* the output that has got it and is still to be disconnected
  senders,    \* OutputId -> ref, outputs that take data
  frames,     \* outputs with data still to be sent
  (* The renderer, the mixer and the receivers of the outputs *)
  sink,       \* outputs the renderer, or the mixer, produces data for
  gone,       \* <<ref, side>> whose receiver has been dropped
  got         \* what the receivers of each ref have got last

api    == <<inputs, outputs, nextRef, scheduled, used>>
thread == <<pc, todo, finished, leaving, senders, frames>>
vars   == <<api, live, chan, thread, sink, gone, got>>

Refs == 1..MaxRefs

\* HashMap<K, V>, HashMap::new, insert and remove.
IsHashMap(f, K, V) == DOMAIN f \subseteq K /\ f \in [DOMAIN f -> V]
Empty == [k \in {} |-> k]
Put(f, k, v) == [x \in DOMAIN f \cup {k} |-> IF x = k THEN v ELSE f[x]]
Without(f, k) == [x \in DOMAIN f \ {k} |-> f[x]]
-----------------------------------------------------------------------------
(* End conditions: PipelineOutputEndConditionState *)

\* Whether a condition holds, given the inputs that are connected; `removal`
\* says that an input is being removed from them.
Ends(c, connected, removal) ==
  CASE c.kind = "any_of"     -> \E i \in c.of : i \notin connected
    [] c.kind = "all_of"     -> \A i \in c.of : i \notin connected
    [] c.kind = "any_input"  -> removal
    [] c.kind = "all_inputs" -> connected = {}
    [] c.kind = "never"      -> FALSE

\* StateChange.
NoChanges == [added |-> {}, removed |-> {}]

\* Mutant: an input that is registered later does not count.
AddInputIgnored(i) == NoChanges

AddInput(i) == [added |-> {i}, removed |-> {}]
RemoveInput(i) == [added |-> {}, removed |-> {i}]

\* on_event: an end is final.
OnEvent(c, change) ==
  LET connected == (c.connected \cup change.added) \ change.removed
  IN  IF c.didEnd THEN c
      ELSE [c EXCEPT !.connected = connected,
                     !.didEnd = Ends(c.end, connected, change.removed # {})]

\* Mutant: eos_status only reads what the last event left.
OnStatusStale(c) == c

OnStatus(c) == OnEvent(c, NoChanges)

\* The inputs that have not ended on side s.
Connected(s) == {i \in DOMAIN inputs : ~inputs[i][s]}

\* The condition of side s in output o, None until the output starts.
HasCond(o, s) == o \in DOMAIN outputs /\ outputs[o].started /\ s \in DOMAIN outputs[o].cond

\* Tells every output that has started of a change on some sides.
TellOutputs(sides, change) ==
  outputs' = [o \in DOMAIN outputs |->
    IF outputs[o].started
    THEN [outputs[o] EXCEPT !.cond =
            [s \in DOMAIN @ |-> IF s \in sides THEN OnEvent(@[s], change) ELSE @[s]]]
    ELSE outputs[o]]

Init ==
  /\ inputs = Empty /\ outputs = Empty /\ nextRef = 1 /\ scheduled = {}
  /\ used = {} /\ live = {}
  /\ chan = [s \in Sides |-> <<>>] /\ pc = [s \in Sides |-> "recv"]
  /\ todo = [s \in Sides |-> {}] /\ finished = [s \in Sides |-> Empty]
  /\ leaving = [s \in Sides |-> {}] /\ senders = [s \in Sides |-> Empty]
  /\ frames = [s \in Sides |-> {}] /\ sink = [s \in Sides |-> {}]
  /\ gone = {} /\ got = [r \in Refs |-> [s \in Sides |-> "nothing"]]
-----------------------------------------------------------------------------
(* Inputs *)

RegisterInput(i) ==
  /\ i \notin DOMAIN inputs /\ (i \in used => ReuseInputs)
  /\ inputs' = Put(inputs, i, [s \in Sides |-> FALSE])
  /\ TellOutputs(Sides, AddInput(i))
  /\ used' = used \cup {i}
  /\ live' = live \cup {i} \X Sides
  /\ UNCHANGED <<nextRef, scheduled, chan, thread, sink, gone, got>>

UnregisterInput(i) ==
  /\ i \in DOMAIN inputs
  /\ inputs' = Without(inputs, i)
  /\ TellOutputs(Sides, RemoveInput(i))
  /\ live' = live \ {i} \X Sides
  /\ UNCHANGED <<nextRef, scheduled, used, chan, thread, sink, gone, got>>
-----------------------------------------------------------------------------
(* Outputs *)

\* A condition before the start, and at the start.
Pending(e) == [end |-> e, connected |-> {}, didEnd |-> FALSE, didSendEos |-> FALSE]
\* Mutant: inputs that have already ended count as connected.
FreshAll(s, c) == [c EXCEPT !.connected = DOMAIN inputs]

Fresh(s, c) == [c EXCEPT !.connected = Connected(s)]

\* start_registered_output: the output becomes known to the renderer and the
\* mixer.  With an invalid scene it is removed instead.
Start(o, record) ==
  \/ /\ outputs' = Put(outputs, o, [record EXCEPT
                         !.started = TRUE,
                         !.cond = [s \in DOMAIN @ |-> Fresh(s, @[s])]])
     /\ sink' = [s \in Sides |-> IF s \in DOMAIN record.cond THEN sink[s] \cup {o} ELSE sink[s]]
  \/ /\ "video" \in DOMAIN record.cond
     /\ outputs' = Without(outputs, o)
     /\ sink' = [sink EXCEPT !["video"] = @ \ {o}]

\* register_pipeline_output, with or without start_at.
RegisterOutput(o) ==
  /\ o \notin DOMAIN outputs /\ nextRef \in Refs
  /\ nextRef' = nextRef + 1
  /\ \E opt \in Options :
       LET record == [ref |-> nextRef, started |-> FALSE,
                      cond |-> [s \in DOMAIN opt |-> Pending(opt[s])]]
       IN  \/ Start(o, record) /\ UNCHANGED scheduled
           \/ /\ outputs' = Put(outputs, o, record)
              /\ scheduled' = scheduled \cup {<<o, nextRef>>}
              /\ UNCHANGED sink
  /\ UNCHANGED <<inputs, used, live, chan, thread, gone, got>>

\* The queue thread runs the start event.  It does nothing if the output has
\* been unregistered, even if its id has been registered again.
RunStart(o, r) ==
  /\ <<o, r>> \in scheduled
  /\ scheduled' = scheduled \ {<<o, r>>}
  /\ IF o \in DOMAIN outputs /\ outputs[o].ref = r
     THEN Start(o, outputs[o])
     ELSE UNCHANGED <<outputs, sink>>
  /\ UNCHANGED <<inputs, nextRef, used, live, chan, thread, gone, got>>

UnregisterOutput(o) ==
  /\ o \in DOMAIN outputs
  /\ outputs' = Without(outputs, o)
  /\ sink' = [s \in Sides |-> sink[s] \ {o}]
  /\ UNCHANGED <<inputs, nextRef, scheduled, used, live, chan, thread, gone, got>>

\* Mutant: an update is not ignored after the end of the output.
UpdateOutputAlways(o) ==
  /\ HasCond(o, "video")
  /\ sink' = [sink EXCEPT !["video"] = @ \cup {o}]
  /\ UNCHANGED <<api, live, chan, thread, gone, got>>

\* update_output: a new scene connects the output to the renderer again.  (An
\* update of audio changes an output of the mixer in place.)
UpdateOutput(o) ==
  /\ HasCond(o, "video") /\ ~outputs[o].cond["video"].didEnd
  /\ sink' = [sink EXCEPT !["video"] = @ \cup {o}]
  /\ UNCHANGED <<api, live, chan, thread, gone, got>>

\* The encoder of an output stops.
DropReceiver(r, s) ==
  /\ r < nextRef /\ gone' = gone \cup {<<r, s>>}
  /\ UNCHANGED <<api, live, chan, thread, sink, got>>
-----------------------------------------------------------------------------
(* The queue *)

\* The queue ends some streams and sends the next batch.  A stream ends once: the
\* inputs have a single track (each further one would send an EOS of its own).
EmitBatch(s) ==
  /\ Len(chan[s]) < Cap
  /\ \E e \in SUBSET {i \in InputIds : <<i, s>> \in live} :
       /\ live' = live \ e \X {s}
       /\ chan' = [chan EXCEPT ![s] = Append(@, e)]
  /\ UNCHANGED <<api, thread, sink, gone, got>>
-----------------------------------------------------------------------------
(* The renderer thread and the mixer thread *)

Receive(s) ==
  /\ pc[s] = "recv" /\ chan[s] # <<>>
  /\ chan' = [chan EXCEPT ![s] = Tail(@)]
  /\ todo' = [todo EXCEPT ![s] = Head(chan[s])]
  /\ pc' = [pc EXCEPT ![s] = "eos"]
  /\ UNCHANGED <<api, live, finished, leaving, senders, frames, sink, gone, got>>

HandleEos(s, i) ==
  /\ pc[s] = "eos" /\ i \in todo[s]
  /\ todo' = [todo EXCEPT ![s] = @ \ {i}]
  /\ inputs' = [j \in DOMAIN inputs |-> IF j = i THEN [inputs[i] EXCEPT ![s] = TRUE] ELSE inputs[j]]
  /\ TellOutputs({s}, RemoveInput(i))
  /\ UNCHANGED <<nextRef, scheduled, used, live, chan, pc, finished, leaving, senders, frames,
                 sink, gone, got>>

\* What eos_status leaves of a condition, and what it tells of the outputs:
\* SendEos, AlreadySent for the others that have ended, and None.
EosStatus(c) == [OnStatus(c) EXCEPT !.didSendEos = OnStatus(c).didEnd]

Ended(s) == {o \in DOMAIN outputs : HasCond(o, s) /\ OnStatus(outputs[o].cond[s]).didEnd}

\* Mutant: EOS is sent with every batch.
SendsEosAgain(s) == Ended(s)

SendsEos(s) == {o \in Ended(s) : ~outputs[o].cond[s].didSendEos}

\* Mutant: an output that ended still takes data.
ActiveAlways(s) == {o \in DOMAIN outputs : HasCond(o, s)}

Active(s) == {o \in DOMAIN outputs : HasCond(o, s)} \ Ended(s)

\* all_output_video_senders_iter and all_output_audio_senders_iter, under the
\* lock: every output is asked for its status and its sender is cloned.
Statuses(s) ==
  /\ pc[s] = "eos" /\ todo[s] = {}
  /\ finished' = [finished EXCEPT ![s] = [o \in SendsEos(s) |-> outputs[o].ref]]
  /\ senders' = [senders EXCEPT ![s] = [o \in Active(s) |-> outputs[o].ref]]
  /\ outputs' = [o \in DOMAIN outputs |->
                   IF HasCond(o, s) THEN [outputs[o] EXCEPT !.cond[s] = EosStatus(@)]
                   ELSE outputs[o]]
  /\ pc' = [pc EXCEPT ![s] = "finish"]
  /\ UNCHANGED <<inputs, nextRef, scheduled, used, live, chan, todo, leaving, frames,
                 sink, gone, got>>

\* What the receivers of r have got after one more item; nothing if they are
\* gone.
Sent(r, s, item) ==
  IF <<r, s>> \in gone THEN got
  ELSE [got EXCEPT ![r][s] = IF @ = "eos" THEN "afterEos" ELSE item]

SendEos(s, o) ==
  /\ pc[s] = "finish" /\ leaving[s] = {} /\ o \in DOMAIN finished[s]
  /\ got' = Sent(finished[s][o], s, "eos")
  /\ finished' = [finished EXCEPT ![s] = Without(@, o)]
  /\ leaving' = [leaving EXCEPT ![s] = {o}]
  /\ UNCHANGED <<api, live, chan, pc, todo, senders, frames, sink, gone>>

\* The output is taken out of the renderer or the mixer, by its id.
Disconnect(s, o) ==
  /\ pc[s] = "finish" /\ o \in leaving[s]
  /\ leaving' = [leaving EXCEPT ![s] = @ \ {o}]
  /\ sink' = [sink EXCEPT ![s] = @ \ {o}]
  /\ UNCHANGED <<api, live, chan, pc, todo, finished, senders, frames, gone, got>>

\* renderer.render, which may fail, and process_batch_set.
Render(s) ==
  /\ pc[s] = "finish" /\ leaving[s] = {} /\ DOMAIN finished[s] = {}
  /\ \E f \in {sink[s]} \cup (IF s = "video" THEN {{}} ELSE {}) :
       frames' = [frames EXCEPT ![s] = f]
  /\ pc' = [pc EXCEPT ![s] = "send"]
  /\ UNCHANGED <<api, live, chan, todo, finished, leaving, senders, sink, gone, got>>

\* Data goes to the sender found under the id; with an error, the output is
\* taken out of the renderer or the mixer.
SendData(s, o) ==
  /\ pc[s] = "send" /\ o \in frames[s]
  /\ frames' = [frames EXCEPT ![s] = @ \ {o}]
  /\ IF o \in DOMAIN senders[s]
     THEN LET r == senders[s][o] IN
          /\ got' = Sent(r, s, "data")
          /\ sink' = IF <<r, s>> \in gone THEN [sink EXCEPT ![s] = @ \ {o}] ELSE sink
     ELSE UNCHANGED <<got, sink>>
  /\ UNCHANGED <<api, live, chan, pc, todo, finished, leaving, senders, gone>>

Done(s) ==
  /\ pc[s] = "send" /\ frames[s] = {}
  /\ pc' = [pc EXCEPT ![s] = "recv"]
  /\ senders' = [senders EXCEPT ![s] = Empty]
  /\ UNCHANGED <<api, live, chan, todo, finished, leaving, frames, sink, gone, got>>

ThreadStep(s) ==
  \/ Receive(s) \/ (\E i \in InputIds : HandleEos(s, i)) \/ Statuses(s)
  \/ (\E o \in OutputIds : SendEos(s, o) \/ Disconnect(s, o) \/ SendData(s, o))
  \/ Render(s) \/ Done(s)

Next ==
  \/ \E i \in InputIds : RegisterInput(i) \/ UnregisterInput(i)
  \/ \E o \in OutputIds : \/ RegisterOutput(o) \/ UnregisterOutput(o) \/ UpdateOutput(o)
                          \/ \E r \in Refs : RunStart(o, r)
  \/ \E r \in Refs, s \in Sides : DropReceiver(r, s)
  \/ \E s \in Sides : EmitBatch(s) \/ ThreadStep(s)

Spec == Init /\ [][Next]_vars

\* The queue goes on sending batches, and the threads go on handling them.
FairSpec == Spec /\ \A s \in Sides : WF_vars(EmitBatch(s)) /\ WF_vars(ThreadStep(s))
-----------------------------------------------------------------------------
Cond == [end : Conditions, connected : SUBSET InputIds, didEnd : BOOLEAN, didSendEos : BOOLEAN]

OutputOK(x) ==
  /\ IsHashMap(x.cond, Sides, Cond)
  /\ x \in [ref : 1..nextRef-1, started : BOOLEAN, cond : {x.cond}]

TypeOK ==
  /\ IsHashMap(inputs, InputIds, [Sides -> BOOLEAN])
  /\ DOMAIN outputs \subseteq OutputIds
  /\ \A o \in DOMAIN outputs : OutputOK(outputs[o])
  /\ nextRef \in 1..MaxRefs+1 /\ scheduled \subseteq OutputIds \X Refs
  /\ used \subseteq InputIds /\ live \subseteq used \X Sides
  /\ chan \in [Sides -> Seq(SUBSET InputIds)]
  /\ pc \in [Sides -> {"recv", "eos", "finish", "send"}]
  /\ todo \in [Sides -> SUBSET InputIds]
  /\ DOMAIN finished = Sides /\ DOMAIN senders = Sides
  /\ \A s \in Sides :
       /\ IsHashMap(finished[s], OutputIds, Refs) /\ IsHashMap(senders[s], OutputIds, Refs)
       /\ DOMAIN finished[s] \cap DOMAIN senders[s] = {}
  /\ {leaving, frames, sink} \subseteq [Sides -> SUBSET OutputIds]
  /\ gone \subseteq Refs \X Sides
  /\ got \in [Refs -> [Sides -> {"nothing", "data", "eos", "afterEos"}]]

\* What an output that has not ended believes to be connected is what has not
\* ended, whenever it started and whoever came and went since.
KnowsItsInputs ==
  \A o \in OutputIds, s \in Sides :
    HasCond(o, s) /\ ~outputs[o].cond[s].didEnd
      => outputs[o].cond[s].connected = Connected(s)

\* A receiver gets one EOS and nothing after it, though data and EOS are sent
\* without the lock and the output may be updated, removed and registered again.
NothingAfterEos == \A r \in Refs, s \in Sides : got[r][s] # "afterEos"

\* The renderer and the mixer work only for outputs that are registered and
\* started.
NoGhosts == \A s \in Sides : \A o \in sink[s] : HasCond(o, s)

\* Between two batches, an output that got its EOS is disconnected.
FinishedDisconnected ==
  \A o \in OutputIds, s \in Sides :
    pc[s] = "recv" /\ HasCond(o, s) /\ outputs[o].cond[s].didSendEos => o \notin sink[s]

\* Nothing is rendered or mixed for what is gone or has ended.
NothingForTheGone == NoGhosts /\ FinishedDisconnected

\* The streams that have not ended on side s.
Live(s) == {i \in InputIds : <<i, s>> \in live}

EndsNow(o, s) ==
  /\ o \in DOMAIN outputs /\ o \in DOMAIN outputs'
  /\ outputs[o].ref = outputs'[o].ref
  /\ HasCond(o, s) /\ HasCond(o, s)'
  /\ ~outputs[o].cond[s].didEnd /\ outputs'[o].cond[s].didEnd

\* An output ends only when its condition holds of the streams themselves, not
\* just of what has been heard of them.
EndsRightly ==
  [][\A o \in OutputIds, s \in Sides :
       EndsNow(o, s) => Ends(outputs[o].cond[s].end, Live(s)', TRUE)]_vars

Due(o, r, s) ==
  /\ HasCond(o, s) /\ outputs[o].ref = r
  /\ Ends(outputs[o].cond[s].end, Live(s), FALSE)

\* When the condition of an output holds of the streams, the output gets its EOS.
EosInTheEnd ==
  \A o \in OutputIds, r \in Refs, s \in Sides :
    Due(o, r, s) ~> got[r][s] = "eos" \/ <<r, s>> \in gone \/ ~Due(o, r, s)

\* From its start until its end, an output receives data ("from that point
\* output starts receiving frames/samples").  It does not hold (README,
\* Observations).
StaysConnected ==
  \A o \in OutputIds, s \in Sides :
    /\ HasCond(o, s) /\ ~outputs[o].cond[s].didEnd
    /\ <<outputs[o].ref, s>> \notin gone
    => o \in sink[s]
=============================================================================
