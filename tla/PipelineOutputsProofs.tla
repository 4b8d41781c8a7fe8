----------------------- MODULE PipelineOutputsProofs -----------------------
(***************************************************************************)
(* Safety of PipelineOutputs for any inputs, outputs, conditions, channel  *)
(* capacity and number of registrations.                                   *)
(***************************************************************************)
EXTENDS PipelineOutputs, TLAPS

\* An output ends before it sends EOS, and not before it starts.
CondOrder ==
  \A o \in DOMAIN outputs : \A s \in DOMAIN outputs[o].cond :
    /\ outputs[o].cond[s].didSendEos => outputs[o].cond[s].didEnd
    /\ ~outputs[o].started => ~outputs[o].cond[s].didEnd

\* A Ref belongs to one output; its start event is there only until it starts.
RefOrder ==
  /\ \A o, p \in DOMAIN outputs : outputs[o].ref = outputs[p].ref => o = p
  /\ \A x \in scheduled :
       /\ x[2] < nextRef
       /\ x[1] \in DOMAIN outputs /\ outputs[x[1]].ref = x[2] => ~outputs[x[1]].started

\* What the threads keep from one phase of a batch to the next.
PhaseOrder ==
  \A s \in Sides :
    /\ pc[s] \in {"recv", "eos"} => DOMAIN senders[s] = {}
    /\ pc[s] # "finish" => DOMAIN finished[s] = {} /\ leaving[s] = {}

\* An output that sent EOS and is still connected is about to be disconnected.
Disconnecting ==
  \A o \in DOMAIN outputs : \A s \in DOMAIN outputs[o].cond :
    outputs[o].cond[s].didSendEos => o \notin sink[s] \/ o \in DOMAIN finished[s] \cup leaving[s]

Marked(o, s) == HasCond(o, s) /\ outputs[o].cond[s].didSendEos

\* What a thread is about to send never follows an EOS.
EosOrder ==
  \A s \in Sides :
    /\ \A o \in DOMAIN finished[s] :
         /\ finished[s][o] < nextRef /\ got[finished[s][o]][s] # "eos"
         /\ \A p \in DOMAIN finished[s] : finished[s][p] = finished[s][o] => p = o
         /\ \A p \in DOMAIN senders[s] : senders[s][p] # finished[s][o]
         /\ \A p \in DOMAIN outputs :
              outputs[p].ref = finished[s][o] => Marked(p, s)
    /\ \A o \in DOMAIN senders[s] :
         senders[s][o] < nextRef /\ got[senders[s][o]][s] # "eos"
    /\ \A o \in DOMAIN outputs :
         got[outputs[o].ref][s] = "eos" => Marked(o, s)
    /\ \A r \in Refs : r >= nextRef => got[r][s] = "nothing"

IInv ==
  /\ TypeOK /\ CondOrder /\ RefOrder /\ PhaseOrder /\ Disconnecting /\ EosOrder
  /\ KnowsItsInputs /\ NoGhosts /\ NothingAfterEos
-----------------------------------------------------------------------------
(* What a step does to the outputs. *)

\* A change of the inputs leaves a condition a condition.
LEMMA OnEventType ==
  ASSUME NEW c \in Cond, NEW change, change.added \subseteq InputIds
  PROVE  /\ OnEvent(c, change) \in Cond
         /\ OnEvent(c, change).end = c.end
         /\ OnEvent(c, change).didSendEos = c.didSendEos
         /\ c.didEnd => OnEvent(c, change).didEnd
<1>1. Ends(c.end, (c.connected \cup change.added) \ change.removed, change.removed # {}) \in BOOLEAN
  BY DEF Ends, Cond, Conditions, Kinds
<1> QED BY <1>1 DEF OnEvent, Cond

\* What the states of the outputs keep when a change is told.
SameShape ==
  /\ DOMAIN outputs' = DOMAIN outputs
  /\ \A o \in DOMAIN outputs :
       /\ outputs'[o].ref = outputs[o].ref /\ outputs'[o].started = outputs[o].started
       /\ DOMAIN outputs'[o].cond = DOMAIN outputs[o].cond
       /\ \A s \in DOMAIN outputs[o].cond :
            /\ outputs'[o].cond[s].end = outputs[o].cond[s].end
            /\ outputs[o].cond[s].didEnd => outputs'[o].cond[s].didEnd
            /\ outputs[o].cond[s].didSendEos => outputs'[o].cond[s].didSendEos
            /\ outputs'[o].cond[s].didSendEos => outputs[o].cond[s].didSendEos \/ outputs'[o].cond[s].didEnd
            /\ ~outputs[o].started => outputs'[o].cond[s] = outputs[o].cond[s]

LEMMA TellOutputsShape ==
  ASSUME TypeOK, nextRef' = nextRef,
         NEW sides, NEW change, change.added \subseteq InputIds,
         TellOutputs(sides, change)
  PROVE  /\ SameShape
         /\ \A o \in DOMAIN outputs : OutputOK(outputs[o])'
         /\ \A o \in DOMAIN outputs : \A s \in DOMAIN outputs[o].cond :
              /\ outputs'[o].cond[s].didSendEos = outputs[o].cond[s].didSendEos
              /\ outputs'[o].cond[s] = IF outputs[o].started /\ s \in sides
                                       THEN OnEvent(outputs[o].cond[s], change)
                                       ELSE outputs[o].cond[s]
<1>1. DOMAIN outputs' = DOMAIN outputs
  BY DEF TellOutputs
<1>2. ASSUME NEW o \in DOMAIN outputs
      PROVE  /\ outputs'[o].ref = outputs[o].ref /\ outputs'[o].started = outputs[o].started
             /\ DOMAIN outputs'[o].cond = DOMAIN outputs[o].cond
             /\ outputs'[o].cond \in [DOMAIN outputs[o].cond -> {outputs'[o].cond[s] : s \in DOMAIN outputs[o].cond}]
             /\ outputs'[o] \in [ref : 1..nextRef-1, started : BOOLEAN, cond : {outputs'[o].cond}]
             /\ \A s \in DOMAIN outputs[o].cond :
                  outputs'[o].cond[s] = IF outputs[o].started /\ s \in sides
                                        THEN OnEvent(outputs[o].cond[s], change)
                                        ELSE outputs[o].cond[s]
  <2>1. /\ outputs[o] \in [ref : 1..nextRef-1, started : BOOLEAN, cond : {outputs[o].cond}]
        /\ outputs[o].cond \in [DOMAIN outputs[o].cond -> Cond]
    BY DEF TypeOK, OutputOK, IsHashMap
  <2>2. CASE ~outputs[o].started
    BY <2>1, <2>2 DEF TellOutputs
  <2>3. CASE outputs[o].started
    <3> DEFINE told == [s \in DOMAIN outputs[o].cond |->
                          IF s \in sides THEN OnEvent(outputs[o].cond[s], change)
                          ELSE outputs[o].cond[s]]
    <3>1. outputs'[o] = [outputs[o] EXCEPT !.cond = told]
      BY <2>3 DEF TellOutputs
    <3>2. /\ outputs'[o].cond = told /\ outputs'[o].ref = outputs[o].ref
          /\ outputs'[o].started = outputs[o].started
          /\ outputs'[o] \in [ref : 1..nextRef-1, started : BOOLEAN, cond : {told}]
      <4> HIDE DEF told
      <4> QED BY <2>1, <3>1
    <3> QED BY <2>3, <3>2
  <2> QED BY <2>2, <2>3
<1>3. ASSUME NEW o \in DOMAIN outputs, NEW s \in DOMAIN outputs[o].cond
      PROVE  /\ outputs[o].cond[s] \in Cond /\ outputs'[o].cond[s] \in Cond
             /\ s \in Sides
             /\ outputs'[o].cond[s].end = outputs[o].cond[s].end
             /\ outputs[o].cond[s].didEnd => outputs'[o].cond[s].didEnd
             /\ outputs'[o].cond[s].didSendEos = outputs[o].cond[s].didSendEos
  <2>1. outputs[o].cond[s] \in Cond /\ s \in Sides
    BY DEF TypeOK, OutputOK, IsHashMap
  <2> QED BY <1>2, <2>1, OnEventType
<1>4. ASSUME NEW o \in DOMAIN outputs PROVE OutputOK(outputs[o])'
  <2>1. outputs'[o].cond \in [DOMAIN outputs'[o].cond -> Cond] /\ DOMAIN outputs'[o].cond \subseteq Sides
    BY <1>2, <1>3
  <2> QED BY <1>2, <2>1 DEF OutputOK, IsHashMap
<1>5. SameShape
  BY <1>1, <1>2, <1>3 DEF SameShape
<1> QED BY <1>2, <1>3, <1>4, <1>5


LEMMA StatusesShape ==
  ASSUME TypeOK, CondOrder, NEW s \in Sides, Statuses(s)
  PROVE  /\ SameShape
         /\ \A o \in DOMAIN outputs : OutputOK(outputs[o])'
         /\ \A o \in DOMAIN outputs : \A t \in DOMAIN outputs[o].cond :
              outputs'[o].cond[t] = IF outputs[o].started /\ t = s
                                    THEN EosStatus(outputs[o].cond[t])
                                    ELSE outputs[o].cond[t]
<1>1. DOMAIN outputs' = DOMAIN outputs /\ nextRef' = nextRef
  BY DEF Statuses
<1>2. ASSUME NEW o \in DOMAIN outputs
      PROVE  /\ outputs[o] \in [ref : 1..nextRef-1, started : BOOLEAN, cond : {outputs[o].cond}]
             /\ outputs[o].cond \in [DOMAIN outputs[o].cond -> Cond]
             /\ DOMAIN outputs[o].cond \subseteq Sides
  BY DEF TypeOK, OutputOK, IsHashMap
<1>3. ASSUME NEW c \in Cond
      PROVE  /\ EosStatus(c) \in Cond /\ EosStatus(c).end = c.end
             /\ c.didEnd => EosStatus(c).didEnd
             /\ EosStatus(c).didSendEos = EosStatus(c).didEnd
  <2>1. OnStatus(c) \in Cond /\ OnStatus(c).end = c.end /\ (c.didEnd => OnStatus(c).didEnd)
    BY OnEventType DEF OnStatus, NoChanges
  <2> QED BY <2>1 DEF EosStatus, Cond
<1>4. ASSUME NEW o \in DOMAIN outputs
      PROVE  /\ outputs'[o].ref = outputs[o].ref /\ outputs'[o].started = outputs[o].started
             /\ outputs'[o].cond \in [DOMAIN outputs[o].cond -> Cond]
             /\ outputs'[o] \in [ref : 1..nextRef-1, started : BOOLEAN, cond : {outputs'[o].cond}]
             /\ \A t \in DOMAIN outputs[o].cond :
                  outputs'[o].cond[t] = IF outputs[o].started /\ t = s
                                        THEN EosStatus(outputs[o].cond[t])
                                        ELSE outputs[o].cond[t]
  <2>1. CASE ~HasCond(o, s)
    <3>1. outputs'[o] = outputs[o]
      BY <2>1 DEF Statuses
    <3> QED BY <1>2, <2>1, <3>1 DEF HasCond
  <2>2. CASE HasCond(o, s)
    <3> DEFINE told == [outputs[o].cond EXCEPT ![s] = EosStatus(outputs[o].cond[s])]
    <3>1. outputs'[o] = [outputs[o] EXCEPT !.cond = told]
      BY <2>2 DEF Statuses
    <3>2. /\ outputs'[o].cond = told /\ outputs'[o].ref = outputs[o].ref
          /\ outputs'[o].started = outputs[o].started
          /\ outputs'[o] \in [ref : 1..nextRef-1, started : BOOLEAN, cond : {told}]
      <4> HIDE DEF told
      <4> QED BY <1>2, <3>1
    <3>3. outputs[o].started /\ s \in DOMAIN outputs[o].cond /\ outputs[o].cond[s] \in Cond
      BY <1>2, <2>2 DEF HasCond
    <3>4. told \in [DOMAIN outputs[o].cond -> Cond]
      BY <1>2, <1>3, <3>3
    <3> QED BY <3>2, <3>3, <3>4
  <2> QED BY <2>1, <2>2
<1>5. ASSUME NEW o \in DOMAIN outputs PROVE OutputOK(outputs[o])'
  BY <1>1, <1>2, <1>4 DEF OutputOK, IsHashMap
<1>6. SameShape
  BY <1>1, <1>2, <1>3, <1>4 DEF SameShape, CondOrder
<1> QED BY <1>4, <1>5, <1>6

\* Only output o changes: it goes, or it is there anew with no end yet.
Changes(o) ==
  /\ DOMAIN outputs' \subseteq OutputIds
  /\ \A p \in OutputIds \ {o} : /\ p \in DOMAIN outputs' <=> p \in DOMAIN outputs
                                /\ p \in DOMAIN outputs => outputs'[p] = outputs[p]
  /\ o \in DOMAIN outputs' =>
       /\ OutputOK(outputs[o])'
       /\ \A s \in DOMAIN outputs'[o].cond :
            /\ ~outputs'[o].cond[s].didEnd /\ ~outputs'[o].cond[s].didSendEos
            /\ outputs'[o].started => outputs'[o].cond[s].connected = Connected(s)
  /\ sink' \in [Sides -> SUBSET OutputIds]
  /\ \A s \in Sides : sink'[s] \ {o} = sink[s] \ {o}
  /\ \A s \in Sides : o \in sink'[s] => HasCond(o, s)'

LEMMA StartChanges ==
  ASSUME TypeOK, NEW o \in OutputIds, \A s \in Sides : o \notin sink[s], nextRef' \in Nat,
         NEW record, IsHashMap(record.cond, Sides, Cond),
         record \in [ref : 1..nextRef'-1, started : {FALSE}, cond : {record.cond}],
         \A s \in DOMAIN record.cond :
           ~record.cond[s].didEnd /\ ~record.cond[s].didSendEos,
         Start(o, record)
  PROVE  /\ Changes(o)
         /\ o \in DOMAIN outputs' => outputs'[o].ref = record.ref /\ outputs'[o].started
<1> DEFINE fresh == [s \in DOMAIN record.cond |-> Fresh(s, record.cond[s])]
           new   == [record EXCEPT !.started = TRUE, !.cond = fresh]
<1>1. ASSUME NEW s \in DOMAIN record.cond
      PROVE  /\ fresh[s] \in Cond /\ ~fresh[s].didEnd /\ ~fresh[s].didSendEos
             /\ fresh[s].connected = Connected(s)
  <2>1. record.cond[s] \in Cond /\ Connected(s) \subseteq InputIds
    BY DEF IsHashMap, Connected, TypeOK
  <2> QED BY <2>1 DEF Fresh, Cond
<1>2. IsHashMap(fresh, Sides, Cond)
  BY <1>1 DEF IsHashMap
<1>3. CASE outputs' = Put(outputs, o, new) /\ sink' = [s \in Sides |-> IF s \in DOMAIN record.cond THEN sink[s] \cup {o} ELSE sink[s]]
  <2> HIDE DEF fresh
  <2>1. /\ new.ref = record.ref /\ new.started = TRUE /\ new.cond = fresh
        /\ new \in [ref : 1..nextRef'-1, started : BOOLEAN, cond : {fresh}]
    OBVIOUS
  <2>2. DOMAIN fresh = DOMAIN record.cond
    BY DEF fresh
  <2> HIDE DEF new
  <2>3. /\ DOMAIN outputs' = DOMAIN outputs \cup {o} /\ outputs'[o] = new
        /\ \A p \in DOMAIN outputs \ {o} : outputs'[p] = outputs[p]
    BY <1>3 DEF Put
  <2>4. OutputOK(outputs[o])'
    BY <1>2, <2>1, <2>3 DEF OutputOK
  <2>5. \A s \in Sides : /\ sink'[s] \ {o} = sink[s] \ {o}
                         /\ o \in sink'[s] => HasCond(o, s)'
    BY <1>3, <2>1, <2>2, <2>3 DEF HasCond
  <2>6. sink' \in [Sides -> SUBSET OutputIds]
    BY <1>3 DEF TypeOK
  <2>7. DOMAIN outputs \subseteq OutputIds
    BY DEF TypeOK
  <2> QED BY <1>1, <2>1, <2>2, <2>3, <2>4, <2>5, <2>6, <2>7 DEF Changes
<1>4. CASE outputs' = Without(outputs, o) /\ sink' = [sink EXCEPT !["video"] = @ \ {o}]
  <2>1. /\ DOMAIN outputs' = DOMAIN outputs \ {o}
        /\ \A p \in DOMAIN outputs \ {o} : outputs'[p] = outputs[p]
    BY <1>4 DEF Without
  <2>2. sink' \in [Sides -> SUBSET OutputIds] /\ \A s \in Sides : sink'[s] \ {o} = sink[s] \ {o} /\ o \notin sink'[s]
    BY <1>4 DEF TypeOK
  <2> QED BY <2>1, <2>2 DEF Changes, TypeOK
<1> QED BY <1>3, <1>4 DEF Start

\* A new output has the next Ref, and a start event only if it has not started.
NewOutput(o) ==
  o \in DOMAIN outputs' =>
    /\ outputs'[o].ref = nextRef
    /\ <<o, nextRef>> \in scheduled' => ~outputs'[o].started

LEMMA RegisterChanges ==
  ASSUME IInv, NEW o \in OutputIds, RegisterOutput(o)
  PROVE  /\ Changes(o) /\ o \notin DOMAIN outputs /\ nextRef \in Refs /\ nextRef' = nextRef + 1
         /\ NewOutput(o)
         /\ scheduled' \in {scheduled, scheduled \cup {<<o, nextRef>>}}
<1>1. /\ o \notin DOMAIN outputs /\ nextRef \in Refs /\ nextRef' = nextRef + 1
      /\ nextRef \in Nat \ {0} /\ \A s \in Sides : o \notin sink[s]
      /\ <<o, nextRef>> \notin scheduled
  BY ConstAssumption DEF RegisterOutput, IInv, NoGhosts, HasCond, Refs, RefOrder
<1>2. PICK opt \in Options :
        LET record == [ref |-> nextRef, started |-> FALSE,
                       cond |-> [s \in DOMAIN opt |-> Pending(opt[s])]]
        IN  \/ Start(o, record) /\ UNCHANGED scheduled
            \/ /\ outputs' = Put(outputs, o, record)
               /\ scheduled' = scheduled \cup {<<o, nextRef>>}
               /\ UNCHANGED sink
  BY DEF RegisterOutput
<1> DEFINE cond   == [s \in DOMAIN opt |-> Pending(opt[s])]
           record == [ref |-> nextRef, started |-> FALSE, cond |-> cond]
<1>3. /\ IsHashMap(cond, Sides, Cond)
      /\ \A s \in DOMAIN cond : ~cond[s].didEnd /\ ~cond[s].didSendEos
  <2>1. PICK tracks \in SUBSET Sides : opt \in [tracks -> Conditions]
    BY ConstAssumption
  <2> QED BY <2>1 DEF IsHashMap, Pending, Cond
<1> HIDE DEF cond
<1>4. /\ record.ref = nextRef /\ record.started = FALSE /\ record.cond = cond
      /\ record \in [ref : 1..nextRef'-1, started : {FALSE}, cond : {cond}]
  BY <1>1
<1>5. CASE Start(o, record) /\ UNCHANGED scheduled
  <2>1. PICK new : new = record
    OBVIOUS
  <2> HIDE DEF record
  <2>2. /\ IsHashMap(new.cond, Sides, Cond)
        /\ new \in [ref : 1..nextRef'-1, started : {FALSE}, cond : {new.cond}]
        /\ \A s \in DOMAIN new.cond : ~new.cond[s].didEnd /\ ~new.cond[s].didSendEos
    <3>1. new.cond = cond
      BY <1>4, <2>1
    <3>2. new \in [ref : 1..nextRef'-1, started : {FALSE}, cond : {new.cond}]
      BY <1>4, <2>1, <3>1
    <3> QED BY <1>3, <3>1, <3>2
  <2>4. Start(o, new) /\ nextRef' \in Nat
    BY <1>1, <1>5, <2>1
  <2>3. Changes(o) /\ (o \in DOMAIN outputs' => outputs'[o].ref = new.ref)
    BY <1>1, <2>2, <2>4, StartChanges DEF IInv
  <2> QED BY <1>1, <1>4, <1>5, <2>1, <2>3 DEF NewOutput
<1>6. CASE /\ outputs' = Put(outputs, o, record) /\ UNCHANGED sink
           /\ scheduled' = scheduled \cup {<<o, nextRef>>}
  <2> HIDE DEF record
  <2>1. /\ DOMAIN outputs' = DOMAIN outputs \cup {o} /\ outputs'[o] = record
        /\ \A p \in DOMAIN outputs \ {o} : outputs'[p] = outputs[p]
    BY <1>6 DEF Put
  <2>2. OutputOK(outputs[o])'
    BY <1>3, <1>4, <2>1 DEF OutputOK
  <2> QED BY <1>1, <1>3, <1>4, <1>6, <2>1, <2>2 DEF Changes, NewOutput, IInv, TypeOK
<1> QED BY <1>1, <1>2, <1>5, <1>6 DEF record, cond

LEMMA RunStartChanges ==
  ASSUME IInv, NEW o \in OutputIds, NEW r \in Refs, RunStart(o, r),
         o \in DOMAIN outputs, outputs[o].ref = r
  PROVE  /\ Changes(o)
         /\ o \in DOMAIN outputs' => outputs'[o].ref = outputs[o].ref /\ ~outputs[o].started
<1>1. /\ ~outputs[o].started /\ nextRef' = nextRef /\ nextRef \in Nat
      /\ Start(o, outputs[o]) /\ OutputOK(outputs[o])
  BY ConstAssumption DEF RunStart, IInv, RefOrder, TypeOK
<1>2. /\ IsHashMap(outputs[o].cond, Sides, Cond)
      /\ outputs[o] \in [ref : 1..nextRef'-1, started : {FALSE}, cond : {outputs[o].cond}]
  BY <1>1 DEF OutputOK
<1>3. \A s \in DOMAIN outputs[o].cond :
        ~outputs[o].cond[s].didEnd /\ ~outputs[o].cond[s].didSendEos
  BY <1>1, <1>2 DEF IInv, CondOrder, IsHashMap, Cond
<1>4. \A s \in Sides : o \notin sink[s]
  BY <1>1 DEF IInv, NoGhosts, HasCond
<1> QED BY <1>1, <1>2, <1>3, <1>4, StartChanges DEF IInv

LEMMA UnregisterChanges ==
  ASSUME IInv, NEW o \in OutputIds, UnregisterOutput(o)
  PROVE  Changes(o) /\ o \notin DOMAIN outputs'
<1>1. /\ DOMAIN outputs' = DOMAIN outputs \ {o}
      /\ \A p \in DOMAIN outputs \ {o} : outputs'[p] = outputs[p]
  BY DEF UnregisterOutput, Without
<1> QED BY <1>1 DEF UnregisterOutput, Changes, IInv, TypeOK
-----------------------------------------------------------------------------
(* Every step falls into one of these cases. *)

\* Steps that only tell the outputs of a change, and steps that let them be.
Told ==
  SameShape /\ \A o \in DOMAIN outputs : OutputOK(outputs[o])'

LEMMA UnchangedTold ==
  ASSUME TypeOK, UNCHANGED outputs, nextRef' = nextRef
  PROVE  Told
BY DEF Told, SameShape, TypeOK, OutputOK

LEMMA InputTold ==
  ASSUME IInv, NEW i \in InputIds,
         \/ RegisterInput(i) \/ UnregisterInput(i) \/ \E s \in Sides : HandleEos(s, i)
  PROVE  Told
<1>1. CASE RegisterInput(i)
  BY <1>1, TellOutputsShape DEF RegisterInput, AddInput, IInv, Told
<1>2. CASE UnregisterInput(i)
  BY <1>2, TellOutputsShape DEF UnregisterInput, RemoveInput, IInv, Told
<1>3. ASSUME NEW s \in Sides, HandleEos(s, i) PROVE Told
  BY <1>3, TellOutputsShape DEF HandleEos, RemoveInput, IInv, Told
<1> QED BY <1>1, <1>2, <1>3

ToldStep == Told /\ nextRef' = nextRef /\ scheduled' \subseteq scheduled

\* A step that changes o, with its Ref and its start event.
ChangeStep(o) ==
  /\ Changes(o)
  /\ nextRef' \in nextRef .. MaxRefs+1
  /\ o \in DOMAIN outputs' =>
       \/ o \in DOMAIN outputs /\ outputs'[o].ref = outputs[o].ref /\ ~outputs[o].started
       \/ outputs'[o].ref = nextRef /\ nextRef' = nextRef + 1
  /\ \A x \in scheduled' :
       /\ x \in scheduled \/ (x = <<o, nextRef>> /\ nextRef' = nextRef + 1)
       /\ x[1] = o /\ o \in DOMAIN outputs' /\ outputs'[o].ref = x[2] => ~outputs'[o].started
  /\ UNCHANGED <<inputs, live, chan, thread, gone, got>>

LEMMA OutputChangeStep ==
  ASSUME IInv, NEW o \in OutputIds,
         \/ RegisterOutput(o) \/ UnregisterOutput(o)
         \/ \E r \in Refs : RunStart(o, r) /\ o \in DOMAIN outputs /\ outputs[o].ref = r
  PROVE  ChangeStep(o)
<1>1. /\ nextRef \in Nat /\ nextRef \in 1..MaxRefs+1 /\ MaxRefs \in Nat
      /\ scheduled \subseteq OutputIds \X Refs /\ Refs \subseteq Nat
      /\ \A x \in scheduled : x[2] < nextRef
  BY ConstAssumption DEF IInv, TypeOK, RefOrder, Refs
<1>2. CASE RegisterOutput(o)
  <2>1. UNCHANGED <<inputs, live, chan, thread, gone, got>>
    BY <1>2 DEF RegisterOutput
  <2>2. \A x \in scheduled' : x \in scheduled \/ x = <<o, nextRef>>
    BY <1>2, RegisterChanges
  <2>4. NewOutput(o)
    BY <1>2, RegisterChanges
  <2>3. ASSUME NEW x \in scheduled', x[1] = o, o \in DOMAIN outputs', outputs'[o].ref = x[2]
        PROVE  ~outputs'[o].started
    <3>1. x = <<o, nextRef>>
      BY <1>1, <2>2, <2>3, <2>4 DEF NewOutput
    <3> QED BY <2>3, <2>4, <3>1 DEF NewOutput
  <2>5. Changes(o) /\ nextRef' = nextRef + 1 /\ nextRef \in Refs
    BY <1>2, RegisterChanges
  <2> QED BY <1>1, <2>1, <2>2, <2>3, <2>4, <2>5 DEF ChangeStep, NewOutput, Refs
<1>3. CASE UnregisterOutput(o)
  <2>1. UNCHANGED <<inputs, live, chan, thread, gone, got, nextRef, scheduled>>
    BY <1>3 DEF UnregisterOutput, thread
  <2> QED BY <1>1, <1>3, <2>1, UnregisterChanges DEF ChangeStep
<1>4. ASSUME NEW r \in Refs, RunStart(o, r), o \in DOMAIN outputs, outputs[o].ref = r
      PROVE  ChangeStep(o)
  <2>1. /\ UNCHANGED <<inputs, live, chan, thread, gone, got, nextRef>>
        /\ scheduled' = scheduled \ {<<o, r>>}
    BY <1>4 DEF RunStart
  <2>2. \A x \in scheduled' : ~(x[1] = o /\ x[2] = r)
    BY <1>1, <2>1
  <2> QED BY <1>1, <1>4, <2>1, <2>2, RunStartChanges DEF ChangeStep
<1> QED BY <1>2, <1>3, <1>4

LEMMA StepCases ==
  ASSUME IInv, [Next]_vars
  PROVE  \/ ToldStep
         \/ \E o \in OutputIds : ChangeStep(o)
<1>1. ASSUME UNCHANGED <<outputs, nextRef, scheduled>> PROVE ToldStep
  BY <1>1, UnchangedTold DEF ToldStep, IInv
<1>2. ASSUME NEW i \in InputIds, RegisterInput(i) \/ UnregisterInput(i) PROVE ToldStep
  BY <1>2, InputTold DEF ToldStep, RegisterInput, UnregisterInput
<1>3. ASSUME NEW o \in OutputIds, RegisterOutput(o) \/ UnregisterOutput(o) PROVE ChangeStep(o)
  BY <1>3, OutputChangeStep
<1>4. ASSUME NEW o \in OutputIds, UpdateOutput(o) PROVE ToldStep
  BY <1>1, <1>4 DEF UpdateOutput, api
<1>5. ASSUME NEW o \in OutputIds, NEW r \in Refs, RunStart(o, r) PROVE ToldStep \/ ChangeStep(o)
  <2>1. CASE o \in DOMAIN outputs /\ outputs[o].ref = r
    BY <1>5, <2>1, OutputChangeStep
  <2>2. CASE ~(o \in DOMAIN outputs /\ outputs[o].ref = r)
    <3>1. UNCHANGED <<outputs, nextRef>> /\ scheduled' \subseteq scheduled
      BY <1>5, <2>2 DEF RunStart
    <3> QED BY <3>1, UnchangedTold DEF ToldStep, IInv
  <2> QED BY <2>1, <2>2
<1>6. ASSUME NEW r \in Refs, NEW s \in Sides, DropReceiver(r, s) PROVE ToldStep
  BY <1>1, <1>6 DEF DropReceiver, api
<1>7. ASSUME NEW s \in Sides, EmitBatch(s) \/ Receive(s) \/ Render(s) \/ Done(s) PROVE ToldStep
  BY <1>1, <1>7 DEF EmitBatch, Receive, Render, Done, api
<1>8. ASSUME NEW s \in Sides, NEW i \in InputIds, HandleEos(s, i) PROVE ToldStep
  BY <1>8, InputTold DEF ToldStep, HandleEos
<1>9. ASSUME NEW s \in Sides, Statuses(s) PROVE ToldStep
  BY <1>9, StatusesShape DEF ToldStep, Told, Statuses, IInv
<1>10. ASSUME NEW s \in Sides, NEW o \in OutputIds, SendEos(s, o) \/ Disconnect(s, o) \/ SendData(s, o)
       PROVE  ToldStep
  BY <1>1, <1>10 DEF SendEos, Disconnect, SendData, api
<1>11. CASE UNCHANGED vars
  BY <1>1, <1>11 DEF vars, api
<1> QED BY <1>2, <1>3, <1>4, <1>5, <1>6, <1>7, <1>8, <1>9, <1>10, <1>11 DEF Next, ThreadStep
-----------------------------------------------------------------------------
(* The invariant, part by part. *)

LEMMA RangeGrows ==
  ASSUME NEW a \in Int, NEW b \in Int, a <= b
  PROVE  1..a-1 \subseteq 1..b-1
OBVIOUS

LEMMA OutputsTyped ==
  ASSUME IInv, [Next]_vars
  PROVE  /\ DOMAIN outputs' \subseteq OutputIds
         /\ \A o \in DOMAIN outputs' : OutputOK(outputs[o])'
         /\ nextRef' \in 1..MaxRefs+1 /\ scheduled' \subseteq OutputIds \X Refs
<1>1. /\ nextRef \in 1..MaxRefs+1 /\ MaxRefs \in Nat /\ DOMAIN outputs \subseteq OutputIds
      /\ scheduled \subseteq OutputIds \X Refs
  BY ConstAssumption DEF IInv, TypeOK
<1>2. CASE ToldStep
  BY <1>1, <1>2 DEF ToldStep, Told, SameShape
<1>3. ASSUME NEW o \in OutputIds, ChangeStep(o)
      PROVE  /\ DOMAIN outputs' \subseteq OutputIds
             /\ \A p \in DOMAIN outputs' : OutputOK(outputs[p])'
             /\ nextRef' \in 1..MaxRefs+1 /\ scheduled' \subseteq OutputIds \X Refs
  <2>1. nextRef' \in 1..MaxRefs+1 /\ nextRef' >= nextRef
    BY <1>1, <1>3 DEF ChangeStep
  <2>2. scheduled' \subseteq OutputIds \X Refs
    <3> SUFFICES ASSUME NEW x \in scheduled' PROVE x \in OutputIds \X Refs
      OBVIOUS
    <3>1. CASE x \in scheduled
      BY <1>1, <3>1
    <3>2. CASE x = <<o, nextRef>> /\ nextRef' = nextRef + 1
      BY <1>1, <2>1, <3>2 DEF Refs
    <3> QED BY <1>3, <3>1, <3>2 DEF ChangeStep
  <2>3. ASSUME NEW p \in DOMAIN outputs', p # o PROVE OutputOK(outputs[p])'
    <3>1. p \in DOMAIN outputs /\ outputs'[p] = outputs[p]
      BY <1>3, <2>3 DEF ChangeStep, Changes
    <3>2. OutputOK(outputs[p])
      BY <3>1 DEF IInv, TypeOK
    <3>3. nextRef \in Int /\ nextRef' \in Int /\ nextRef <= nextRef'
      BY <1>1, <2>1
    <3>4. 1..nextRef-1 \subseteq 1..nextRef'-1
      BY <3>3, RangeGrows
    <3> QED BY <3>1, <3>2, <3>4 DEF OutputOK
  <2>4. DOMAIN outputs' \subseteq OutputIds /\ (o \in DOMAIN outputs' => OutputOK(outputs[o])')
    BY <1>3 DEF ChangeStep, Changes
  <2> QED BY <2>1, <2>2, <2>3, <2>4
<1> QED BY <1>2, <1>3, StepCases

\* Statuses fills finished and senders with different outputs.
LEMMA StatusesMaps ==
  ASSUME IInv, NEW s \in Sides, Statuses(s)
  PROVE  \A t \in Sides :
           /\ IsHashMap(finished[t], OutputIds, Refs)' /\ IsHashMap(senders[t], OutputIds, Refs)'
           /\ DOMAIN finished'[t] \cap DOMAIN senders'[t] = {}
<1>1. ASSUME NEW o \in DOMAIN outputs PROVE o \in OutputIds /\ outputs[o].ref \in Refs
  BY ConstAssumption DEF IInv, TypeOK, OutputOK, Refs
<1>2. SendsEos(s) \subseteq DOMAIN outputs /\ Active(s) \subseteq DOMAIN outputs
      /\ SendsEos(s) \cap Active(s) = {}
  BY DEF SendsEos, Active, Ended
<1>3. DOMAIN finished = Sides /\ DOMAIN senders = Sides
  BY DEF IInv, TypeOK
<1>4. /\ finished'[s] = [o \in SendsEos(s) |-> outputs[o].ref]
      /\ senders'[s] = [o \in Active(s) |-> outputs[o].ref]
      /\ \A t \in Sides \ {s} : finished'[t] = finished[t] /\ senders'[t] = senders[t]
  BY <1>3 DEF Statuses
<1>5. \A t \in Sides : /\ IsHashMap(finished[t], OutputIds, Refs) /\ IsHashMap(senders[t], OutputIds, Refs)
                      /\ DOMAIN finished[t] \cap DOMAIN senders[t] = {}
  BY DEF IInv, TypeOK
<1>6. /\ IsHashMap(finished'[s], OutputIds, Refs) /\ IsHashMap(senders'[s], OutputIds, Refs)
      /\ DOMAIN finished'[s] \cap DOMAIN senders'[s] = {}
  BY <1>1, <1>2, <1>4 DEF IsHashMap
<1>7. ASSUME NEW t \in Sides \ {s}
      PROVE  /\ IsHashMap(finished'[t], OutputIds, Refs) /\ IsHashMap(senders'[t], OutputIds, Refs)
             /\ DOMAIN finished'[t] \cap DOMAIN senders'[t] = {}
  BY <1>4, <1>5
<1> QED BY <1>6, <1>7 DEF IsHashMap

LEMMA InputsTyped ==
  ASSUME IInv, [Next]_vars
  PROVE  /\ IsHashMap(inputs, InputIds, [Sides -> BOOLEAN])'
         /\ used' \subseteq InputIds /\ live' \subseteq used' \X Sides
         /\ chan' \in [Sides -> Seq(SUBSET InputIds)]
         /\ todo' \in [Sides -> SUBSET InputIds]
<1>1. /\ IsHashMap(inputs, InputIds, [Sides -> BOOLEAN])
      /\ used \subseteq InputIds /\ live \subseteq used \X Sides
      /\ chan \in [Sides -> Seq(SUBSET InputIds)]
      /\ todo \in [Sides -> SUBSET InputIds]
  BY DEF IInv, TypeOK
<1>2. ASSUME NEW i \in InputIds, RegisterInput(i)
      PROVE  /\ IsHashMap(inputs, InputIds, [Sides -> BOOLEAN])'
             /\ used' \subseteq InputIds /\ live' \subseteq used' \X Sides
             /\ UNCHANGED <<chan, todo>>
  BY <1>1, <1>2 DEF RegisterInput, Put, IsHashMap, thread
<1>3. ASSUME NEW i \in InputIds, UnregisterInput(i)
      PROVE  /\ IsHashMap(inputs, InputIds, [Sides -> BOOLEAN])'
             /\ used' \subseteq InputIds /\ live' \subseteq used' \X Sides
             /\ UNCHANGED <<chan, todo>>
  BY <1>1, <1>3 DEF UnregisterInput, Without, IsHashMap, thread
<1>4. ASSUME NEW s \in Sides, NEW i \in InputIds, HandleEos(s, i)
      PROVE  /\ IsHashMap(inputs, InputIds, [Sides -> BOOLEAN])'
             /\ todo' \in [Sides -> SUBSET InputIds] /\ UNCHANGED <<used, live, chan>>
  BY <1>1, <1>4 DEF HandleEos, IsHashMap
<1>5. ASSUME NEW s \in Sides, EmitBatch(s)
      PROVE  /\ live' \subseteq used' \X Sides /\ chan' \in [Sides -> Seq(SUBSET InputIds)]
             /\ UNCHANGED <<inputs, used, todo>>
  <2>1. PICK e \in SUBSET InputIds : /\ live' = live \ e \X {s}
                                    /\ chan' = [chan EXCEPT ![s] = Append(@, e)]
    BY <1>5 DEF EmitBatch
  <2>2. Append(chan[s], e) \in Seq(SUBSET InputIds)
    BY <1>1
  <2>3. UNCHANGED <<inputs, used, todo>>
    BY <1>5 DEF EmitBatch, api, thread
  <2> QED BY <1>1, <2>1, <2>2, <2>3
<1>6. ASSUME NEW s \in Sides, Receive(s)
      PROVE  /\ chan' \in [Sides -> Seq(SUBSET InputIds)] /\ todo' \in [Sides -> SUBSET InputIds]
             /\ UNCHANGED <<inputs, used, live>>
  <2>1. chan[s] \in Seq(SUBSET InputIds) /\ chan[s] # <<>>
    BY <1>1, <1>6 DEF Receive
  <2>2. Head(chan[s]) \in SUBSET InputIds /\ Tail(chan[s]) \in Seq(SUBSET InputIds)
    BY <2>1
  <2> QED BY <1>1, <1>6, <2>2 DEF Receive, api
<1>7. CASE UNCHANGED <<inputs, used, live, chan, todo>>
  BY <1>1, <1>7 DEF IsHashMap
<1>8. ASSUME NEW o \in OutputIds, \/ RegisterOutput(o) \/ UnregisterOutput(o) \/ UpdateOutput(o)
                                  \/ \E r \in Refs : RunStart(o, r)
      PROVE  UNCHANGED <<inputs, used, live, chan, todo>>
  BY <1>8 DEF RegisterOutput, UnregisterOutput, UpdateOutput, RunStart, thread, api
<1>9. ASSUME NEW s \in Sides,
             \/ Statuses(s) \/ Render(s) \/ Done(s) \/ (\E r \in Refs : DropReceiver(r, s))
             \/ \E o \in OutputIds : SendEos(s, o) \/ Disconnect(s, o) \/ SendData(s, o)
      PROVE  UNCHANGED <<inputs, used, live, chan, todo>>
  BY <1>9 DEF Statuses, Render, Done, DropReceiver, SendEos, Disconnect, SendData, thread, api
<1>10. CASE UNCHANGED vars
  BY <1>7, <1>10 DEF vars, api, thread
<1>11. CASE \/ \E i \in InputIds : RegisterInput(i) \/ UnregisterInput(i)
            \/ \E s \in Sides : EmitBatch(s) \/ Receive(s) \/ \E i \in InputIds : HandleEos(s, i)
  BY <1>1, <1>2, <1>3, <1>4, <1>5, <1>6, <1>11 DEF IsHashMap
<1> QED BY <1>7, <1>8, <1>9, <1>10, <1>11 DEF Next, ThreadStep

Got == {"nothing", "data", "eos", "afterEos"}

\* One item more changes what one receiver has got.
LEMMA SentFacts ==
  ASSUME TypeOK, NEW r \in Refs, NEW s \in Sides, NEW item \in Got, got' = Sent(r, s, item)
  PROVE  /\ got' \in [Refs -> [Sides -> Got]]
         /\ \A q \in Refs, t \in Sides : q # r \/ t # s => got'[q][t] = got[q][t]
         /\ got'[r][s] \in {got[r][s], IF got[r][s] = "eos" THEN "afterEos" ELSE item}
<1>1. got \in [Refs -> [Sides -> Got]]
  BY DEF TypeOK, Got
<1>2. CASE got' = got
  BY <1>1, <1>2
<1>3. CASE got' = [got EXCEPT ![r][s] = IF got[r][s] = "eos" THEN "afterEos" ELSE item]
  BY <1>1, <1>3 DEF Got
<1> QED BY <1>2, <1>3 DEF Sent

LEMMA ThreadsTyped ==
  ASSUME IInv, [Next]_vars
  PROVE  /\ pc' \in [Sides -> {"recv", "eos", "finish", "send"}]
         /\ DOMAIN finished' = Sides /\ DOMAIN senders' = Sides
         /\ \A s \in Sides :
              /\ IsHashMap(finished[s], OutputIds, Refs)' /\ IsHashMap(senders[s], OutputIds, Refs)'
              /\ DOMAIN finished'[s] \cap DOMAIN senders'[s] = {}
         /\ {leaving', frames', sink'} \subseteq [Sides -> SUBSET OutputIds]
         /\ gone' \subseteq Refs \X Sides
         /\ got' \in [Refs -> [Sides -> {"nothing", "data", "eos", "afterEos"}]]
<1> DEFINE Goal == /\ pc' \in [Sides -> {"recv", "eos", "finish", "send"}]
                   /\ DOMAIN finished' = Sides /\ DOMAIN senders' = Sides
                   /\ \A s \in Sides :
                        /\ IsHashMap(finished'[s], OutputIds, Refs) /\ IsHashMap(senders'[s], OutputIds, Refs)
                        /\ DOMAIN finished'[s] \cap DOMAIN senders'[s] = {}
                   /\ leaving' \in [Sides -> SUBSET OutputIds]
                   /\ frames' \in [Sides -> SUBSET OutputIds]
                   /\ sink' \in [Sides -> SUBSET OutputIds]
                   /\ gone' \subseteq Refs \X Sides
                   /\ got' \in [Refs -> [Sides -> Got]]
<1>1. /\ pc \in [Sides -> {"recv", "eos", "finish", "send"}]
      /\ DOMAIN finished = Sides /\ DOMAIN senders = Sides
      /\ \A s \in Sides :
           /\ IsHashMap(finished[s], OutputIds, Refs) /\ IsHashMap(senders[s], OutputIds, Refs)
           /\ DOMAIN finished[s] \cap DOMAIN senders[s] = {}
      /\ leaving \in [Sides -> SUBSET OutputIds] /\ frames \in [Sides -> SUBSET OutputIds]
      /\ sink \in [Sides -> SUBSET OutputIds]
      /\ gone \subseteq Refs \X Sides /\ got \in [Refs -> [Sides -> Got]]
  BY DEF IInv, TypeOK, Got
<1>2. ASSUME UNCHANGED <<pc, finished, senders, leaving, frames, sink, gone, got>> PROVE Goal
  BY <1>1, <1>2
<1>3. ASSUME NEW o \in OutputIds, ChangeStep(o) PROVE Goal
  <2>1. UNCHANGED <<pc, finished, senders, leaving, frames, gone, got>> /\ sink' \in [Sides -> SUBSET OutputIds]
    BY <1>3 DEF ChangeStep, Changes, thread
  <2> QED BY <1>1, <2>1
<1>4. ASSUME NEW s \in Sides, Receive(s) \/ \E i \in InputIds : HandleEos(s, i) PROVE Goal
  <2>1. /\ pc' \in [Sides -> {"recv", "eos", "finish", "send"}]
        /\ UNCHANGED <<finished, senders, leaving, frames, sink, gone, got>>
    BY <1>1, <1>4 DEF Receive, HandleEos
  <2> QED BY <1>1, <2>1
<1>5. ASSUME NEW s \in Sides, Statuses(s) PROVE Goal
  <2>1. /\ pc' \in [Sides -> {"recv", "eos", "finish", "send"}]
        /\ DOMAIN finished' = Sides /\ DOMAIN senders' = Sides
        /\ UNCHANGED <<leaving, frames, sink, gone, got>>
    BY <1>1, <1>5 DEF Statuses
  <2>2. \A t \in Sides :
           /\ IsHashMap(finished'[t], OutputIds, Refs) /\ IsHashMap(senders'[t], OutputIds, Refs)
           /\ DOMAIN finished'[t] \cap DOMAIN senders'[t] = {}
    BY <1>5, StatusesMaps DEF IsHashMap
  <2> QED BY <1>1, <2>1, <2>2
<1>6. ASSUME NEW s \in Sides, NEW o \in OutputIds, SendEos(s, o) PROVE Goal
  <2>1. o \in DOMAIN finished[s] /\ got' = Sent(finished[s][o], s, "eos") /\ finished[s][o] \in Refs
    BY <1>1, <1>6 DEF SendEos, IsHashMap
  <2>2. got' \in [Refs -> [Sides -> Got]]
    BY <2>1, SentFacts DEF IInv, Got
  <2>3. /\ leaving' = [leaving EXCEPT ![s] = {o}] /\ finished' = [finished EXCEPT ![s] = Without(finished[s], o)]
        /\ UNCHANGED <<pc, senders, frames, sink, gone>>
    BY <1>6 DEF SendEos
  <2>4. IsHashMap(Without(finished[s], o), OutputIds, Refs) /\ DOMAIN Without(finished[s], o) \cap DOMAIN senders[s] = {}
    BY <1>1 DEF Without, IsHashMap
  <2> QED BY <1>1, <2>2, <2>3, <2>4
<1>7. ASSUME NEW s \in Sides, NEW o \in OutputIds, Disconnect(s, o) \/ UpdateOutput(o) PROVE Goal
  <2>1. /\ leaving' \in [Sides -> SUBSET OutputIds] /\ sink' \in [Sides -> SUBSET OutputIds]
        /\ UNCHANGED <<pc, finished, senders, frames, gone, got>>
    BY <1>1, <1>7 DEF Disconnect, UpdateOutput, thread
  <2> QED BY <1>1, <2>1
<1>8. ASSUME NEW s \in Sides, Render(s) PROVE Goal
  <2>1. PICK f \in {sink[s]} \cup (IF s = "video" THEN {{}} ELSE {}) : frames' = [frames EXCEPT ![s] = f]
    BY <1>8 DEF Render
  <2>2. f \in SUBSET OutputIds
    BY <1>1
  <2>3. /\ pc' \in [Sides -> {"recv", "eos", "finish", "send"}]
        /\ UNCHANGED <<finished, senders, leaving, sink, gone, got>>
    BY <1>1, <1>8 DEF Render
  <2> QED BY <1>1, <2>1, <2>2, <2>3
<1>9. ASSUME NEW s \in Sides, NEW o \in OutputIds, SendData(s, o) PROVE Goal
  <2>1. /\ frames' \in [Sides -> SUBSET OutputIds] /\ sink' \in [Sides -> SUBSET OutputIds]
        /\ UNCHANGED <<pc, finished, senders, leaving, gone>>
    BY <1>1, <1>9 DEF SendData
  <2>2. got' \in [Refs -> [Sides -> Got]]
    <3>1. CASE o \in DOMAIN senders[s]
      <4>1. senders[s][o] \in Refs /\ got' = Sent(senders[s][o], s, "data")
        BY <1>1, <1>9, <3>1 DEF SendData, IsHashMap
      <4> QED BY <4>1, SentFacts DEF IInv, Got
    <3>2. CASE o \notin DOMAIN senders[s]
      BY <1>1, <1>9, <3>2 DEF SendData
    <3> QED BY <3>1, <3>2
  <2> QED BY <1>1, <2>1, <2>2
<1>10. ASSUME NEW s \in Sides, Done(s) PROVE Goal
  <2>1. /\ pc' \in [Sides -> {"recv", "eos", "finish", "send"}]
        /\ senders' = [senders EXCEPT ![s] = Empty]
        /\ UNCHANGED <<finished, leaving, frames, sink, gone, got>>
    BY <1>1, <1>10 DEF Done
  <2>2. IsHashMap(Empty, OutputIds, Refs) /\ DOMAIN Empty = {}
    BY DEF Empty, IsHashMap
  <2> QED BY <1>1, <2>1, <2>2
<1>11. ASSUME NEW r \in Refs, NEW s \in Sides, DropReceiver(r, s) PROVE Goal
  <2>1. gone' \subseteq Refs \X Sides /\ UNCHANGED <<pc, finished, senders, leaving, frames, sink, got>>
    BY <1>1, <1>11 DEF DropReceiver, thread
  <2> QED BY <1>1, <2>1
<1>12. ASSUME NEW o \in OutputIds, RegisterOutput(o) \/ UnregisterOutput(o) PROVE Goal
  BY <1>3, <1>12, OutputChangeStep
<1>13. ASSUME NEW o \in OutputIds, NEW r \in Refs, RunStart(o, r) PROVE Goal
  <2>1. CASE o \in DOMAIN outputs /\ outputs[o].ref = r
    BY <1>3, <1>13, <2>1, OutputChangeStep
  <2>2. CASE ~(o \in DOMAIN outputs /\ outputs[o].ref = r)
    BY <1>2, <1>13, <2>2 DEF RunStart, thread
  <2> QED BY <2>1, <2>2
<1>14. ASSUME NEW i \in InputIds, RegisterInput(i) \/ UnregisterInput(i) PROVE Goal
  BY <1>2, <1>14 DEF RegisterInput, UnregisterInput, thread
<1>15. ASSUME NEW s \in Sides, EmitBatch(s) PROVE Goal
  BY <1>2, <1>15 DEF EmitBatch, thread
<1>16. ASSUME UNCHANGED vars PROVE Goal
  BY <1>2, <1>16 DEF vars, thread
<1>17. Goal
  <2> HIDE DEF Goal
  <2>1. ASSUME NEW o \in OutputIds, UpdateOutput(o) PROVE Goal
    <3>1. PICK s : s \in Sides
      BY <1>1, <2>1 DEF UpdateOutput, HasCond, IInv, TypeOK, OutputOK, IsHashMap
    <3> QED BY <1>7, <2>1, <3>1
  <2>2. ASSUME NEW s \in Sides, ThreadStep(s) PROVE Goal
    BY <1>4, <1>5, <1>6, <1>7, <1>8, <1>9, <1>10, <2>2 DEF ThreadStep
  <2>3. CASE Next
    BY <1>11, <1>12, <1>13, <1>14, <1>15, <2>1, <2>2, <2>3 DEF Next
  <2> QED BY <1>16, <2>3
<1> QED BY <1>17 DEF Got, IsHashMap

LEMMA TypeStep ==
  ASSUME IInv, [Next]_vars
  PROVE  TypeOK'
BY OutputsTyped, InputsTyped, ThreadsTyped DEF TypeOK

LEMMA CondStep ==
  ASSUME IInv, [Next]_vars
  PROVE  CondOrder'
<1>1. CASE ToldStep
  BY <1>1 DEF ToldStep, Told, SameShape, IInv, CondOrder
<1>2. ASSUME NEW o \in OutputIds, ChangeStep(o) PROVE CondOrder'
  <2>1. ASSUME NEW p \in DOMAIN outputs', NEW s \in DOMAIN outputs'[p].cond
        PROVE  /\ outputs'[p].cond[s].didSendEos => outputs'[p].cond[s].didEnd
               /\ ~outputs'[p].started => ~outputs'[p].cond[s].didEnd
    <3>1. CASE p = o
      BY <1>2, <2>1, <3>1 DEF ChangeStep, Changes
    <3>2. CASE p # o
      <4>1. p \in DOMAIN outputs /\ outputs'[p] = outputs[p]
        BY <1>2, <2>1, <3>2 DEF ChangeStep, Changes
      <4> QED BY <2>1, <4>1 DEF IInv, CondOrder
    <3> QED BY <3>1, <3>2
  <2> QED BY <2>1 DEF CondOrder
<1> QED BY <1>1, <1>2, StepCases

LEMMA RefStep ==
  ASSUME IInv, [Next]_vars
  PROVE  RefOrder'
<1>1. RefOrder /\ nextRef \in Int
  BY ConstAssumption DEF IInv, TypeOK
<1>2. CASE ToldStep
  BY <1>1, <1>2 DEF ToldStep, Told, SameShape, RefOrder
<1>3. ASSUME NEW o \in OutputIds, ChangeStep(o) PROVE RefOrder'
  <2>1. \A p \in DOMAIN outputs' \ {o} : p \in DOMAIN outputs /\ outputs'[p] = outputs[p]
    BY <1>3 DEF ChangeStep, Changes
  <2>2. \A p \in DOMAIN outputs : outputs[p].ref < nextRef
    <3> SUFFICES ASSUME NEW p \in DOMAIN outputs PROVE outputs[p].ref < nextRef
      OBVIOUS
    <3>1. outputs[p].ref \in 1..nextRef-1
      BY DEF IInv, TypeOK, OutputOK
    <3> QED BY <1>1, <3>1
  <2>3. \A p \in DOMAIN outputs' \ {o} :
          o \in DOMAIN outputs' => outputs'[p].ref # outputs'[o].ref
    BY <1>1, <1>3, <2>1, <2>2 DEF ChangeStep, RefOrder
  <2>4. \A p, q \in DOMAIN outputs' : outputs'[p].ref = outputs'[q].ref => p = q
    BY <1>1, <2>1, <2>3 DEF RefOrder
  <2>5. ASSUME NEW x \in scheduled'
        PROVE  x[2] < nextRef'
    <3>1. nextRef' \in Int /\ nextRef <= nextRef' /\ scheduled \subseteq OutputIds \X Refs /\ Refs \subseteq Int
      BY <1>1, <1>3, ConstAssumption DEF ChangeStep, IInv, TypeOK, Refs
    <3>2. CASE x \in scheduled
      <4>1. x[2] \in Int /\ x[2] < nextRef
        BY <1>1, <3>1, <3>2 DEF RefOrder
      <4> QED BY <1>1, <3>1, <4>1
    <3>3. CASE x = <<o, nextRef>> /\ nextRef' = nextRef + 1
      BY <1>1, <3>3
    <3> QED BY <1>3, <3>2, <3>3 DEF ChangeStep
  <2>6. ASSUME NEW x \in scheduled', x[1] \in DOMAIN outputs', outputs'[x[1]].ref = x[2]
        PROVE  ~outputs'[x[1]].started
    <3>1. CASE x[1] = o
      BY <1>3, <2>6, <3>1 DEF ChangeStep
    <3>2. CASE x[1] # o
      <4>1. x \in scheduled \/ x = <<o, nextRef>>
        BY <1>3, <2>6 DEF ChangeStep
      <4>2. x \in scheduled
        BY <3>2, <4>1
      <4> QED BY <1>1, <2>1, <2>6, <3>2, <4>2 DEF RefOrder
    <3> QED BY <3>1, <3>2
  <2> QED BY <2>4, <2>5, <2>6 DEF RefOrder
<1> QED BY <1>2, <1>3, StepCases

LEMMA PhaseStep ==
  ASSUME IInv, [Next]_vars
  PROVE  PhaseOrder'
<1>1. /\ PhaseOrder /\ DOMAIN pc = Sides /\ DOMAIN finished = Sides /\ DOMAIN senders = Sides
      /\ DOMAIN leaving = Sides
  BY DEF IInv, TypeOK
<1>2. ASSUME UNCHANGED <<pc, senders, finished, leaving>> PROVE PhaseOrder'
  BY <1>1, <1>2 DEF PhaseOrder
<1>3. ASSUME NEW s \in Sides, ThreadStep(s) PROVE PhaseOrder'
  <2>1. CASE Receive(s) \/ \E i \in InputIds : HandleEos(s, i)
    BY <1>1, <2>1 DEF Receive, HandleEos, PhaseOrder
  <2>2. CASE Statuses(s)
    BY <1>1, <2>2 DEF Statuses, PhaseOrder
  <2>3. CASE \E o \in OutputIds : SendEos(s, o) \/ Disconnect(s, o) \/ SendData(s, o)
    BY <1>1, <2>3 DEF SendEos, Disconnect, SendData, PhaseOrder
  <2>4. CASE Render(s)
    BY <1>1, <2>4 DEF Render, PhaseOrder
  <2>5. CASE Done(s)
    BY <1>1, <2>5 DEF Done, PhaseOrder, Empty
  <2> QED BY <1>3, <2>1, <2>2, <2>3, <2>4, <2>5 DEF ThreadStep
<1>4. ASSUME \/ \E i \in InputIds : RegisterInput(i) \/ UnregisterInput(i)
             \/ \E o \in OutputIds : \/ RegisterOutput(o) \/ UnregisterOutput(o) \/ UpdateOutput(o)
                                     \/ \E r \in Refs : RunStart(o, r)
             \/ \E r \in Refs, s \in Sides : DropReceiver(r, s)
             \/ \E s \in Sides : EmitBatch(s)
             \/ UNCHANGED vars
      PROVE  UNCHANGED thread
  BY <1>4 DEF RegisterInput, UnregisterInput, RegisterOutput, UnregisterOutput, UpdateOutput,
              RunStart, DropReceiver, EmitBatch, vars
<1>5. ASSUME UNCHANGED thread PROVE UNCHANGED <<pc, senders, finished, leaving>>
  BY <1>5 DEF thread
<1> QED BY <1>2, <1>3, <1>4, <1>5 DEF Next

LEMMA GhostStep ==
  ASSUME IInv, [Next]_vars
  PROVE  NoGhosts'
<1>1. NoGhosts /\ sink \in [Sides -> SUBSET OutputIds]
  BY DEF IInv, TypeOK
<1>2. ASSUME NEW o \in OutputIds, ChangeStep(o) PROVE NoGhosts'
  <2>1. ASSUME NEW s \in Sides, NEW p \in sink'[s] PROVE HasCond(p, s)'
    <3>1. CASE p = o
      BY <1>2, <2>1, <3>1 DEF ChangeStep, Changes
    <3>2. CASE p # o
      <4>1. p \in sink[s]
        BY <1>2, <2>1, <3>2 DEF ChangeStep, Changes
      <4>2. HasCond(p, s) /\ p \in OutputIds
        BY <1>1, <4>1 DEF NoGhosts
      <4>3. p \in DOMAIN outputs' /\ outputs'[p] = outputs[p]
        BY <1>2, <3>2, <4>2 DEF ChangeStep, Changes, HasCond
      <4> QED BY <4>2, <4>3 DEF HasCond
    <3> QED BY <3>1, <3>2
  <2> QED BY <2>1 DEF NoGhosts
<1>3. ASSUME ToldStep, \A s \in Sides : sink'[s] \subseteq sink[s] \cup {o \in OutputIds : HasCond(o, s)}
      PROVE  NoGhosts'
  <2>1. \A s \in Sides : \A o \in sink'[s] : HasCond(o, s)
    BY <1>1, <1>3 DEF NoGhosts
  <2>2. \A s \in Sides : \A o : HasCond(o, s) => HasCond(o, s)'
    BY <1>3 DEF ToldStep, Told, SameShape, HasCond
  <2> QED BY <2>1, <2>2 DEF NoGhosts
<1>4. ASSUME ToldStep
      PROVE  \/ \A s \in Sides : sink'[s] \subseteq sink[s] \cup {o \in OutputIds : HasCond(o, s)}
             \/ \E o \in OutputIds : ChangeStep(o)
  <2>1. ASSUME NEW o \in OutputIds, UpdateOutput(o)
        PROVE  \A s \in Sides : sink'[s] \subseteq sink[s] \cup {p \in OutputIds : HasCond(p, s)}
    BY <1>1, <2>1 DEF UpdateOutput
  <2>2. ASSUME NEW s \in Sides, NEW o \in OutputIds, SendData(s, o) \/ Disconnect(s, o)
        PROVE  \A t \in Sides : sink'[t] \subseteq sink[t]
    BY <1>1, <2>2 DEF SendData, Disconnect
  <2>3. ASSUME NEW o \in OutputIds, NEW r \in Refs, RunStart(o, r)
        PROVE  sink' = sink \/ ChangeStep(o)
    <3>1. CASE o \in DOMAIN outputs /\ outputs[o].ref = r
      BY <2>3, <3>1, OutputChangeStep
    <3>2. CASE ~(o \in DOMAIN outputs /\ outputs[o].ref = r)
      BY <2>3, <3>2 DEF RunStart
    <3> QED BY <3>1, <3>2
  <2>4. ASSUME \/ \E i \in InputIds : RegisterInput(i) \/ UnregisterInput(i)
               \/ \E r \in Refs, s \in Sides : DropReceiver(r, s)
               \/ \E s \in Sides : EmitBatch(s)
               \/ UNCHANGED vars
        PROVE  sink' = sink
    BY <2>4 DEF RegisterInput, UnregisterInput, DropReceiver, EmitBatch, vars
  <2>5. ASSUME NEW s \in Sides, \/ Receive(s) \/ (\E i \in InputIds : HandleEos(s, i)) \/ Statuses(s)
                                \/ Render(s) \/ Done(s) \/ \E o \in OutputIds : SendEos(s, o)
        PROVE  sink' = sink
    BY <2>5 DEF Receive, HandleEos, Statuses, Render, Done, SendEos
  <2>6. ASSUME NEW o \in OutputIds, RegisterOutput(o) \/ UnregisterOutput(o) PROVE ChangeStep(o)
    BY <2>6, OutputChangeStep
  <2> QED BY <2>1, <2>2, <2>3, <2>4, <2>5, <2>6 DEF Next, ThreadStep
<1> QED BY <1>2, <1>3, <1>4, StepCases

\* Where an output changes its end condition at all.
LEMMA ConditionSteps ==
  ASSUME IInv, [Next]_vars
  PROVE  \/ \E i \in InputIds : RegisterInput(i) \/ UnregisterInput(i) \/ \E s \in Sides : HandleEos(s, i)
         \/ \E s \in Sides : Statuses(s)
         \/ \E o \in OutputIds : ChangeStep(o)
         \/ UNCHANGED <<inputs, outputs, nextRef>>
<1>1. ASSUME NEW o \in OutputIds, NEW r \in Refs, RunStart(o, r)
      PROVE  UNCHANGED <<inputs, outputs, nextRef>> \/ ChangeStep(o)
  <2>1. CASE o \in DOMAIN outputs /\ outputs[o].ref = r
    BY <1>1, <2>1, OutputChangeStep
  <2>2. CASE ~(o \in DOMAIN outputs /\ outputs[o].ref = r)
    BY <1>1, <2>2 DEF RunStart
  <2> QED BY <2>1, <2>2
<1>2. ASSUME \/ \E r \in Refs, s \in Sides : DropReceiver(r, s)
             \/ \E s \in Sides : \/ EmitBatch(s) \/ Receive(s) \/ Render(s) \/ Done(s)
                                 \/ \E o \in OutputIds : SendEos(s, o) \/ Disconnect(s, o) \/ SendData(s, o)
             \/ \E o \in OutputIds : UpdateOutput(o)
             \/ UNCHANGED vars
      PROVE  UNCHANGED <<inputs, outputs, nextRef>>
  <2>1. CASE \E r \in Refs, s \in Sides : DropReceiver(r, s)
    BY <2>1 DEF DropReceiver, api
  <2>2. CASE \E s \in Sides : EmitBatch(s) \/ Receive(s) \/ Render(s) \/ Done(s)
    BY <2>2 DEF EmitBatch, Receive, Render, Done, api
  <2>3. CASE \E s \in Sides, o \in OutputIds : SendEos(s, o) \/ Disconnect(s, o) \/ SendData(s, o)
    BY <2>3 DEF SendEos, Disconnect, SendData, api
  <2>4. CASE \E o \in OutputIds : UpdateOutput(o)
    BY <2>4 DEF UpdateOutput, api
  <2>5. CASE UNCHANGED vars
    BY <2>5 DEF vars, api
  <2> QED BY <1>2, <2>1, <2>2, <2>3, <2>4, <2>5
<1>3. ASSUME NEW o \in OutputIds, RegisterOutput(o) \/ UnregisterOutput(o) PROVE ChangeStep(o)
  BY <1>3, OutputChangeStep
<1> QED BY <1>1, <1>2, <1>3 DEF Next, ThreadStep

\* As long as it has not ended, a condition counts the changes.
LEMMA OnEventConnected ==
  ASSUME NEW c \in Cond, NEW change, change.added \subseteq InputIds, ~OnEvent(c, change).didEnd
  PROVE  /\ ~c.didEnd
         /\ OnEvent(c, change).connected = (c.connected \cup change.added) \ change.removed
<1>1. ~c.didEnd
  BY OnEventType
<1> QED BY <1>1 DEF OnEvent, Cond

LEMMA TellingKeepsKnowledge ==
  ASSUME IInv, nextRef' = nextRef,
         NEW sides, NEW change, change.added \subseteq InputIds, TellOutputs(sides, change),
         \A s \in Sides :
           Connected(s)' = IF s \in sides THEN (Connected(s) \cup change.added) \ change.removed
                           ELSE Connected(s)
  PROVE  KnowsItsInputs'
<1> SUFFICES ASSUME NEW o \in OutputIds, NEW s \in Sides, HasCond(o, s)', ~outputs'[o].cond[s].didEnd
             PROVE  outputs'[o].cond[s].connected = Connected(s)'
  BY DEF KnowsItsInputs
<1> DEFINE c == outputs[o].cond[s]
<1>1. HasCond(o, s) /\ outputs[o].started /\ o \in DOMAIN outputs /\ s \in DOMAIN outputs[o].cond
  BY TellOutputsShape DEF SameShape, HasCond, IInv
<1>2. outputs'[o].cond[s] = IF s \in sides THEN OnEvent(c, change) ELSE c
  BY <1>1, TellOutputsShape DEF IInv
<1>3. c \in Cond
  BY <1>1 DEF IInv, TypeOK, OutputOK, IsHashMap
<1>4. ~c.didEnd => c.connected = Connected(s)
  BY <1>1 DEF IInv, KnowsItsInputs
<1> HIDE DEF c
<1>5. CASE s \in sides
  <2>1. outputs'[o].cond[s] = OnEvent(c, change) /\ ~OnEvent(c, change).didEnd
    BY <1>2, <1>5
  <2>2. ~c.didEnd /\ OnEvent(c, change).connected = (c.connected \cup change.added) \ change.removed
    BY <1>3, <2>1, OnEventConnected
  <2> QED BY <1>4, <1>5, <2>1, <2>2
<1>6. CASE s \notin sides
  BY <1>2, <1>4, <1>6
<1> QED BY <1>5, <1>6

LEMMA KnowledgeStep ==
  ASSUME IInv, [Next]_vars
  PROVE  KnowsItsInputs'
<1>1. /\ KnowsItsInputs /\ DOMAIN inputs \subseteq InputIds
      /\ \A i \in DOMAIN inputs : inputs[i] \in [Sides -> BOOLEAN]
  BY DEF IInv, TypeOK, IsHashMap
<1>2. ASSUME NEW i \in InputIds, RegisterInput(i) PROVE KnowsItsInputs'
  <2>1. \A s \in Sides : Connected(s)' = Connected(s) \cup {i}
    <3>1. inputs' = Put(inputs, i, [s \in Sides |-> FALSE]) /\ i \notin DOMAIN inputs
      BY <1>2 DEF RegisterInput
    <3> QED BY <3>1 DEF Connected, Put
  <2> QED BY <1>2, <2>1, TellingKeepsKnowledge DEF RegisterInput, AddInput
<1>3. ASSUME NEW i \in InputIds, UnregisterInput(i) PROVE KnowsItsInputs'
  <2>1. \A s \in Sides : Connected(s)' = Connected(s) \ {i}
    BY <1>3 DEF UnregisterInput, Connected, Without
  <2> QED BY <1>3, <2>1, TellingKeepsKnowledge DEF UnregisterInput, RemoveInput
<1>4. ASSUME NEW i \in InputIds, NEW s \in Sides, HandleEos(s, i) PROVE KnowsItsInputs'
  <2>1. \A t \in Sides : Connected(t)' = IF t = s THEN Connected(t) \ {i} ELSE Connected(t)
    BY <1>1, <1>4 DEF HandleEos, Connected
  <2> QED BY <1>4, <2>1, TellingKeepsKnowledge DEF HandleEos, RemoveInput
<1>5. ASSUME NEW s \in Sides, Statuses(s) PROVE KnowsItsInputs'
  <2> SUFFICES ASSUME NEW o \in OutputIds, NEW t \in Sides, HasCond(o, t)', ~outputs'[o].cond[t].didEnd
               PROVE  outputs'[o].cond[t].connected = Connected(t)'
    BY DEF KnowsItsInputs
  <2> DEFINE c == outputs[o].cond[t]
  <2>1. HasCond(o, t) /\ outputs[o].started /\ o \in DOMAIN outputs /\ t \in DOMAIN outputs[o].cond
    BY <1>5, StatusesShape DEF SameShape, HasCond, IInv
  <2>2. outputs'[o].cond[t] = IF t = s THEN EosStatus(c) ELSE c
    BY <1>5, <2>1, StatusesShape DEF IInv
  <2>3. c \in Cond
    BY <2>1 DEF IInv, TypeOK, OutputOK, IsHashMap
  <2>4. ~c.didEnd => c.connected = Connected(t)
    BY <1>1, <2>1 DEF KnowsItsInputs
  <2>5. Connected(t)' = Connected(t)
    BY <1>5 DEF Statuses, Connected
  <2> HIDE DEF c
  <2>6. CASE t = s
    <3>1. OnStatus(c) \in Cond
      BY <2>3, OnEventType DEF OnStatus, NoChanges
    <3>2. ~OnStatus(c).didEnd /\ outputs'[o].cond[t].connected = OnStatus(c).connected
      BY <2>2, <2>6, <3>1 DEF EosStatus, Cond
    <3>3. ~c.didEnd /\ OnStatus(c).connected = c.connected
      <4>1. NoChanges.added = {} /\ NoChanges.removed = {}
        BY DEF NoChanges
      <4>2. ~c.didEnd /\ OnEvent(c, NoChanges).connected = (c.connected \cup NoChanges.added) \ NoChanges.removed
        BY <2>3, <3>2, <4>1, OnEventConnected DEF OnStatus
      <4> QED BY <4>1, <4>2 DEF OnStatus
    <3> QED BY <2>4, <2>5, <3>2, <3>3
  <2>7. CASE t # s
    BY <2>2, <2>4, <2>5, <2>7
  <2> QED BY <2>6, <2>7
<1>6. ASSUME NEW o \in OutputIds, ChangeStep(o) PROVE KnowsItsInputs'
  <2>1. \A s \in Sides : Connected(s)' = Connected(s)
    BY <1>6 DEF ChangeStep, Connected
  <2>2. ASSUME NEW p \in OutputIds, NEW s \in Sides, HasCond(p, s)', ~outputs'[p].cond[s].didEnd
        PROVE  outputs'[p].cond[s].connected = Connected(s)
    <3>1. CASE p = o
      BY <1>6, <2>2, <3>1 DEF ChangeStep, Changes, HasCond
    <3>2. CASE p # o
      <4>1. HasCond(p, s) /\ outputs'[p] = outputs[p]
        BY <1>6, <2>2, <3>2 DEF ChangeStep, Changes, HasCond
      <4> QED BY <1>1, <2>2, <4>1 DEF KnowsItsInputs
    <3> QED BY <3>1, <3>2
  <2> QED BY <2>1, <2>2 DEF KnowsItsInputs
<1>7. ASSUME UNCHANGED <<inputs, outputs, nextRef>> PROVE KnowsItsInputs'
  BY <1>1, <1>7 DEF KnowsItsInputs, HasCond, Connected
<1> QED BY <1>2, <1>3, <1>4, <1>5, <1>6, <1>7, ConditionSteps

\* Only Statuses marks outputs; a change of an output leaves it unmarked.
MarksStay ==
  /\ DOMAIN outputs' = DOMAIN outputs /\ nextRef' = nextRef
  /\ \A o \in DOMAIN outputs :
       /\ outputs'[o].ref = outputs[o].ref /\ outputs'[o].started = outputs[o].started
       /\ DOMAIN outputs'[o].cond = DOMAIN outputs[o].cond
       /\ \A s \in DOMAIN outputs[o].cond :
            outputs'[o].cond[s].didSendEos = outputs[o].cond[s].didSendEos

LEMMA MarkSteps ==
  ASSUME IInv, [Next]_vars
  PROVE  \/ \E s \in Sides : Statuses(s)
         \/ \E o \in OutputIds : ChangeStep(o)
         \/ MarksStay
<1>1. ASSUME NEW i \in InputIds, RegisterInput(i) PROVE MarksStay
  BY <1>1, TellOutputsShape DEF RegisterInput, AddInput, IInv, MarksStay, SameShape
<1>2. ASSUME NEW i \in InputIds, UnregisterInput(i) PROVE MarksStay
  BY <1>2, TellOutputsShape DEF UnregisterInput, RemoveInput, IInv, MarksStay, SameShape
<1>3. ASSUME NEW i \in InputIds, NEW s \in Sides, HandleEos(s, i) PROVE MarksStay
  BY <1>3, TellOutputsShape DEF HandleEos, RemoveInput, IInv, MarksStay, SameShape
<1>4. ASSUME UNCHANGED <<inputs, outputs, nextRef>> PROVE MarksStay
  BY <1>4 DEF MarksStay
<1> QED BY <1>1, <1>2, <1>3, <1>4, ConditionSteps

\* What Statuses does to an output with a condition on side s.
LEMMA StatusMarks ==
  ASSUME IInv, NEW s \in Sides, Statuses(s), NEW o \in DOMAIN outputs, HasCond(o, s)
  PROVE  LET c == outputs[o].cond[s] IN
         /\ HasCond(o, s)' /\ outputs'[o].ref = outputs[o].ref
         /\ outputs'[o].cond[s].didSendEos <=> o \in Ended(s)
         /\ c.didSendEos => o \in Ended(s)
         /\ o \in SendsEos(s) <=> o \in Ended(s) /\ ~c.didSendEos
         /\ o \in Active(s) <=> o \notin Ended(s)
<1> DEFINE c == outputs[o].cond[s]
<1>1. c \in Cond /\ o \in DOMAIN outputs /\ outputs[o].started /\ s \in DOMAIN outputs[o].cond
  BY DEF IInv, TypeOK, OutputOK, IsHashMap, HasCond
<1>2. HasCond(o, s)' /\ outputs'[o].ref = outputs[o].ref /\ outputs'[o].cond[s] = EosStatus(c)
  BY <1>1, StatusesShape DEF IInv, SameShape, HasCond
<1>3. c.didSendEos => c.didEnd
  BY <1>1 DEF IInv, CondOrder
<1>4. o \in Ended(s) <=> OnStatus(c).didEnd
  BY <1>1 DEF Ended
<1>5. o \in SendsEos(s) <=> o \in Ended(s) /\ ~c.didSendEos
  BY <1>1 DEF SendsEos
<1>6. o \in Active(s) <=> o \notin Ended(s)
  BY <1>1 DEF Active
<1> HIDE DEF c
<1>7. OnStatus(c) \in Cond /\ (c.didEnd => OnStatus(c).didEnd)
  BY <1>1, OnEventType DEF OnStatus, NoChanges
<1>8. EosStatus(c).didSendEos = OnStatus(c).didEnd
  BY <1>7 DEF EosStatus, Cond
<1> QED BY <1>2, <1>3, <1>4, <1>5, <1>6, <1>7, <1>8 DEF c

LEMMA DisconnectingStep ==
  ASSUME IInv, [Next]_vars
  PROVE  Disconnecting'
<1>1. /\ Disconnecting /\ sink \in [Sides -> SUBSET OutputIds] /\ leaving \in [Sides -> SUBSET OutputIds]
      /\ DOMAIN finished = Sides /\ DOMAIN outputs \subseteq OutputIds
      /\ \A o \in DOMAIN outputs : DOMAIN outputs[o].cond \subseteq Sides
  BY DEF IInv, TypeOK, OutputOK, IsHashMap
<1>2. ASSUME NEW o \in OutputIds, ChangeStep(o) PROVE Disconnecting'
  <2> SUFFICES ASSUME NEW p \in DOMAIN outputs', NEW s \in DOMAIN outputs'[p].cond,
                      outputs'[p].cond[s].didSendEos
               PROVE  p \notin sink'[s] \/ p \in DOMAIN finished'[s] \cup leaving'[s]
    BY DEF Disconnecting
  <2>1. p \in OutputIds /\ p # o /\ p \in DOMAIN outputs /\ outputs'[p] = outputs[p]
    BY <1>2 DEF ChangeStep, Changes
  <2>2. s \in Sides /\ (p \in sink'[s] => p \in sink[s])
    BY <1>1, <1>2, <2>1 DEF ChangeStep, Changes
  <2>3. UNCHANGED <<finished, leaving>>
    BY <1>2 DEF ChangeStep, thread
  <2> QED BY <1>1, <2>1, <2>2, <2>3 DEF Disconnecting
<1>3. ASSUME MarksStay,
             \A s \in Sides : \A o \in OutputIds :
               /\ o \in sink'[s] => o \in sink[s] \/ (HasCond(o, s) /\ ~outputs[o].cond[s].didEnd)
               /\ o \in DOMAIN finished[s] \cup leaving[s]
                    => o \notin sink'[s] \/ o \in DOMAIN finished'[s] \cup leaving'[s]
      PROVE  Disconnecting'
  <2> SUFFICES ASSUME NEW o \in DOMAIN outputs', NEW s \in DOMAIN outputs'[o].cond,
                      outputs'[o].cond[s].didSendEos
               PROVE  o \notin sink'[s] \/ o \in DOMAIN finished'[s] \cup leaving'[s]
    BY DEF Disconnecting
  <2>1. o \in DOMAIN outputs /\ o \in OutputIds /\ s \in Sides /\ s \in DOMAIN outputs[o].cond
        /\ outputs[o].cond[s].didSendEos
    BY <1>1, <1>3 DEF MarksStay
  <2>2. outputs[o].cond[s].didEnd
    BY <2>1 DEF IInv, CondOrder
  <2>3. o \notin sink[s] \/ o \in DOMAIN finished[s] \cup leaving[s]
    BY <1>1, <2>1 DEF Disconnecting
  <2> QED BY <1>3, <2>1, <2>2, <2>3
<1>4. ASSUME NEW s \in Sides, Statuses(s) PROVE Disconnecting'
  <2> SUFFICES ASSUME NEW o \in DOMAIN outputs', NEW t \in DOMAIN outputs'[o].cond,
                      outputs'[o].cond[t].didSendEos
               PROVE  o \notin sink'[t] \/ o \in DOMAIN finished'[t] \cup leaving'[t]
    BY DEF Disconnecting
  <2>1. o \in DOMAIN outputs /\ t \in DOMAIN outputs[o].cond /\ t \in Sides
        /\ outputs'[o].cond[t] = IF outputs[o].started /\ t = s THEN EosStatus(outputs[o].cond[t])
                                 ELSE outputs[o].cond[t]
    BY <1>1, <1>4, StatusesShape DEF IInv, SameShape
  <2>2. sink' = sink /\ leaving' = leaving /\ DOMAIN finished'[s] = SendsEos(s)
        /\ \A u \in Sides \ {s} : finished'[u] = finished[u]
    BY <1>1, <1>4 DEF Statuses
  <2>3. CASE outputs[o].cond[t].didSendEos /\ t = s
    <3>1. DOMAIN finished[s] = {} /\ leaving[s] = {}
      BY <1>4 DEF Statuses, IInv, PhaseOrder
    <3> QED BY <1>1, <2>1, <2>2, <2>3, <3>1 DEF Disconnecting
  <2>4. CASE ~outputs[o].cond[t].didSendEos
    <3>1. t = s /\ HasCond(o, s)
      BY <2>1, <2>4 DEF HasCond
    <3> QED BY <1>4, <2>1, <2>2, <2>4, <3>1, StatusMarks
  <2>5. CASE outputs[o].cond[t].didSendEos /\ t # s
    BY <1>1, <2>1, <2>2, <2>5 DEF Disconnecting
  <2> QED BY <2>3, <2>4, <2>5
<1>5. \/ \E o \in OutputIds : ChangeStep(o)
      \/ \E s \in Sides : Statuses(s)
      \/ \A s \in Sides : \A o \in OutputIds :
               /\ o \in sink'[s] => o \in sink[s] \/ (HasCond(o, s) /\ ~outputs[o].cond[s].didEnd)
               /\ o \in DOMAIN finished[s] \cup leaving[s]
                    => o \notin sink'[s] \/ o \in DOMAIN finished'[s] \cup leaving'[s]
  <2> DEFINE Keeps == \A s \in Sides : \A o \in OutputIds :
               /\ o \in sink'[s] => o \in sink[s] \/ (HasCond(o, s) /\ ~outputs[o].cond[s].didEnd)
               /\ o \in DOMAIN finished[s] \cup leaving[s]
                    => o \notin sink'[s] \/ o \in DOMAIN finished'[s] \cup leaving'[s]
  <2>1. ASSUME UNCHANGED <<sink, finished, leaving>> PROVE Keeps
    BY <2>1
  <2>2. ASSUME NEW o \in OutputIds, UpdateOutput(o) PROVE Keeps
    BY <1>1, <2>2 DEF UpdateOutput, thread
  <2>3. ASSUME NEW s \in Sides, NEW o \in OutputIds, SendEos(s, o) PROVE Keeps
    BY <1>1, <2>3 DEF SendEos, Without
  <2>4. ASSUME NEW s \in Sides, NEW o \in OutputIds, Disconnect(s, o) PROVE Keeps
    BY <1>1, <2>4 DEF Disconnect
  <2>5. ASSUME NEW s \in Sides, NEW o \in OutputIds, SendData(s, o) PROVE Keeps
    BY <1>1, <2>5 DEF SendData
  <2> HIDE DEF Keeps
  <2>6. ASSUME NEW o \in OutputIds, NEW r \in Refs, RunStart(o, r) PROVE Keeps \/ ChangeStep(o)
    <3>1. CASE o \in DOMAIN outputs /\ outputs[o].ref = r
      BY <2>6, <3>1, OutputChangeStep
    <3>2. CASE ~(o \in DOMAIN outputs /\ outputs[o].ref = r)
      BY <2>1, <2>6, <3>2 DEF RunStart, thread
    <3> QED BY <3>1, <3>2
  <2>7. ASSUME \/ \E i \in InputIds : RegisterInput(i) \/ UnregisterInput(i)
               \/ \E r \in Refs, s \in Sides : DropReceiver(r, s)
               \/ \E s \in Sides : \/ EmitBatch(s) \/ Receive(s) \/ Render(s) \/ Done(s)
                                   \/ \E i \in InputIds : HandleEos(s, i)
               \/ UNCHANGED vars
        PROVE  UNCHANGED <<sink, finished, leaving>>
    BY <2>7 DEF RegisterInput, UnregisterInput, DropReceiver, EmitBatch, Receive, Render, Done,
                HandleEos, vars, thread
  <2>8. ASSUME NEW o \in OutputIds, RegisterOutput(o) \/ UnregisterOutput(o) PROVE ChangeStep(o)
    BY <2>8, OutputChangeStep
  <2>9. Keeps \/ (\E o \in OutputIds : ChangeStep(o)) \/ \E s \in Sides : Statuses(s)
    BY <2>1, <2>2, <2>3, <2>4, <2>5, <2>6, <2>7, <2>8 DEF Next, ThreadStep
  <2> QED BY <2>9 DEF Keeps
<1> QED BY <1>2, <1>3, <1>4, <1>5, MarkSteps

LEMMA EosStep ==
  ASSUME IInv, [Next]_vars
  PROVE  EosOrder'
<1>1. /\ EosOrder /\ nextRef \in Int /\ DOMAIN finished = Sides /\ DOMAIN senders = Sides
      /\ \A s \in Sides : \A o \in DOMAIN finished[s] : finished[s][o] \in Refs
      /\ \A s \in Sides : \A o \in DOMAIN senders[s] : senders[s][o] \in Refs
      /\ \A r \in Refs, s \in Sides : got[r][s] # "afterEos"
      /\ Refs \subseteq Int
  BY ConstAssumption DEF IInv, TypeOK, IsHashMap, NothingAfterEos, Refs
<1>2. \A o \in DOMAIN outputs : outputs[o].ref \in Refs /\ outputs[o].ref < nextRef
  BY <1>1, ConstAssumption DEF IInv, TypeOK, OutputOK, Refs
<1>3. ASSUME NEW o \in OutputIds, ChangeStep(o) PROVE EosOrder'
  <2>1. UNCHANGED <<finished, senders, got>> /\ nextRef' \in Int /\ nextRef <= nextRef'
    BY <1>1, <1>3 DEF ChangeStep, thread
  <2>2. \A p \in DOMAIN outputs' \ {o} : p \in DOMAIN outputs /\ outputs'[p] = outputs[p]
    BY <1>3 DEF ChangeStep, Changes
  <2>3. \A p \in DOMAIN outputs' \ {o} : \A s \in Sides : Marked(p, s) => Marked(p, s)'
    BY <2>2 DEF Marked, HasCond
  <2>4. ASSUME o \in DOMAIN outputs', NEW s \in Sides
        PROVE  /\ \A p \in DOMAIN finished[s] : finished[s][p] # outputs'[o].ref
               /\ got[outputs'[o].ref][s] # "eos"
    <3>1. CASE o \in DOMAIN outputs /\ outputs'[o].ref = outputs[o].ref /\ ~outputs[o].started
      <4>1. ~Marked(o, s)
        BY <3>1 DEF Marked, HasCond
      <4> QED BY <1>1, <3>1, <4>1 DEF EosOrder
    <3>2. CASE outputs'[o].ref = nextRef /\ nextRef' = nextRef + 1
      <4>1. nextRef \in Refs
        BY <1>1, <1>3, <3>2, ConstAssumption DEF ChangeStep, IInv, TypeOK, Refs
      <4>2. \A p \in DOMAIN finished[s] : finished[s][p] < nextRef
        BY <1>1 DEF EosOrder
      <4>3. got[nextRef][s] = "nothing"
        BY <1>1, <4>1 DEF EosOrder
      <4> QED BY <1>1, <3>2, <4>2, <4>3
    <3> QED BY <1>3, <2>4, <3>1, <3>2 DEF ChangeStep
  <2> SUFFICES ASSUME NEW s \in Sides
               PROVE  /\ \A p \in DOMAIN finished[s] :
                           /\ finished[s][p] < nextRef'
                           /\ \A q \in DOMAIN outputs' : outputs'[q].ref = finished[s][p] => Marked(q, s)'
                      /\ \A p \in DOMAIN senders[s] : senders[s][p] < nextRef'
                      /\ \A p \in DOMAIN outputs' : got[outputs'[p].ref][s] = "eos" => Marked(p, s)'
                      /\ \A r \in Refs : r >= nextRef' => got[r][s] = "nothing"
    BY <1>1, <2>1 DEF EosOrder
  <2>5. ASSUME NEW p \in DOMAIN finished[s]
        PROVE  finished[s][p] < nextRef'
    <3>1. finished[s][p] < nextRef /\ finished[s][p] \in Int
      BY <1>1 DEF EosOrder
    <3> QED BY <1>1, <2>1, <3>1
  <2>6. ASSUME NEW p \in DOMAIN senders[s]
        PROVE  senders[s][p] < nextRef'
    <3>1. senders[s][p] < nextRef /\ senders[s][p] \in Int
      BY <1>1 DEF EosOrder
    <3> QED BY <1>1, <2>1, <3>1
  <2>7. ASSUME NEW p \in DOMAIN finished[s], NEW q \in DOMAIN outputs', outputs'[q].ref = finished[s][p]
        PROVE  Marked(q, s)'
    <3>1. q # o
      BY <2>4, <2>7
    <3>2. q \in DOMAIN outputs /\ outputs[q].ref = finished[s][p]
      BY <2>2, <2>7, <3>1
    <3>3. Marked(q, s)
      BY <1>1, <3>2 DEF EosOrder
    <3> QED BY <2>3, <3>1, <3>3
  <2>8. ASSUME NEW p \in DOMAIN outputs', got[outputs'[p].ref][s] = "eos"
        PROVE  Marked(p, s)'
    <3>1. p # o
      BY <2>4, <2>8
    <3>2. p \in DOMAIN outputs /\ outputs'[p].ref = outputs[p].ref
      BY <2>2, <3>1
    <3>3. Marked(p, s)
      BY <1>1, <2>8, <3>2 DEF EosOrder
    <3> QED BY <2>3, <3>1, <3>3
  <2>9. ASSUME NEW r \in Refs, r >= nextRef' PROVE got[r][s] = "nothing"
    <3>1. r >= nextRef
      BY <1>1, <2>1, <2>9
    <3> QED BY <1>1, <3>1 DEF EosOrder
  <2> QED BY <2>5, <2>6, <2>7, <2>8, <2>9
<1>4. ASSUME MarksStay PROVE \A p, s : /\ p \in DOMAIN outputs' <=> p \in DOMAIN outputs
                                       /\ p \in DOMAIN outputs => outputs'[p].ref = outputs[p].ref
                                       /\ Marked(p, s) => Marked(p, s)'
  BY <1>4 DEF MarksStay, Marked, HasCond
<1>5. ASSUME MarksStay, UNCHANGED <<finished, senders, got>> PROVE EosOrder'
  <2>1. nextRef' = nextRef
    BY <1>5 DEF MarksStay
  <2> SUFFICES ASSUME NEW s \in Sides
               PROVE  /\ \A o \in DOMAIN finished[s] : \A p \in DOMAIN outputs' :
                           outputs'[p].ref = finished[s][o] => Marked(p, s)'
                      /\ \A o \in DOMAIN outputs' : got[outputs'[o].ref][s] = "eos" => Marked(o, s)'
    BY <1>1, <1>5, <2>1 DEF EosOrder
  <2> QED BY <1>1, <1>4, <1>5 DEF EosOrder
<1>6. ASSUME NEW s \in Sides, NEW o \in OutputIds, SendEos(s, o) PROVE EosOrder'
  <2> DEFINE r == finished[s][o]
  <2>1. /\ o \in DOMAIN finished[s] /\ r \in Refs /\ got' = Sent(r, s, "eos")
        /\ finished' = [finished EXCEPT ![s] = Without(finished[s], o)]
        /\ UNCHANGED <<senders, outputs, nextRef>>
    BY <1>1, <1>6 DEF SendEos, api
  <2>2. /\ \A q \in Refs, t \in Sides : q # r \/ t # s => got'[q][t] = got[q][t]
        /\ got'[r][s] \in {got[r][s], IF got[r][s] = "eos" THEN "afterEos" ELSE "eos"}
    BY <2>1, SentFacts DEF IInv, Got
  <2>3. /\ \A t \in Sides \ {s} : finished'[t] = finished[t]
        /\ DOMAIN finished'[s] = DOMAIN finished[s] \ {o}
        /\ \A p \in DOMAIN finished[s] \ {o} : finished'[s][p] = finished[s][p]
    BY <1>1, <2>1 DEF Without
  <2>4. /\ r < nextRef
        /\ \A p \in DOMAIN finished[s] \ {o} : finished[s][p] # r
        /\ \A p \in DOMAIN senders[s] : senders[s][p] # r
        /\ \A p \in DOMAIN outputs : outputs[p].ref = r => Marked(p, s)
    BY <1>1, <2>1 DEF EosOrder
  <2>5. \A p, t : Marked(p, t) => Marked(p, t)'
    BY <2>1 DEF Marked, HasCond
  <2> HIDE DEF r
  <2>6. \A q \in Refs : q >= nextRef => q # r
    BY <1>1, <2>1, <2>4
  <2> SUFFICES ASSUME NEW t \in Sides
               PROVE  /\ \A p \in DOMAIN finished'[t] :
                           /\ finished'[t][p] < nextRef /\ got'[finished'[t][p]][t] # "eos"
                           /\ \A q \in DOMAIN finished'[t] : finished'[t][q] = finished'[t][p] => q = p
                           /\ \A q \in DOMAIN senders[t] : senders[t][q] # finished'[t][p]
                           /\ \A q \in DOMAIN outputs : outputs[q].ref = finished'[t][p] => Marked(q, t)'
                      /\ \A p \in DOMAIN senders[t] :
                           senders[t][p] < nextRef /\ got'[senders[t][p]][t] # "eos"
                      /\ \A p \in DOMAIN outputs : got'[outputs[p].ref][t] = "eos" => Marked(p, t)'
                      /\ \A q \in Refs : q >= nextRef => got'[q][t] = "nothing"
    BY <2>1 DEF EosOrder
  <2>7. \A p \in DOMAIN finished'[t] : /\ p \in DOMAIN finished[t]
                                       /\ finished'[t][p] = finished[t][p]
                                       /\ t # s \/ finished[t][p] # r
    BY <2>3, <2>4
  <2>8. \A q \in Refs : t # s \/ q # r => got'[q][t] = got[q][t]
    BY <2>2
  <2>9. ASSUME NEW p \in DOMAIN finished'[t]
        PROVE  /\ finished'[t][p] < nextRef /\ got'[finished'[t][p]][t] # "eos"
               /\ \A q \in DOMAIN finished'[t] : finished'[t][q] = finished'[t][p] => q = p
               /\ \A q \in DOMAIN senders[t] : senders[t][q] # finished'[t][p]
               /\ \A q \in DOMAIN outputs : outputs[q].ref = finished'[t][p] => Marked(q, t)'
    <3> DEFINE f == finished[t][p]
    <3>1. /\ p \in DOMAIN finished[t] /\ finished'[t][p] = f /\ f \in Refs /\ (t # s \/ f # r)
      BY <1>1, <2>7
    <3>2. /\ f < nextRef /\ got[f][t] # "eos"
          /\ \A q \in DOMAIN finished[t] : finished[t][q] = f => q = p
          /\ \A q \in DOMAIN senders[t] : senders[t][q] # f
          /\ \A q \in DOMAIN outputs : outputs[q].ref = f => Marked(q, t)
      BY <1>1, <3>1 DEF EosOrder
    <3> HIDE DEF f
    <3>3. \A q \in DOMAIN finished'[t] : finished'[t][q] = f => q = p
      BY <2>7, <3>2
    <3>4. got'[f][t] # "eos"
      BY <2>8, <3>1, <3>2
    <3> QED BY <2>5, <3>1, <3>2, <3>3, <3>4
  <2>10. ASSUME NEW p \in DOMAIN senders[t]
         PROVE  senders[t][p] < nextRef /\ got'[senders[t][p]][t] # "eos"
    <3>1. senders[t][p] < nextRef /\ got[senders[t][p]][t] # "eos" /\ senders[t][p] \in Refs
      BY <1>1 DEF EosOrder
    <3> QED BY <2>4, <2>8, <3>1
  <2>11. ASSUME NEW p \in DOMAIN outputs, got'[outputs[p].ref][t] = "eos"
         PROVE  Marked(p, t)'
    <3>1. CASE t = s /\ outputs[p].ref = r
      BY <2>4, <2>5, <3>1
    <3>2. CASE t # s \/ outputs[p].ref # r
      <4>1. got[outputs[p].ref][t] = "eos"
        BY <1>2, <2>8, <2>11, <3>2
      <4> QED BY <1>1, <2>5, <4>1 DEF EosOrder
    <3> QED BY <3>1, <3>2
  <2>12. \A q \in Refs : q >= nextRef => got'[q][t] = "nothing"
    BY <1>1, <2>6, <2>8 DEF EosOrder
  <2> QED BY <2>9, <2>10, <2>11, <2>12
<1>7. ASSUME NEW s \in Sides, NEW o \in OutputIds, SendData(s, o) PROVE EosOrder'
  <2>1. UNCHANGED <<finished, senders, outputs, nextRef>>
    BY <1>7 DEF SendData, api
  <2>2. \A p, t : Marked(p, t) => Marked(p, t)'
    BY <2>1 DEF Marked, HasCond
  <2>3. \A q \in Refs, t \in Sides : /\ got'[q][t] = "eos" => got[q][t] = "eos"
                                     /\ q >= nextRef => got'[q][t] = got[q][t]
    <3>1. CASE o \in DOMAIN senders[s]
      <4> DEFINE r == senders[s][o]
      <4>1. r \in Refs /\ got' = Sent(r, s, "data")
        BY <1>1, <1>7, <3>1 DEF SendData
      <4>2. /\ \A q \in Refs, t \in Sides : q # r \/ t # s => got'[q][t] = got[q][t]
            /\ got'[r][s] \in {got[r][s], IF got[r][s] = "eos" THEN "afterEos" ELSE "data"}
        BY <4>1, SentFacts DEF IInv, Got
      <4>3. r < nextRef
        BY <1>1, <3>1 DEF EosOrder
      <4> HIDE DEF r
      <4>4. \A q \in Refs : q >= nextRef => q # r
        BY <1>1, <4>1, <4>3
      <4> QED BY <4>2, <4>4
    <3>2. CASE o \notin DOMAIN senders[s]
      BY <1>7, <3>2 DEF SendData
    <3> QED BY <3>1, <3>2
  <2> SUFFICES ASSUME NEW t \in Sides
               PROVE  /\ \A p \in DOMAIN finished[t] :
                           /\ got'[finished[t][p]][t] # "eos"
                           /\ \A q \in DOMAIN outputs : outputs[q].ref = finished[t][p] => Marked(q, t)'
                      /\ \A p \in DOMAIN senders[t] : got'[senders[t][p]][t] # "eos"
                      /\ \A p \in DOMAIN outputs : got'[outputs[p].ref][t] = "eos" => Marked(p, t)'
                      /\ \A q \in Refs : q >= nextRef => got'[q][t] = "nothing"
    BY <1>1, <2>1 DEF EosOrder
  <2>4. /\ \A p \in DOMAIN finished[t] : got'[finished[t][p]][t] # "eos"
        /\ \A p \in DOMAIN senders[t] : got'[senders[t][p]][t] # "eos"
        /\ \A q \in Refs : q >= nextRef => got'[q][t] = "nothing"
    <3>1. /\ \A p \in DOMAIN finished[t] : finished[t][p] \in Refs /\ got[finished[t][p]][t] # "eos"
          /\ \A p \in DOMAIN senders[t] : senders[t][p] \in Refs /\ got[senders[t][p]][t] # "eos"
          /\ \A q \in Refs : q >= nextRef => got[q][t] = "nothing"
      BY <1>1 DEF EosOrder
    <3> QED BY <2>3, <3>1
  <2>5. \A p \in DOMAIN finished[t] : \A q \in DOMAIN outputs :
          outputs[q].ref = finished[t][p] => Marked(q, t)'
    BY <1>1, <2>2 DEF EosOrder
  <2>6. \A p \in DOMAIN outputs : got'[outputs[p].ref][t] = "eos" => Marked(p, t)'
    <3> SUFFICES ASSUME NEW p \in DOMAIN outputs, got'[outputs[p].ref][t] = "eos" PROVE Marked(p, t)'
      OBVIOUS
    <3>1. got[outputs[p].ref][t] = "eos"
      BY <1>2, <2>3
    <3>2. Marked(p, t)
      BY <1>1, <3>1 DEF EosOrder
    <3> QED BY <2>2, <3>2
  <2> QED BY <2>4, <2>5, <2>6
<1>8. ASSUME NEW s \in Sides, Done(s) PROVE EosOrder'
  <2>1. /\ UNCHANGED <<finished, outputs, nextRef, got>> /\ senders' = [senders EXCEPT ![s] = Empty]
    BY <1>8 DEF Done, api
  <2>2. DOMAIN senders'[s] = {} /\ \A t \in Sides \ {s} : senders'[t] = senders[t]
    BY <1>1, <2>1 DEF Empty
  <2>3. \A p, t : Marked(p, t) => Marked(p, t)'
    BY <2>1 DEF Marked, HasCond
  <2> SUFFICES ASSUME NEW t \in Sides
               PROVE  /\ \A p \in DOMAIN finished[t] :
                           /\ \A q \in DOMAIN senders'[t] : senders'[t][q] # finished[t][p]
                           /\ \A q \in DOMAIN outputs : outputs[q].ref = finished[t][p] => Marked(q, t)'
                      /\ \A p \in DOMAIN senders'[t] :
                           senders'[t][p] < nextRef /\ got[senders'[t][p]][t] # "eos"
                      /\ \A p \in DOMAIN outputs : got[outputs[p].ref][t] = "eos" => Marked(p, t)'
    BY <1>1, <2>1 DEF EosOrder
  <2> QED BY <1>1, <2>2, <2>3 DEF EosOrder
<1>9. ASSUME NEW s \in Sides, Statuses(s) PROVE EosOrder'
  <2>1. /\ finished' = [finished EXCEPT ![s] = [o \in SendsEos(s) |-> outputs[o].ref]]
        /\ senders' = [senders EXCEPT ![s] = [o \in Active(s) |-> outputs[o].ref]]
        /\ UNCHANGED <<nextRef, got>>
    BY <1>9 DEF Statuses
  <2>2. /\ finished'[s] = [o \in SendsEos(s) |-> outputs[o].ref]
        /\ senders'[s] = [o \in Active(s) |-> outputs[o].ref]
        /\ \A t \in Sides \ {s} : finished'[t] = finished[t] /\ senders'[t] = senders[t]
    BY <1>1, <2>1
  <2>3. /\ SendsEos(s) \subseteq DOMAIN outputs /\ Active(s) \subseteq DOMAIN outputs
        /\ \A o \in SendsEos(s) \cup Active(s) : HasCond(o, s)
        /\ SendsEos(s) \cap Active(s) = {}
    BY DEF SendsEos, Active, Ended
  <2>4. /\ DOMAIN outputs' = DOMAIN outputs
        /\ \A o \in DOMAIN outputs : outputs'[o].ref = outputs[o].ref
    BY <1>9, StatusesShape DEF IInv, SameShape
  <2>5. \A o \in DOMAIN outputs : \A t \in Sides : Marked(o, t) => Marked(o, t)'
    <3> SUFFICES ASSUME NEW o \in DOMAIN outputs, NEW t \in Sides, Marked(o, t) PROVE Marked(o, t)'
      OBVIOUS
    <3> QED BY <1>9, StatusesShape DEF IInv, SameShape, Marked, HasCond
  <2>6. \A o \in SendsEos(s) : Marked(o, s)' /\ ~Marked(o, s)
    <3> SUFFICES ASSUME NEW o \in SendsEos(s) PROVE Marked(o, s)' /\ ~Marked(o, s)
      OBVIOUS
    <3> QED BY <1>9, <2>3, StatusMarks DEF Marked
  <2>7. \A o \in Active(s) : ~Marked(o, s)
    <3> SUFFICES ASSUME NEW o \in Active(s) PROVE ~Marked(o, s)
      OBVIOUS
    <3> QED BY <1>9, <2>3, StatusMarks DEF Marked
  <2>8. \A o \in DOMAIN outputs : \A t \in Sides : ~Marked(o, t) => got[outputs[o].ref][t] # "eos"
    BY <1>1 DEF EosOrder
  <2>9. \A o, p \in DOMAIN outputs : outputs[o].ref = outputs[p].ref => o = p
    BY DEF IInv, RefOrder
  <2> SUFFICES ASSUME NEW t \in Sides
               PROVE  /\ \A o \in DOMAIN finished'[t] :
                           /\ finished'[t][o] < nextRef /\ got[finished'[t][o]][t] # "eos"
                           /\ \A p \in DOMAIN finished'[t] : finished'[t][p] = finished'[t][o] => p = o
                           /\ \A p \in DOMAIN senders'[t] : senders'[t][p] # finished'[t][o]
                           /\ \A p \in DOMAIN outputs : outputs[p].ref = finished'[t][o] => Marked(p, t)'
                      /\ \A o \in DOMAIN senders'[t] :
                           senders'[t][o] < nextRef /\ got[senders'[t][o]][t] # "eos"
                      /\ \A o \in DOMAIN outputs : got[outputs[o].ref][t] = "eos" => Marked(o, t)'
    <3>1. \A t \in Sides : \A r \in Refs : r >= nextRef => got[r][t] = "nothing"
      BY <1>1 DEF EosOrder
    <3>2. got' = got /\ nextRef' = nextRef
      BY <2>1
    <3> QED BY <2>4, <3>1, <3>2 DEF EosOrder
  <2>10. \A o \in DOMAIN outputs : got[outputs[o].ref][t] = "eos" => Marked(o, t)'
    BY <1>1, <2>5 DEF EosOrder
  <2>11. CASE t = s
    BY <1>2, <2>2, <2>3, <2>6, <2>7, <2>8, <2>9, <2>10, <2>11
  <2>12. CASE t # s
    BY <1>1, <2>2, <2>5, <2>10, <2>12 DEF EosOrder
  <2> QED BY <2>11, <2>12
<1>10. \/ UNCHANGED <<finished, senders, got>>
       \/ \E s \in Sides : Statuses(s) \/ Done(s) \/ \E o \in OutputIds : SendEos(s, o) \/ SendData(s, o)
  <2>1. ASSUME \/ \E i \in InputIds : RegisterInput(i) \/ UnregisterInput(i)
               \/ \E o \in OutputIds : \/ RegisterOutput(o) \/ UnregisterOutput(o) \/ UpdateOutput(o)
                                       \/ \E r \in Refs : RunStart(o, r)
               \/ \E r \in Refs, s \in Sides : DropReceiver(r, s)
               \/ \E s \in Sides : EmitBatch(s)
               \/ UNCHANGED vars
        PROVE  UNCHANGED <<thread, got>>
    BY <2>1 DEF RegisterInput, UnregisterInput, RegisterOutput, UnregisterOutput, UpdateOutput,
                RunStart, DropReceiver, EmitBatch, vars
  <2>2. ASSUME NEW s \in Sides, \/ Receive(s) \/ Render(s) \/ (\E i \in InputIds : HandleEos(s, i))
                                \/ \E o \in OutputIds : Disconnect(s, o)
        PROVE  UNCHANGED <<finished, senders, got>>
    BY <2>2 DEF Receive, Render, HandleEos, Disconnect
  <2> QED BY <2>1, <2>2 DEF Next, ThreadStep, thread
<1> QED BY <1>3, <1>5, <1>6, <1>7, <1>8, <1>9, <1>10, MarkSteps

LEMMA NothingAfterEosStep ==
  ASSUME IInv, [Next]_vars
  PROVE  NothingAfterEos'
<1>1. /\ NothingAfterEos /\ EosOrder /\ TypeOK
      /\ \A s \in Sides : \A o \in DOMAIN finished[s] : finished[s][o] \in Refs
      /\ \A s \in Sides : \A o \in DOMAIN senders[s] : senders[s][o] \in Refs
  BY DEF IInv, TypeOK, IsHashMap
<1>2. ASSUME NEW r \in Refs, NEW s \in Sides, NEW item \in {"eos", "data"},
             got[r][s] # "eos", got' = Sent(r, s, item)
      PROVE  NothingAfterEos'
  <2>1. item \in Got /\ item # "afterEos"
    BY DEF Got
  <2>2. /\ \A q \in Refs, t \in Sides : q # r \/ t # s => got'[q][t] = got[q][t]
        /\ got'[r][s] \in {got[r][s], item}
    BY <1>1, <1>2, <2>1, SentFacts
  <2> QED BY <1>1, <2>1, <2>2 DEF NothingAfterEos
<1>3. ASSUME NEW s \in Sides, NEW o \in OutputIds, SendEos(s, o) PROVE NothingAfterEos'
  <2>1. o \in DOMAIN finished[s] /\ got' = Sent(finished[s][o], s, "eos")
    BY <1>3 DEF SendEos
  <2>2. finished[s][o] \in Refs /\ got[finished[s][o]][s] # "eos"
    BY <1>1, <2>1 DEF EosOrder
  <2> QED BY <1>2, <2>1, <2>2
<1>4. ASSUME NEW s \in Sides, NEW o \in OutputIds, SendData(s, o) PROVE NothingAfterEos'
  <2>1. CASE o \in DOMAIN senders[s]
    <3>1. got' = Sent(senders[s][o], s, "data")
      BY <1>4, <2>1 DEF SendData
    <3>2. senders[s][o] \in Refs /\ got[senders[s][o]][s] # "eos"
      BY <1>1, <2>1 DEF EosOrder
    <3> QED BY <1>2, <3>1, <3>2
  <2>2. CASE o \notin DOMAIN senders[s]
    BY <1>1, <1>4, <2>2 DEF SendData, NothingAfterEos
  <2> QED BY <2>1, <2>2
<1>5. ASSUME got' = got PROVE NothingAfterEos'
  BY <1>1, <1>5 DEF NothingAfterEos
<1>6. \/ got' = got
      \/ \E s \in Sides, o \in OutputIds : SendEos(s, o) \/ SendData(s, o)
  BY DEF Next, ThreadStep, RegisterInput, UnregisterInput, RegisterOutput, UnregisterOutput,
         UpdateOutput, RunStart, DropReceiver, EmitBatch, Receive, HandleEos, Statuses, Disconnect,
         Render, Done, vars
<1> QED BY <1>3, <1>4, <1>5, <1>6
-----------------------------------------------------------------------------
LEMMA InitIInv == Init => IInv
<1> SUFFICES ASSUME Init PROVE IInv
  OBVIOUS
<1>1. MaxRefs \in Nat
  BY ConstAssumption
<1>2. IsHashMap(Empty, InputIds, [Sides -> BOOLEAN]) /\ IsHashMap(Empty, OutputIds, Refs) /\ DOMAIN Empty = {}
  BY DEF IsHashMap, Empty
<1>3. TypeOK
  <2>1. <<>> \in Seq(SUBSET InputIds)
    OBVIOUS
  <2>2. chan \in [Sides -> Seq(SUBSET InputIds)]
    BY <2>1 DEF Init
  <2>3. nextRef \in 1..MaxRefs+1 /\ scheduled \subseteq OutputIds \X Refs
        /\ used \subseteq InputIds /\ live \subseteq used \X Sides /\ gone \subseteq Refs \X Sides
    BY <1>1 DEF Init
  <2>4. /\ pc \in [Sides -> {"recv", "eos", "finish", "send"}]
        /\ todo \in [Sides -> SUBSET InputIds]
        /\ {leaving, frames, sink} \subseteq [Sides -> SUBSET OutputIds]
        /\ got \in [Refs -> [Sides -> {"nothing", "data", "eos", "afterEos"}]]
    BY DEF Init
  <2>5. /\ DOMAIN finished = Sides /\ DOMAIN senders = Sides
        /\ \A s \in Sides : finished[s] = Empty /\ senders[s] = Empty
        /\ inputs = Empty /\ outputs = Empty
    BY DEF Init
  <2> QED BY <1>2, <2>2, <2>3, <2>4, <2>5 DEF TypeOK
<1>4. CondOrder /\ RefOrder /\ Disconnecting /\ KnowsItsInputs
  BY <1>2 DEF Init, CondOrder, RefOrder, Disconnecting, KnowsItsInputs, HasCond
<1>5. PhaseOrder /\ NoGhosts /\ NothingAfterEos
  BY <1>2 DEF Init, PhaseOrder, NoGhosts, NothingAfterEos
<1>6. EosOrder
  BY <1>2 DEF Init, EosOrder
<1> QED BY <1>3, <1>4, <1>5, <1>6 DEF IInv

LEMMA Invariance == Spec => []IInv
<1>1. IInv /\ [Next]_vars => IInv'
  BY TypeStep, CondStep, RefStep, PhaseStep, DisconnectingStep, EosStep, KnowledgeStep, GhostStep,
     NothingAfterEosStep DEF IInv
<1> QED BY <1>1, InitIInv, PTL DEF Spec

\* The state keeps its type: the maps of the pipeline and of the threads hold
\* what their keys say.
THEOREM TypeCorrect == Spec => []TypeOK
BY Invariance, PTL DEF IInv

\* The end condition of an output that has not ended counts exactly the inputs
\* that have not ended, whatever came and went (on_event, on_input_eos).
THEOREM KnowsItsInputsCorrect == Spec => []KnowsItsInputs
BY Invariance, PTL DEF IInv

\* A receiver gets at most one EOS and nothing after it, though the threads
\* send without the lock (eos_status, all_output_video_senders_iter).
THEOREM NothingAfterEosCorrect == Spec => []NothingAfterEos
BY Invariance, PTL DEF IInv

\* What the renderer and the mixer work for is registered and started, and
\* between two batches none of it has got its EOS, though outputs are updated,
\* removed and registered again meanwhile (update_output, unregister_output,
\* start_registered_output and the threads' own removals).
THEOREM NothingForTheGoneCorrect == Spec => []NothingForTheGone
<1>1. IInv => FinishedDisconnected
  <2> SUFFICES ASSUME IInv, NEW o \in OutputIds, NEW s \in Sides, pc[s] = "recv", HasCond(o, s),
                      outputs[o].cond[s].didSendEos
               PROVE  o \notin sink[s]
    BY DEF FinishedDisconnected
  <2>1. o \notin sink[s] \/ o \in DOMAIN finished[s] \cup leaving[s]
    BY DEF IInv, Disconnecting, HasCond
  <2> QED BY <2>1 DEF IInv, PhaseOrder
<1>2. IInv => NothingForTheGone
  BY <1>1 DEF IInv, NothingForTheGone
<1> QED BY <1>2, Invariance, PTL
-----------------------------------------------------------------------------
(* The condition of an output against the streams themselves. *)

\* A stream that is live has not been ended anywhere on its way to the outputs,
\* and of an input that is yet to come nothing has been heard.
LiveOrder ==
  \A s \in Sides, i \in InputIds :
    /\ <<i, s>> \in live => i \in DOMAIN inputs /\ ~inputs[i][s]
    /\ <<i, s>> \in live \/ i \notin used =>
         i \notin todo[s] /\ \A n \in 1..Len(chan[s]) : i \notin chan[s][n]

LInv == IInv /\ LiveOrder

LEMMA LiveStep ==
  ASSUME LInv, [Next]_vars, ~ReuseInputs
  PROVE  LiveOrder'
<1>1. /\ LiveOrder /\ live \subseteq used \X Sides /\ used \subseteq InputIds
      /\ chan \in [Sides -> Seq(SUBSET InputIds)] /\ todo \in [Sides -> SUBSET InputIds]
      /\ \A i \in DOMAIN inputs : inputs[i] \in [Sides -> BOOLEAN]
  BY DEF LInv, IInv, TypeOK, IsHashMap
<1>2. ASSUME NEW i \in InputIds, RegisterInput(i) PROVE LiveOrder'
  <2>1. /\ DOMAIN inputs' = DOMAIN inputs \cup {i} /\ \A s \in Sides : ~inputs'[i][s]
        /\ \A j \in DOMAIN inputs \ {i} : inputs'[j] = inputs[j]
    BY <1>2 DEF RegisterInput, Put
  <2>2. i \notin used /\ used' = used \cup {i} /\ live' = live \cup {i} \X Sides /\ UNCHANGED <<chan, todo>>
    BY <1>2 DEF RegisterInput, thread
  <2>3. ASSUME NEW s \in Sides, NEW j \in InputIds
        PROVE  /\ <<j, s>> \in live' => j \in DOMAIN inputs' /\ ~inputs'[j][s]
               /\ <<j, s>> \in live' \/ j \notin used' => <<j, s>> \in live \/ j \notin used
    BY <1>1, <2>1, <2>2 DEF LiveOrder
  <2> QED BY <1>1, <2>2, <2>3 DEF LiveOrder
<1>3. ASSUME NEW i \in InputIds, UnregisterInput(i) PROVE LiveOrder'
  <2>1. /\ DOMAIN inputs' = DOMAIN inputs \ {i}
        /\ \A j \in DOMAIN inputs \ {i} : inputs'[j] = inputs[j]
    BY <1>3 DEF UnregisterInput, Without
  <2>2. used' = used /\ live' = live \ {i} \X Sides /\ UNCHANGED <<chan, todo>>
    BY <1>3 DEF UnregisterInput, thread
  <2> QED BY <1>1, <2>1, <2>2 DEF LiveOrder
<1>4. ASSUME NEW s \in Sides, NEW i \in InputIds, HandleEos(s, i) PROVE LiveOrder'
  <2>1. /\ DOMAIN inputs' = DOMAIN inputs
        /\ \A j \in DOMAIN inputs, t \in Sides : j # i \/ t # s => inputs'[j][t] = inputs[j][t]
    BY <1>1, <1>4 DEF HandleEos
  <2>2. i \in todo[s] /\ todo' = [todo EXCEPT ![s] = todo[s] \ {i}] /\ UNCHANGED <<used, live, chan>>
    BY <1>4 DEF HandleEos
  <2>3. <<i, s>> \notin live /\ \A t \in Sides : todo'[t] \subseteq todo[t]
    BY <1>1, <2>2 DEF LiveOrder
  <2> QED BY <1>1, <2>1, <2>2, <2>3 DEF LiveOrder
<1>5. ASSUME NEW s \in Sides, EmitBatch(s) PROVE LiveOrder'
  <2>1. PICK e \in SUBSET {i \in InputIds : <<i, s>> \in live} :
          live' = live \ e \X {s} /\ chan' = [chan EXCEPT ![s] = Append(@, e)]
    BY <1>5 DEF EmitBatch
  <2>2. UNCHANGED <<inputs, used, todo>>
    BY <1>5 DEF EmitBatch, api, thread
  <2>3. chan[s] \in Seq(SUBSET InputIds) /\ e \in SUBSET InputIds
    BY <1>1
  <2>4. \A n \in 1..Len(chan'[s]) : chan'[s][n] = e \/ \E m \in 1..Len(chan[s]) : chan'[s][n] = chan[s][m]
    BY <1>1, <2>1, <2>3
  <2>5. \A t \in Sides \ {s} : chan'[t] = chan[t]
    BY <1>1, <2>1
  <2>6. \A i \in InputIds : <<i, s>> \in live' \/ i \notin used => i \notin e
    BY <1>1, <2>1
  <2>7. ASSUME NEW t \in Sides, NEW i \in InputIds
        PROVE  /\ <<i, t>> \in live' => i \in DOMAIN inputs /\ ~inputs[i][t]
               /\ <<i, t>> \in live' \/ i \notin used =>
                    i \notin todo[t] /\ \A n \in 1..Len(chan'[t]) : i \notin chan'[t][n]
    <3>1. CASE t = s
      BY <1>1, <2>1, <2>4, <2>6, <3>1 DEF LiveOrder
    <3>2. CASE t # s
      BY <1>1, <2>1, <2>5, <3>2 DEF LiveOrder
    <3> QED BY <3>1, <3>2
  <2> QED BY <2>2, <2>7 DEF LiveOrder
<1>6. ASSUME NEW s \in Sides, Receive(s) PROVE LiveOrder'
  <2>1. chan[s] \in Seq(SUBSET InputIds) /\ chan[s] # <<>>
    BY <1>1, <1>6 DEF Receive
  <2>2. /\ todo'[s] = chan[s][1] /\ 1 \in 1..Len(chan[s])
        /\ \A n \in 1..Len(chan'[s]) : n+1 \in 1..Len(chan[s]) /\ chan'[s][n] = chan[s][n+1]
        /\ \A t \in Sides \ {s} : todo'[t] = todo[t] /\ chan'[t] = chan[t]
    BY <1>1, <1>6, <2>1 DEF Receive
  <2>3. UNCHANGED <<inputs, used, live>>
    BY <1>6 DEF Receive, api
  <2>4. ASSUME NEW t \in Sides, NEW i \in InputIds, <<i, t>> \in live \/ i \notin used
        PROVE  i \notin todo'[t] /\ \A n \in 1..Len(chan'[t]) : i \notin chan'[t][n]
    <3>1. i \notin todo[t] /\ \A n \in 1..Len(chan[t]) : i \notin chan[t][n]
      BY <1>1, <2>4 DEF LiveOrder
    <3> QED BY <2>2, <3>1
  <2> QED BY <1>1, <2>3, <2>4 DEF LiveOrder
<1>7. ASSUME UNCHANGED <<inputs, used, live, chan, todo>> PROVE LiveOrder'
  BY <1>1, <1>7 DEF LiveOrder
<1>8. ASSUME NEW o \in OutputIds, \/ RegisterOutput(o) \/ UnregisterOutput(o) \/ UpdateOutput(o)
                                  \/ \E r \in Refs : RunStart(o, r)
      PROVE  UNCHANGED <<inputs, used, live, chan, todo>>
  BY <1>8 DEF RegisterOutput, UnregisterOutput, UpdateOutput, RunStart, thread, api
<1>9. ASSUME NEW s \in Sides,
             \/ Statuses(s) \/ Render(s) \/ Done(s) \/ (\E r \in Refs : DropReceiver(r, s))
             \/ \E o \in OutputIds : SendEos(s, o) \/ Disconnect(s, o) \/ SendData(s, o)
      PROVE  UNCHANGED <<inputs, used, live, chan, todo>>
  BY <1>9 DEF Statuses, Render, Done, DropReceiver, SendEos, Disconnect, SendData, thread, api
<1>10. ASSUME UNCHANGED vars PROVE UNCHANGED <<inputs, used, live, chan, todo>>
  BY <1>10 DEF vars, api, thread
<1> QED BY <1>2, <1>3, <1>4, <1>5, <1>6, <1>7, <1>8, <1>9, <1>10 DEF Next, ThreadStep

\* The fewer inputs are connected, the more conditions hold.
LEMMA EndsAntitone ==
  ASSUME NEW c \in Conditions, NEW connected, NEW fewer \in SUBSET connected, NEW removal \in BOOLEAN,
         Ends(c, connected, removal)
  PROVE  Ends(c, fewer, TRUE)
BY DEF Ends, Conditions, Kinds

\* A condition that ends now holds of the inputs it counts.
LEMMA OnEventEnds ==
  ASSUME NEW c \in Cond, NEW change, change.added \subseteq InputIds,
         ~c.didEnd, OnEvent(c, change).didEnd
  PROVE  Ends(c.end, (c.connected \cup change.added) \ change.removed, change.removed # {})
BY DEF OnEvent, Cond

\* When an output ends, its condition holds of the inputs that have not ended.
LEMMA EndsWithItsInputs ==
  ASSUME IInv, [Next]_vars, NEW o \in OutputIds, NEW s \in Sides, EndsNow(o, s)
  PROVE  \E removal \in BOOLEAN : Ends(outputs[o].cond[s].end, Connected(s)', removal)
<1> DEFINE c == outputs[o].cond[s]
<1>1. /\ o \in DOMAIN outputs /\ outputs[o].started /\ s \in DOMAIN outputs[o].cond /\ ~c.didEnd
      /\ outputs'[o].cond[s].didEnd /\ s \in DOMAIN outputs'[o].cond
      /\ o \in DOMAIN outputs'
  BY DEF EndsNow, HasCond
<1>2. c \in Cond /\ c.connected = Connected(s)
  BY <1>1 DEF IInv, TypeOK, OutputOK, IsHashMap, KnowsItsInputs, HasCond
<1>3. ASSUME NEW sides, NEW change, change.added \subseteq InputIds, TellOutputs(sides, change),
             nextRef' = nextRef,
             s \in sides => Connected(s)' = (Connected(s) \cup change.added) \ change.removed
      PROVE  \E removal \in BOOLEAN : Ends(c.end, Connected(s)', removal)
  <2>1. outputs'[o].cond[s] = IF s \in sides THEN OnEvent(c, change) ELSE c
    BY <1>1, <1>3, TellOutputsShape DEF IInv
  <2> HIDE DEF c
  <2>2. s \in sides /\ OnEvent(c, change).didEnd
    BY <1>1, <2>1
  <2>3. Ends(c.end, (c.connected \cup change.added) \ change.removed, change.removed # {})
    BY <1>1, <1>2, <1>3, <2>2, OnEventEnds
  <2> QED BY <1>2, <1>3, <2>2, <2>3
<1>4. ASSUME NEW i \in InputIds, RegisterInput(i)
      PROVE  \E removal \in BOOLEAN : Ends(c.end, Connected(s)', removal)
  <2>1. Connected(s)' = Connected(s) \cup {i}
    <3>1. inputs' = Put(inputs, i, [t \in Sides |-> FALSE]) /\ i \notin DOMAIN inputs
      BY <1>4 DEF RegisterInput
    <3> QED BY <3>1 DEF Connected, Put
  <2> QED BY <1>3, <1>4, <2>1 DEF RegisterInput, AddInput
<1>5. ASSUME NEW i \in InputIds, UnregisterInput(i)
      PROVE  \E removal \in BOOLEAN : Ends(c.end, Connected(s)', removal)
  <2>1. Connected(s)' = Connected(s) \ {i}
    BY <1>5 DEF UnregisterInput, Connected, Without
  <2> QED BY <1>3, <1>5, <2>1 DEF UnregisterInput, RemoveInput
<1>6. ASSUME NEW i \in InputIds, NEW t \in Sides, HandleEos(t, i)
      PROVE  \E removal \in BOOLEAN : Ends(c.end, Connected(s)', removal)
  <2>1. s \in {t} => Connected(s)' = Connected(s) \ {i}
    <3>1. \A j \in DOMAIN inputs : inputs[j] \in [Sides -> BOOLEAN]
      BY DEF IInv, TypeOK, IsHashMap
    <3> QED BY <1>6, <3>1 DEF HandleEos, Connected
  <2> QED BY <1>3, <1>6, <2>1 DEF HandleEos, RemoveInput
<1>7. ASSUME NEW t \in Sides, Statuses(t)
      PROVE  \E removal \in BOOLEAN : Ends(c.end, Connected(s)', removal)
  <2>1. outputs'[o].cond[s] = IF s = t THEN EosStatus(c) ELSE c
    BY <1>1, <1>7, StatusesShape DEF IInv
  <2>2. Connected(s)' = Connected(s)
    BY <1>7 DEF Statuses, Connected
  <2> HIDE DEF c
  <2>3. s = t /\ OnStatus(c) \in Cond
    BY <1>1, <1>2, <2>1, OnEventType DEF OnStatus, NoChanges
  <2>4. OnStatus(c).didEnd
    BY <1>1, <2>1, <2>3 DEF EosStatus, Cond
  <2>5. Ends(c.end, c.connected, FALSE)
    <3>1. NoChanges.added = {} /\ NoChanges.removed = {}
      BY DEF NoChanges
    <3>2. ~c.didEnd
      BY <1>1 DEF c
    <3>3. Ends(c.end, (c.connected \cup NoChanges.added) \ NoChanges.removed, NoChanges.removed # {})
      BY <1>2, <2>4, <3>1, <3>2, OnEventEnds DEF OnStatus
    <3>4. (c.connected \cup NoChanges.added) \ NoChanges.removed = c.connected
      BY <3>1
    <3>5. (NoChanges.removed # {}) = FALSE
      BY <3>1
    <3> QED BY <3>3, <3>4, <3>5
  <2> QED BY <1>2, <2>2, <2>5
<1>8. ASSUME NEW p \in OutputIds, ChangeStep(p) PROVE FALSE
  BY <1>1, <1>8 DEF ChangeStep, Changes
<1>9. ASSUME UNCHANGED <<inputs, outputs, nextRef>> PROVE FALSE
  BY <1>1, <1>9
<1> QED BY <1>4, <1>5, <1>6, <1>7, <1>8, <1>9, ConditionSteps

\* If no InputId is registered twice, an output ends only when its condition
\* holds of the streams that are still live, not just of what was heard of them
\* (on_input_eos reaches the outputs long after the queue ended the stream).
THEOREM EndsRightlyCorrect ==
  ASSUME ~ReuseInputs
  PROVE  Spec => EndsRightly
<1>1. Init => LInv
  <2>1. Init => LiveOrder
    BY DEF Init, LiveOrder
  <2> QED BY <2>1, InitIInv DEF LInv
<1>2. LInv /\ [Next]_vars => LInv'
  <2> SUFFICES ASSUME LInv, [Next]_vars PROVE LInv'
    OBVIOUS
  <2>1. IInv'
    BY TypeStep, CondStep, RefStep, PhaseStep, DisconnectingStep, EosStep, KnowledgeStep, GhostStep,
       NothingAfterEosStep DEF IInv, LInv
  <2> QED BY <2>1, LiveStep DEF LInv
<1>3. ASSUME LInv, LInv', [Next]_vars, NEW o \in OutputIds, NEW s \in Sides, EndsNow(o, s)
      PROVE  Ends(outputs[o].cond[s].end, Live(s)', TRUE)
  <2>1. PICK removal \in BOOLEAN : Ends(outputs[o].cond[s].end, Connected(s)', removal)
    BY <1>3, EndsWithItsInputs DEF LInv
  <2>2. Live(s)' \subseteq Connected(s)'
    BY <1>3 DEF LInv, LiveOrder, Live, Connected
  <2>3. outputs[o].cond[s].end \in Conditions
    BY <1>3 DEF LInv, IInv, TypeOK, OutputOK, IsHashMap, Cond, EndsNow, HasCond
  <2> QED BY <2>1, <2>2, <2>3, EndsAntitone
<1>4. LInv /\ LInv' /\ [Next]_vars
        => [\A o \in OutputIds, s \in Sides :
              EndsNow(o, s) => Ends(outputs[o].cond[s].end, Live(s)', TRUE)]_vars
  BY <1>3
<1> QED BY <1>1, <1>2, <1>4, PTL DEF Spec, EndsRightly
=============================================================================
