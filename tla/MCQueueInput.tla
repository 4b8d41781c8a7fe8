---------------------------- MODULE MCQueueInput ----------------------------
(* Instances of QueueInput for TLC. *)
EXTENDS QueueInput

MCItemLength == [video |-> 2, audio |-> 1]
MCPeriod     == [video |-> 1, audio |-> 2]

MCPausedItems == <<[video |-> 2, audio |-> 2], [video |-> 2, audio |-> None]>>
\* A track with both streams, then one with audio only.
MCShortItems == <<[video |-> 2, audio |-> 3], [video |-> None, audio |-> 1]>>
MCFirstItems == <<[video |-> 2, audio |-> 1]>>
MCFirstOpen  == <<[by |-> "none", at |-> 0]>>
MCPlaced   == <<[by |-> "start", at |-> 1], [by |-> "pts", at |-> 3]>>
MCMixed    == <<[by |-> "none", at |-> 0], [by |-> "start", at |-> 1]>>
=============================================================================
