--------------------------- MODULE MCQueueThread ---------------------------
(* Instances of QueueThread for TLC.  A tick is about 10 ms: frames are 3      *)
(* ticks apart and audio chunks 2, so the two sides meet at every sixth tick.  *)
EXTENDS QueueThread

MCPeriod == [s \in Sides |-> IF s = "video" THEN 3 ELSE 2]

\* Video needs a frame newer than the PTS, audio the chunk and one tick more.
MCAhead == [s \in Sides |-> IF s = "video" THEN 1 ELSE 3]

\* A batch of samples lasts one tick.
MCChunk == [s \in Sides |-> IF s = "video" THEN 0 ELSE 1]

MCCap == [s \in Sides |-> IF s = "video" THEN 1 ELSE 2]

=============================================================================
