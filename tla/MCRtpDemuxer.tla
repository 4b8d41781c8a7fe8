---------------------------- MODULE MCRtpDemuxer ----------------------------
(* Instances of RtpDemuxer for TLC: video has B-frames (the frames with    *)
(* PTS 1 and 2 are sent behind the one with PTS 3 that they refer to).     *)
EXTENDS RtpDemuxer

MCFinal == <<17, 15>>

MCPts ==
  LET Video == [p \in Positions |-> <<0, 3, 1, 2>>[p - First + 1]]
  IN  [t \in Tracks |-> IF t = 1 THEN Video ELSE [p \in Positions |-> 2 * (p - First)]]
=============================================================================
