-------------------------- MODULE MCMp4TrackManager --------------------------
(* Instances of Mp4TrackManager for TLC. *)
EXTENDS Mp4TrackManager
=============================================================================
