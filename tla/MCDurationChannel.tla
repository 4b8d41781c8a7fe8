-------------------------- MODULE MCDurationChannel --------------------------
(* Instances of DurationChannel for TLC. *)
EXTENDS DurationChannel

CONSTANTS s1, s2, s3

MCSenders == {s1, s2, s3}

\* An item that fills the channel alone, and one without a timestamp.
MCRanges == {<<0, 2>>, <<2, 3>>, <<>>}
=============================================================================
