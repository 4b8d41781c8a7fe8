--------------------------- MODULE MCH264Decoder ---------------------------
(* Instances of H264Decoder for TLC. *)
EXTENDS H264Decoder

Plain     == [gaps |-> FALSE, longTerms |-> FALSE, resets |-> FALSE]
LongTerms == [Plain EXCEPT !.longTerms = TRUE]
Layers    == [Plain EXCEPT !.gaps = TRUE]
Resetting == [Plain EXCEPT !.resets = TRUE]

MCScenarios == {[uses |-> Plain, strict |-> TRUE, fails |-> TRUE],
                [uses |-> LongTerms, strict |-> TRUE, fails |-> FALSE],
                [uses |-> Layers, strict |-> FALSE, fails |-> FALSE]}
MCStrict    == {[uses |-> LongTerms, strict |-> TRUE, fails |-> FALSE]}
MCResetting == {[uses |-> Resetting, strict |-> TRUE, fails |-> FALSE]}
=============================================================================
