-------------------------- MODULE MCPipelineOutputs --------------------------
(* Instances of PipelineOutputs for TLC. *)
EXTENDS PipelineOutputs

CONSTANTS i1, i2

All   == [kind |-> "all_inputs", of |-> {}]
AnyIn == [kind |-> "any_input", of |-> {}]
AnyOf == [kind |-> "any_of", of |-> {i1}]
AllOf == [kind |-> "all_of", of |-> {i1, i2}]
Never == [kind |-> "never", of |-> {}]

\* Every condition, on outputs that have only video.
MCOptions == {[video |-> c] : c \in {All, AnyIn, AnyOf, AllOf}}

\* Audio that never ends, and audio that ends with its input.
MCAudioOptions == {[audio |-> Never], [audio |-> AnyOf]}
=============================================================================
