-------------------------- MODULE MCBridgeRuntime --------------------------
(***************************************************************************)
(* Values for the constants of BridgeRuntime.                              *)
(***************************************************************************)
EXTENDS RuntimeRefinement, TLC

\* Channels 1 and 2 arrive on the telemetry topic, channel 3 on a topic that
\* is not subscribed (module QL6D).
MCModuleOf == <<"QL6C", "QL6C", "QL6D">>

Off   == [input |-> 0, output |-> 0, diagnostic |-> 1]
On    == [input |-> 1, output |-> 1, diagnostic |-> 1]
Break == [input |-> 0, output |-> 1, diagnostic |-> 0]

TwoSamples  == {Off, Break}
LampSamples == {Off, On}      \* equal in status
LampOn      == {On}           \* one payload: its first report is a change

\* Telemetry tasks are interchangeable.
TaskSymmetry == Permutations(Board)

=============================================================================
