---------------------------- MODULE MCLifecycle ----------------------------
(***************************************************************************)
(* Two of the eight QL6C channels: "6", the one the mock steps break, and  *)
(* "D", the one they short.                                                *)
(***************************************************************************)
EXTENDS Lifecycle

MCChannels == {6, 13}
MCModuleOf == [c \in MCChannels |-> "QL6C"]

=============================================================================
