----------------------------- MODULE StateStore -----------------------------
(***************************************************************************)
(* app/services/state_store.py: the state of every channel and of the horn *)
(* ("tifon"), held in memory.                                              *)
(*                                                                         *)
(* Every method of the class runs under one asyncio lock and never awaits  *)
(* inside it, so each is one step.  The channels are numbered in the order *)
(* the decoder lists them.                                                 *)
(***************************************************************************)
EXTENDS ChannelDecoder

CONSTANTS
    Channels,   \* the channels of the signal map
    ModuleOf    \* the module each channel belongs to

ASSUME ChannelsAssumption == Channels \subseteq Nat \ {0} /\ Channels # {}

VARIABLES
    channels,   \* _channels_by_key
    act,        \* _act["tifon"]: None until the first value
    module      \* _module: the module of the last payload's first channel

storeVars == <<channels, act, module>>

Modules == {ModuleOf[c] : c \in Channels}

Tifon == {"none", "on", "off"}

\* What _build_snapshot_locked copies; the rest of a StateSnapshot is computed
\* from it (module StateSummary).
Snapshot == [channels : [Channels -> Channel], act : Tifon]

CurrentSnapshot == [channels |-> channels, act |-> act]

StoreTypeOK ==
    /\ channels \in [Channels -> Channel]
    /\ act \in Tifon
    /\ module \in Modules \cup {"none"}

StoreInit ==
    /\ channels = [c \in Channels |-> Inactive]
    /\ act = "none"
    /\ module = "none"

-----------------------------------------------------------------------------

\* (Mutant: only the status is compared.)
ChangedStatus(reading) ==
    {c \in DOMAIN reading : channels[c].status # Decoded(reading[c]).status}

\* A reading gives the triplet of every channel the payload's topic carries.
\* default_inactive_channels lists every channel the decoder can return, so
\* the store always knows a previous state.
Changed(reading) == {c \in DOMAIN reading : channels[c] # Decoded(reading[c])}

IsFirst(c, S) == c \in S /\ \A d \in S : c <= d

ApplyBoardUpdate(reading) ==
    /\ channels' = [c \in Channels |->
                       IF c \in DOMAIN reading THEN Decoded(reading[c])
                                               ELSE channels[c]]
    /\ \E c \in DOMAIN reading :
          IsFirst(c, DOMAIN reading) /\ module' = ModuleOf[c]
    /\ UNCHANGED act

ApplyActUpdate(value) ==
    /\ act' = value
    /\ UNCHANGED <<channels, module>>

=============================================================================
