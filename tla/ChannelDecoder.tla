--------------------------- MODULE ChannelDecoder ---------------------------
(***************************************************************************)
(* The pure part of app/services/decoder.py and app/utils/bits.py: how one *)
(* bit is taken from a telemetry byte, which bit of which byte belongs to  *)
(* which channel, and what the three bits of a channel mean.               *)
(*                                                                         *)
(* Texts (labels, causes, actions) are functions of the fault type and are *)
(* left out.                                                               *)
(***************************************************************************)
EXTENDS Integers

Bit  == {0, 1}
Byte == 0 .. 255

\* What the board reports of one channel: the bits of "in", "out", "inversed".
Triplet == [input : Bit, output : Bit, diagnostic : Bit]

\* A telemetry message, BoardPayload without the unused byte "other".
Payload == [in : Byte, out : Byte, inversed : Byte]

Status    == {"inactive", "normal", "fault", "unknown"}
FaultType == {"none", "break", "short", "unknown"}

-----------------------------------------------------------------------------
(* Bits *)

GetBit(value, index) == (value \div 2^index) % 2

\* extract_bit_from_bytes on the one-byte lists the decoder passes: an index
\* past the byte, or a negative one, reads as 0.
ExtractChannelBit(byte, index) ==
    IF index \in 0 .. 7 THEN GetBit(byte, index) ELSE 0

-----------------------------------------------------------------------------
(* The wiring of module QL6C: channels "6" .. "D" are channel indexes      *)
(* 6 .. 13.  The board numbers "in" and "inversed" from the top of the     *)
(* byte and "out" from the bottom.                                         *)

QL6CIndexes == 6 .. 13

InBitIndex(index)   == 7 - (index - 6)
OutBitIndexShifted(index) == index - 5   \* (Mutant: counted from one.)
OutBitIndex(index)  == index - 6
DiagBitIndex(index) == InBitIndex(index)

QL6CTriplet(index, payload) ==
    [input      |-> GetBit(payload.in, InBitIndex(index)),
     output     |-> GetBit(payload.out, OutBitIndex(index)),
     diagnostic |-> GetBit(payload.inversed, DiagBitIndex(index))]

\* Every other channel is wired straight: its index is its bit in each byte.
LegacyTriplet(index, payload) ==
    [input      |-> ExtractChannelBit(payload.in, index),
     output     |-> ExtractChannelBit(payload.out, index),
     diagnostic |-> ExtractChannelBit(payload.inversed, index)]

-----------------------------------------------------------------------------
(* What a triplet means.  *)

Key(t) == <<t.input, t.output, t.diagnostic>>

FaultTypeOf(t) ==
    CASE Key(t) \in {<<0, 0, 1>>, <<1, 1, 1>>} -> "none"
      [] Key(t) \in {<<0, 1, 0>>, <<1, 1, 0>>} -> "break"
      [] Key(t) = <<1, 0, 0>>                  -> "short"
      [] OTHER                                 -> "unknown"

DecodeChannelState(t) ==
    LET kind == FaultTypeOf(t)
    IN  [status    |-> CASE kind = "none"               -> "normal"
                         [] kind \in {"break", "short"} -> "fault"
                         [] OTHER                       -> "unknown",
         fault     |-> kind \in {"break", "short"},
         faultType |-> kind,
         yellowLed |-> kind = "break" \/ (kind = "none" /\ t.input = 1),
         redLed    |-> kind \in {"break", "short"}]

-----------------------------------------------------------------------------
(* The part of a ChannelState that later code compares. *)

Channel == [bits : Triplet, status : Status, isFault : BOOLEAN]

\* (Mutant: the status code takes the place of the status.)
DecodedCode(t) ==
    [bits    |-> t,
     status  |-> DecodeChannelState(t).faultType,
     isFault |-> DecodeChannelState(t).fault]

Decoded(t) ==
    [bits    |-> t,
     status  |-> DecodeChannelState(t).status,
     isFault |-> DecodeChannelState(t).fault]

\* A channel nothing has been received for yet.
Inactive ==
    [bits    |-> [input |-> 0, output |-> 0, diagnostic |-> 0],
     status  |-> "inactive",
     isFault |-> FALSE]

=============================================================================
