----------------------------- MODULE BoardIngest -----------------------------
(***************************************************************************)
(* The whole path of a telemetry message, byte by byte: decode_board_payload*)
(* on the real signal map, apply_board_update, and the aggregates of the   *)
(* snapshot.  BridgeRuntime treats a reading as any choice of triplets;    *)
(* here the readings are those the bytes of a payload can give.            *)
(***************************************************************************)
EXTENDS StateSummary

CONSTANTS
    SignalMap,   \* per entry of signal_map.json: module, source topic, index
    Topics,      \* the values MQTT_TOPIC_STATE may have in a deployment
    QL6CTopic,   \* the topic of the board wired as QL6C
    Payloads     \* the payloads the board may send

\* The entries of the board wired as QL6C, which is decoded apart: only
\* channels "6" .. "D" have a descriptor, its other entries are never decoded.
IsQL6C(entry) == entry.module = "QL6C" /\ entry.topic = QL6CTopic
IsDescriptor(entry) == IsQL6C(entry) /\ entry.index \in QL6CIndexes

ASSUME IngestAssumption ==
    /\ IsFiniteSet(Channels)
    /\ Channels = {c \in DOMAIN SignalMap :
                      IsDescriptor(SignalMap[c]) \/ ~IsQL6C(SignalMap[c])}
    /\ \A c \in Channels : SignalMap[c].module = ModuleOf[c] /\ SignalMap[c].index \in Nat
    /\ Payloads \subseteq Payload

\* How signal_map.json wires the boards.  The code relies on it and does not
\* check it: a topic carries one module, no two channels of a topic have the
\* same index, a straight index is a bit of a byte, and on QL6CTopic there are
\* the eight descriptors and nothing else.
ASSUME WiringAssumption ==
    /\ \A c, d \in Channels : SignalMap[c].topic = SignalMap[d].topic =>
          /\ ModuleOf[c] = ModuleOf[d]
          /\ SignalMap[c].index = SignalMap[d].index => c = d
    /\ \A c \in Channels : SignalMap[c].topic # QL6CTopic => SignalMap[c].index \in 0 .. 7
    /\ \A c \in Channels : SignalMap[c].topic = QL6CTopic => IsDescriptor(SignalMap[c])
    /\ \A i \in QL6CIndexes : \E c \in Channels :
          SignalMap[c].topic = QL6CTopic /\ SignalMap[c].index = i

VARIABLES
    topic,     \* settings.mqtt_topic_state: all telemetry comes on it
    payload    \* _last_board_payload: None before the first message

vars == <<storeVars, topic, payload>>

NoPayload == [in |-> -1, out |-> -1, inversed |-> -1]

TypeOK ==
    /\ StoreTypeOK
    /\ topic \in Topics
    /\ payload \in Payloads \cup {NoPayload}

Init == StoreInit /\ topic \in Topics /\ payload = NoPayload

-----------------------------------------------------------------------------

\* The QL6C descriptors are decoded first and with their own wiring, then the
\* rest of the signal map; both only for channels of the message's topic.
MappedChannels == {c \in Channels : SignalMap[c].topic = topic}

Triplets(p) ==
    [c \in MappedChannels |->
        IF IsDescriptor(SignalMap[c])
        THEN QL6CTriplet(SignalMap[c].index, p)
        ELSE LegacyTriplet(SignalMap[c].index, p)]

\* process_board_payload: the payload is remembered for the debug report even
\* when none of its topic's channels is mapped, which ends the task.
Receive(p) ==
    /\ payload' = p
    /\ UNCHANGED topic
    /\ IF MappedChannels = {} THEN UNCHANGED storeVars
       ELSE ApplyBoardUpdate(Triplets(p))

Next == \E p \in Payloads : Receive(p)

Spec == Init /\ [][Next]_vars

-----------------------------------------------------------------------------

\* The wires that lead to channels, with their values in a payload: all 24 for
\* the QL6C board, those of the mapped indexes for any other.
Lines == IF topic = QL6CTopic THEN 0 .. 7 ELSE {SignalMap[c].index : c \in MappedChannels}
Wires(p) == [w \in {"in", "out", "inversed"} \X Lines |-> GetBit(p[w[1]], w[2])]

\* What the mapped channels show.
Shown ==
    [k \in MappedChannels \X {"input", "output", "diagnostic"} |-> channels[k[1]].bits[k[2]]]

\* How many values two functions on the same domain differ in.
Distance(f, g) == Cardinality({x \in DOMAIN f : f[x] # g[x]})

\* Every wire of the board drives exactly one bit of exactly one channel: two
\* payloads differ in as many wires as their channels differ in bits, so no
\* wire is dropped, doubled or shared by the reversed and direct numberings.
EveryWireHasItsBit ==
    [][payload # NoPayload =>
          Distance(Wires(payload), Wires(payload')) = Distance(Shown, Shown')]_vars

\* A page shows the worst of all its channels, although it is merged from
\* module statuses that have already lost the counts: an error if any channel
\* is at fault, else unknown if any is, else normal if any is.
PageShowsWorstChannel ==
    \A page \in DOMAIN Groups :
        LET seen == {channels[c].status : c \in {d \in Channels : ModuleOf[d] \in Groups[page]}}
        IN  PageStatus(page) = CASE "fault" \in seen   -> "error"
                                 [] "fault" \notin seen /\ "unknown" \in seen -> "unknown"
                                 [] seen \cap {"fault", "unknown"} = {} /\ "normal" \in seen -> "normal"
                                 [] OTHER -> "inactive"

\* The summary line takes its status from the module of the last payload and
\* its counts from every channel of every module; they never contradict each
\* other, because all the telemetry of a deployment comes on one topic and a
\* topic carries one module.
SummaryMatchesCounts ==
    /\ SummaryStatus = "error"   <=> Count("fault") > 0
    /\ SummaryStatus = "unknown" <=> Count("fault") = 0 /\ Count("unknown") > 0
    /\ SummaryStatus = "normal"
         <=> Count("fault") + Count("unknown") = 0 /\ Count("normal") > 0

=============================================================================
