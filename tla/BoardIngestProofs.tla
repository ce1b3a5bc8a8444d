------------------------- MODULE BoardIngestProofs -------------------------
(***************************************************************************)
(* Proofs about module BoardIngest: its types, the aggregates of the       *)
(* snapshot, and the wiring, for every signal map and every payload.       *)
(***************************************************************************)
EXTENDS BoardIngest, FunctionTheorems, FiniteSetTheorems, TLAPS

-----------------------------------------------------------------------------
(* The decoder *)

LEMMA BitType ==
  ASSUME NEW b \in Byte, NEW i \in 0 .. 7
  PROVE  GetBit(b, i) \in Bit
<1>1. i = 0 \/ i = 1 \/ i = 2 \/ i = 3 \/ i = 4 \/ i = 5 \/ i = 6 \/ i = 7
  OBVIOUS
<1>2. (b \div 2^i) % 2 \in {0, 1}
  BY <1>1 DEF Byte
<1> QED
  BY <1>2 DEF GetBit, Bit

LEMMA QL6CTripletType ==
  ASSUME NEW i \in QL6CIndexes, NEW p \in Payload
  PROVE  QL6CTriplet(i, p) \in Triplet
<1>1. /\ InBitIndex(i) \in 0 .. 7
      /\ OutBitIndex(i) \in 0 .. 7
      /\ DiagBitIndex(i) \in 0 .. 7
  BY DEF QL6CIndexes, InBitIndex, OutBitIndex, DiagBitIndex
<1>2. p.in \in Byte /\ p.out \in Byte /\ p.inversed \in Byte
  BY DEF Payload
<1>3. /\ GetBit(p.in, InBitIndex(i)) \in Bit
      /\ GetBit(p.out, OutBitIndex(i)) \in Bit
      /\ GetBit(p.inversed, DiagBitIndex(i)) \in Bit
  BY <1>1, <1>2, BitType
<1> QED
  BY <1>3 DEF QL6CTriplet, Triplet

\* A straight index past the byte reads as 0, so any natural is decoded.
LEMMA LegacyTripletType ==
  ASSUME NEW i \in Nat, NEW p \in Payload
  PROVE  LegacyTriplet(i, p) \in Triplet
<1>1. p.in \in Byte /\ p.out \in Byte /\ p.inversed \in Byte
  BY DEF Payload
<1>2. /\ ExtractChannelBit(p.in, i) \in Bit
      /\ ExtractChannelBit(p.out, i) \in Bit
      /\ ExtractChannelBit(p.inversed, i) \in Bit
  <2>1. CASE i \in 0 .. 7
    BY <1>1, <2>1, BitType DEF ExtractChannelBit
  <2>2. CASE i \notin 0 .. 7
    BY <2>2 DEF ExtractChannelBit, Bit
  <2> QED
    BY <2>1, <2>2
<1> QED
  BY <1>2 DEF LegacyTriplet, Triplet

\* What a triplet decodes to: its own bits, and never "inactive".
LEMMA DecodedIs ==
  ASSUME NEW t \in Triplet
  PROVE  /\ Decoded(t) \in Channel
         /\ Decoded(t).bits = t
         /\ Decoded(t).status \in {"normal", "fault", "unknown"}
<1>1. DecodeChannelState(t).status \in {"normal", "fault", "unknown"}
  BY DEF DecodeChannelState
<1>2. DecodeChannelState(t).fault \in BOOLEAN
  BY DEF DecodeChannelState
<1>3. /\ Decoded(t).bits = t
      /\ Decoded(t).status = DecodeChannelState(t).status
  BY DEF Decoded
<1>4. DecodeChannelState(t).status \in Status
  BY <1>1 DEF Status
<1>5. Decoded(t) \in Channel
  BY <1>2, <1>4 DEF Decoded, Channel
<1> QED
  BY <1>1, <1>3, <1>5

LEMMA InactiveType == Inactive \in Channel
  BY DEF Inactive, Channel, Triplet, Bit, Status

-----------------------------------------------------------------------------
(* Types *)

LEMMA TripletsType ==
  ASSUME NEW p \in Payloads, NEW c \in MappedChannels
  PROVE  c \in Channels /\ Triplets(p)[c] \in Triplet
<1>1. c \in Channels /\ p \in Payload /\ SignalMap[c].index \in Nat
  BY IngestAssumption DEF MappedChannels
<1>2. CASE IsDescriptor(SignalMap[c])
  BY <1>1, <1>2, QL6CTripletType DEF IsDescriptor, Triplets
<1>3. CASE ~IsDescriptor(SignalMap[c])
  BY <1>1, <1>3, LegacyTripletType DEF Triplets
<1> QED
  BY <1>1, <1>2, <1>3

\* What a message does to the channels: those of its topic are decoded from
\* its bytes, the others keep what they had.
LEMMA ReceiveIs ==
  ASSUME TypeOK, NEW p \in Payloads, Receive(p)
  PROVE  /\ payload' = p /\ topic' = topic /\ act' = act
         /\ DOMAIN channels' = DOMAIN channels
         /\ \A c \in MappedChannels : channels'[c] = Decoded(Triplets(p)[c])
         /\ \A c \in Channels \ MappedChannels : channels'[c] = channels[c]
         /\ MappedChannels = {} => module' = module
         /\ MappedChannels # {} => \E c \in MappedChannels : module' = ModuleOf[c]
<1>1. channels \in [Channels -> Channel] /\ MappedChannels \subseteq Channels
  BY DEF TypeOK, StoreTypeOK, MappedChannels
<1>2. payload' = p /\ topic' = topic
  BY DEF Receive
<1>3. CASE MappedChannels = {}
  BY <1>2, <1>3 DEF Receive, storeVars
<1>4. CASE MappedChannels # {}
  <2>1. ApplyBoardUpdate(Triplets(p))
    BY <1>4 DEF Receive
  <2>2. DOMAIN Triplets(p) = MappedChannels
    BY DEF Triplets
  <2>3. channels' = [c \in Channels |->
                       IF c \in MappedChannels THEN Decoded(Triplets(p)[c])
                                               ELSE channels[c]]
    BY <2>1, <2>2 DEF ApplyBoardUpdate
  <2>4. act' = act /\ \E c \in MappedChannels : module' = ModuleOf[c]
    BY <2>1, <2>2 DEF ApplyBoardUpdate
  <2> QED
    BY <1>1, <1>2, <1>4, <2>3, <2>4
<1> QED
  BY <1>3, <1>4

LEMMA TypeStep == TypeOK /\ [Next]_vars => TypeOK'
<1> SUFFICES ASSUME TypeOK, [Next]_vars PROVE TypeOK'
  OBVIOUS
<1>1. CASE UNCHANGED vars
  BY <1>1 DEF vars, storeVars, TypeOK, StoreTypeOK
<1>2. ASSUME NEW p \in Payloads, Receive(p) PROVE TypeOK'
  <2>1. \A c \in MappedChannels : c \in Channels /\ channels'[c] \in Channel
    BY <1>2, ReceiveIs, TripletsType, DecodedIs
  <2>2. \A c \in Channels \ MappedChannels : channels'[c] \in Channel
    BY <1>2, ReceiveIs DEF TypeOK, StoreTypeOK
  <2>3. channels' \in [Channels -> Channel]
    <3>1. CASE MappedChannels = {}
      BY <1>2, <3>1 DEF Receive, storeVars, TypeOK, StoreTypeOK
    <3>2. CASE MappedChannels # {}
      <4>1. ApplyBoardUpdate(Triplets(p))
        BY <1>2, <3>2 DEF Receive
      <4>2. channels' = [c \in Channels |-> channels'[c]]
        BY <4>1 DEF ApplyBoardUpdate
      <4> QED
        BY <2>1, <2>2, <4>2
    <3> QED
      BY <3>1, <3>2
  <2>4. module' \in Modules \cup {"none"}
    BY <1>2, <2>1, ReceiveIs DEF TypeOK, StoreTypeOK, Modules
  <2> QED
    BY <1>2, <2>3, <2>4, ReceiveIs DEF TypeOK, StoreTypeOK
<1> QED
  BY <1>1, <1>2 DEF Next

\* The channels, the module and the remembered payload have their types, for
\* every signal map and every payload of bytes: each bit the decoder takes is
\* a bit of the byte.
THEOREM TypeCorrect == Spec => []TypeOK
<1>1. Init => TypeOK
  BY InactiveType DEF Init, StoreInit, TypeOK, StoreTypeOK, Tifon
<1> QED
  BY <1>1, TypeStep, PTL DEF Spec

-----------------------------------------------------------------------------
(* The aggregates *)

\* _merge_status ranks the statuses: a fault or an error, then unknown, then
\* normal, then inactive.
LEMMA MergeRanks ==
  ASSUME NEW S, S \subseteq Status \cup {"error"}
  PROVE  /\ MergeStatus(S) \in {"error", "unknown", "normal", "inactive"}
         /\ MergeStatus(S) = "error" <=> S \cap {"fault", "error"} # {}
         /\ MergeStatus(S) = "unknown"
              <=> S \cap {"fault", "error"} = {} /\ "unknown" \in S
         /\ MergeStatus(S) = "normal"
              <=> S \cap {"fault", "error", "unknown"} = {} /\ "normal" \in S
<1>1. CASE S \cap {"fault", "error"} # {}
  BY <1>1 DEF MergeStatus
<1>2. CASE S \cap {"fault", "error"} = {} /\ S \subseteq {"inactive"}
  BY <1>2 DEF MergeStatus
<1>3. CASE S \cap {"fault", "error"} = {} /\ ~(S \subseteq {"inactive"}) /\ "unknown" \in S
  BY <1>3 DEF MergeStatus
<1>4. CASE S \cap {"fault", "error"} = {} /\ ~(S \subseteq {"inactive"}) /\ "unknown" \notin S
  <2>1. S \subseteq {"normal", "inactive"} /\ "normal" \in S
    BY <1>4 DEF Status
  <2> QED
    BY <1>4, <2>1 DEF MergeStatus
<1> QED
  BY <1>1, <1>2, <1>3, <1>4

\* A module's status is the worst of its channels'.
LEMMA ModuleShowsWorst ==
  ASSUME TypeOK, NEW m
  PROVE  /\ ModuleStatus(m) \in {"error", "unknown", "normal", "inactive"}
         /\ ModuleStatus(m) = "error"
              <=> \E c \in Channels : ModuleOf[c] = m /\ channels[c].status = "fault"
         /\ ModuleStatus(m) = "unknown"
              <=> /\ ~\E c \in Channels : ModuleOf[c] = m /\ channels[c].status = "fault"
                  /\ \E c \in Channels : ModuleOf[c] = m /\ channels[c].status = "unknown"
         /\ ModuleStatus(m) = "normal"
              <=> /\ ~\E c \in Channels : ModuleOf[c] = m
                                           /\ channels[c].status \in {"fault", "unknown"}
                  /\ \E c \in Channels : ModuleOf[c] = m /\ channels[c].status = "normal"
<1> DEFINE S == {channels[c].status : c \in {d \in Channels : ModuleOf[d] = m}}
<1>1. \A c \in Channels : channels[c].status \in Status
  BY DEF TypeOK, StoreTypeOK, Channel
<1>2. \A s : s \in S <=> \E c \in Channels : ModuleOf[c] = m /\ channels[c].status = s
  OBVIOUS
<1>3. S \subseteq Status
  BY <1>1
<1>4. ModuleStatus(m) = MergeStatus(S)
  BY DEF ModuleStatus
<1>5. "error" \notin S
  BY <1>3 DEF Status
<1> HIDE DEF S
<1> QED
  BY <1>2, <1>3, <1>4, <1>5, MergeRanks

\* A page merges module statuses that have lost their counts, and still shows
\* the worst of all its channels: the ranks of _merge_status survive merging
\* twice, also on pages with modules that have no channel.
LEMMA PagesShowWorst == TypeOK => PageShowsWorstChannel
<1> SUFFICES ASSUME TypeOK, NEW page \in DOMAIN Groups
             PROVE  LET seen == {channels[c].status :
                                   c \in {d \in Channels : ModuleOf[d] \in Groups[page]}}
                    IN  PageStatus(page) =
                          CASE "fault" \in seen   -> "error"
                            [] "fault" \notin seen /\ "unknown" \in seen -> "unknown"
                            [] seen \cap {"fault", "unknown"} = {} /\ "normal" \in seen -> "normal"
                            [] OTHER -> "inactive"
  BY DEF PageShowsWorstChannel
<1> DEFINE seen == {channels[c].status : c \in {d \in Channels : ModuleOf[d] \in Groups[page]}}
           S    == {ModuleStatus(m) : m \in Groups[page]}
<1>1. \A s : s \in seen <=> \E c \in Channels : ModuleOf[c] \in Groups[page] /\ channels[c].status = s
  OBVIOUS
<1>2. \A s : s \in S <=> \E m \in Groups[page] : ModuleStatus(m) = s
  OBVIOUS
<1>3. S \subseteq {"error", "unknown", "normal", "inactive"}
  BY ModuleShowsWorst
<1>4. PageStatus(page) = MergeStatus(S)
  BY DEF PageStatus
<1> HIDE DEF seen, S
<1>5. "error" \in S <=> "fault" \in seen
  BY <1>1, <1>2, ModuleShowsWorst
<1>6. "fault" \notin seen => ("unknown" \in S <=> "unknown" \in seen)
  BY <1>1, <1>2, ModuleShowsWorst
<1>7. "fault" \notin seen /\ "unknown" \notin seen => ("normal" \in S <=> "normal" \in seen)
  BY <1>1, <1>2, ModuleShowsWorst
<1>8. /\ "fault" \notin S
      /\ S \subseteq Status \cup {"error"}
  BY <1>3 DEF Status
<1>9. PageStatus(page) \in {"error", "unknown", "normal", "inactive"}
  BY <1>4, <1>8, MergeRanks
<1>10. PageStatus(page) = "error" <=> "fault" \in seen
  BY <1>4, <1>5, <1>8, MergeRanks
<1>11. PageStatus(page) = "unknown" <=> "fault" \notin seen /\ "unknown" \in seen
  BY <1>4, <1>5, <1>6, <1>8, MergeRanks
<1>12. PageStatus(page) = "normal"
         <=> "fault" \notin seen /\ "unknown" \notin seen /\ "normal" \in seen
  BY <1>4, <1>5, <1>6, <1>7, <1>8, MergeRanks
<1> QED
  BY <1>9, <1>10, <1>11, <1>12 DEF seen

\* Every page always shows the worst of its channels.
THEOREM PagesAreHonest == Spec => []PageShowsWorstChannel
<1>1. Spec => []TypeOK
  BY TypeCorrect
<1> QED
  BY <1>1, PagesShowWorst, PTL

-----------------------------------------------------------------------------
(* The summary line *)

\* All the telemetry of a deployment comes on one topic and a topic carries one
\* module: the channels that are not inactive are those of the last payload's
\* module.
OneModuleLives ==
    \A c \in Channels : channels[c].status # "inactive" =>
        c \in MappedChannels /\ module = ModuleOf[c]

LEMMA OneModuleStep == TypeOK /\ OneModuleLives /\ [Next]_vars => OneModuleLives'
<1> SUFFICES ASSUME TypeOK, OneModuleLives, [Next]_vars PROVE OneModuleLives'
  OBVIOUS
<1>1. CASE UNCHANGED vars
  BY <1>1 DEF vars, storeVars, OneModuleLives, MappedChannels
<1>2. ASSUME NEW p \in Payloads, Receive(p),
             NEW c \in Channels, channels'[c].status # "inactive"
      PROVE  c \in MappedChannels' /\ module' = ModuleOf[c]
  <2>1. topic' = topic /\ MappedChannels' = MappedChannels
    BY <1>2, ReceiveIs DEF MappedChannels
  <2>2. c \in MappedChannels
    BY <1>2, ReceiveIs DEF OneModuleLives
  <2>3. PICK d \in MappedChannels : module' = ModuleOf[d]
    BY <1>2, <2>2, ReceiveIs
  <2>4. ModuleOf[c] = ModuleOf[d]
    BY <2>2, WiringAssumption DEF MappedChannels
  <2> QED
    BY <2>1, <2>2, <2>3, <2>4
<1> QED
  BY <1>1, <1>2 DEF Next, OneModuleLives

LEMMA CountIsPositive ==
  ASSUME NEW status
  PROVE  /\ Count(status) \in Nat
         /\ Count(status) > 0 <=> \E c \in Channels : channels[c].status = status
<1> DEFINE S == {c \in Channels : channels[c].status = status}
<1>1. IsFiniteSet(S)
  BY IngestAssumption, FS_Subset
<1>2. Cardinality(S) \in Nat /\ (Cardinality(S) = 0 <=> S = {})
  BY <1>1, FS_CardinalityType, FS_EmptySet
<1> QED
  BY <1>2 DEF Count

LEMMA SummaryIs == TypeOK /\ OneModuleLives => SummaryMatchesCounts
<1> SUFFICES ASSUME TypeOK, OneModuleLives PROVE SummaryMatchesCounts
  OBVIOUS
<1> DEFINE Has(s) == \E c \in Channels : channels[c].status = s
<1>1. /\ SummaryStatus = "error" <=> Has("fault")
      /\ SummaryStatus = "unknown" <=> ~Has("fault") /\ Has("unknown")
      /\ SummaryStatus = "normal" <=> ~Has("fault") /\ ~Has("unknown") /\ Has("normal")
  <2>1. CASE module \in Modules
    <3>1. SummaryStatus = ModuleStatus(module)
      BY <2>1 DEF SummaryStatus
    <3>2. \A s \in {"fault", "unknown", "normal"} : 
            Has(s) <=> \E c \in Channels : ModuleOf[c] = module /\ channels[c].status = s
      BY DEF OneModuleLives
    <3> QED
      BY <3>1, <3>2, ModuleShowsWorst
  <2>2. CASE module \notin Modules
    <3> DEFINE S == {ModuleStatus(m) : m \in Modules}
    <3>1. SummaryStatus = MergeStatus(S)
      BY <2>2 DEF SummaryStatus
    <3>2. \A c \in Channels : channels[c].status = "inactive"
      BY <2>2 DEF OneModuleLives, Modules
    <3>3. S \subseteq {"inactive"}
      BY <3>2, ModuleShowsWorst
    <3> HIDE DEF S
    <3>4. S \subseteq Status \cup {"error"}
      BY <3>3 DEF Status
    <3>5. SummaryStatus \notin {"error", "unknown", "normal"}
      BY <3>1, <3>3, <3>4, MergeRanks
    <3> QED
      BY <3>2, <3>5
  <2> QED
    BY <2>1, <2>2
<1>2. /\ Count("fault") \in Nat /\ (Count("fault") > 0 <=> Has("fault"))
      /\ Count("unknown") \in Nat /\ (Count("unknown") > 0 <=> Has("unknown"))
      /\ Count("normal") \in Nat /\ (Count("normal") > 0 <=> Has("normal"))
  BY CountIsPositive
<1> HIDE DEF Has
<1>3. Count("fault") = 0 <=> ~Has("fault")
  BY <1>2
<1>4. Count("fault") + Count("unknown") = 0 <=> ~Has("fault") /\ ~Has("unknown")
  BY <1>2
<1> QED
  BY <1>1, <1>2, <1>3, <1>4 DEF SummaryMatchesCounts

\* The summary line, which looks at one module, never contradicts the counts,
\* which look at every channel.
THEOREM SummaryIsHonest == Spec => []SummaryMatchesCounts
<1>1. Init => OneModuleLives
  BY DEF Init, StoreInit, Inactive, OneModuleLives
<1>2. Spec => []TypeOK
  BY TypeCorrect
<1> QED
  BY <1>1, <1>2, OneModuleStep, SummaryIs, PTL DEF Spec

-----------------------------------------------------------------------------
(* The wiring *)

\* The channels of the topic show the bits the last payload has for them.
ShowsPayload ==
    payload # NoPayload =>
        \A c \in MappedChannels : channels[c].bits = Triplets(payload)[c]

LEMMA ShowsStep == TypeOK /\ ShowsPayload /\ [Next]_vars => ShowsPayload'
<1> SUFFICES ASSUME TypeOK, ShowsPayload, [Next]_vars PROVE ShowsPayload'
  OBVIOUS
<1>1. CASE UNCHANGED vars
  BY <1>1 DEF vars, storeVars, ShowsPayload, MappedChannels, Triplets
<1>2. ASSUME NEW p \in Payloads, Receive(p)
      PROVE  ShowsPayload'
  <2>1. payload' = p /\ MappedChannels' = MappedChannels /\ Triplets(p)' = Triplets(p)
    BY <1>2, ReceiveIs DEF MappedChannels, Triplets
  <2>2. \A c \in MappedChannels : channels'[c].bits = Triplets(p)[c]
    BY <1>2, ReceiveIs, TripletsType, DecodedIs
  <2> QED
    BY <2>1, <2>2 DEF ShowsPayload, MappedChannels, Triplets
<1> QED
  BY <1>1, <1>2 DEF Next

\* The wire that drives a bit of a channel.
Side(part) == CASE part = "input"      -> "in"
                [] part = "output"     -> "out"
                [] part = "diagnostic" -> "inversed"

Line(c, part) ==
    IF ~IsDescriptor(SignalMap[c]) THEN SignalMap[c].index
    ELSE IF part = "output" THEN OutBitIndex(SignalMap[c].index)
                            ELSE InBitIndex(SignalMap[c].index)

Parts == {"input", "output", "diagnostic"}
Wire  == [k \in MappedChannels \X Parts |-> <<Side(k[2]), Line(k[1], k[2])>>]

\* Every wire drives exactly one bit of exactly one channel.
LEMMA WireBijects ==
  /\ Wire \in [MappedChannels \X Parts -> {"in", "out", "inversed"} \X Lines]
  /\ \A j, k \in MappedChannels \X Parts : Wire[j] = Wire[k] => j = k
  /\ \A w \in {"in", "out", "inversed"} \X Lines :
        \E k \in MappedChannels \X Parts : Wire[k] = w
<1>1. \A c \in MappedChannels : c \in Channels /\ SignalMap[c].topic = topic
  BY DEF MappedChannels
<1>2. \A c, d \in MappedChannels : SignalMap[c].index = SignalMap[d].index => c = d
  BY <1>1, WiringAssumption
<1>3. \A s \in {"in", "out", "inversed"} : \E part \in Parts : Side(part) = s
  BY DEF Side, Parts
<1>4. \A part \in Parts : Side(part) \in {"in", "out", "inversed"}
  BY DEF Side, Parts
<1>5. \A part, other \in Parts : Side(part) = Side(other) => part = other
  BY DEF Side, Parts
<1> DEFINE LinesAreNumbered ==
             /\ \A c \in MappedChannels, part \in Parts : Line(c, part) \in Lines
             /\ \A c, d \in MappedChannels, part \in Parts : Line(c, part) = Line(d, part) => c = d
             /\ \A l \in Lines, part \in Parts : \E c \in MappedChannels : Line(c, part) = l
<1>6. ASSUME topic = QL6CTopic PROVE LinesAreNumbered
  <2>1. Lines = 0 .. 7
    BY <1>6 DEF Lines
  <2>2. \A c \in MappedChannels : IsDescriptor(SignalMap[c]) /\ SignalMap[c].index \in 6 .. 13
    BY <1>1, <1>6, WiringAssumption DEF IsDescriptor, QL6CIndexes
  <2>3. \A c \in MappedChannels, part \in Parts :
          Line(c, part) = IF part = "output" THEN SignalMap[c].index - 6
                                             ELSE 7 - (SignalMap[c].index - 6)
    BY <2>2 DEF Line, OutBitIndex, InBitIndex
  <2>4. \A i \in 6 .. 13 : \E c \in MappedChannels : SignalMap[c].index = i
    BY <1>6, WiringAssumption DEF MappedChannels, QL6CIndexes
  <2>5. \A c \in MappedChannels, part \in Parts : Line(c, part) \in 0 .. 7
    BY <2>2, <2>3
  <2>6. \A c, d \in MappedChannels, part \in Parts : Line(c, part) = Line(d, part) => c = d
    BY <1>2, <2>2, <2>3
  <2>7. \A l \in 0 .. 7, part \in Parts : \E c \in MappedChannels : Line(c, part) = l
    <3> SUFFICES ASSUME NEW l \in 0 .. 7, NEW part \in Parts
                 PROVE  \E c \in MappedChannels : Line(c, part) = l
      OBVIOUS
    <3>1. l + 6 \in 6 .. 13 /\ 13 - l \in 6 .. 13
      OBVIOUS
    <3>2. CASE part = "output"
      BY <2>3, <2>4, <3>1, <3>2
    <3>3. CASE part # "output"
      BY <2>3, <2>4, <3>1, <3>3
    <3> QED
      BY <3>2, <3>3
  <2> QED
    BY <2>1, <2>5, <2>6, <2>7
<1>7. ASSUME topic # QL6CTopic PROVE LinesAreNumbered
  <2>1. Lines = {SignalMap[c].index : c \in MappedChannels}
    BY <1>7 DEF Lines
  <2>2. \A c \in MappedChannels, part \in Parts : Line(c, part) = SignalMap[c].index
    BY <1>1, <1>7 DEF Line, IsDescriptor, IsQL6C
  <2> QED
    BY <1>2, <2>1, <2>2
<1>8. LinesAreNumbered
  BY <1>6, <1>7
<1>9. \A c \in MappedChannels, part \in Parts : Wire[<<c, part>>] = <<Side(part), Line(c, part)>>
  BY DEF Wire
<1>10. Wire \in [MappedChannels \X Parts -> {"in", "out", "inversed"} \X Lines]
  <2>1. ASSUME NEW c \in MappedChannels, NEW part \in Parts
        PROVE  Wire[<<c, part>>] \in {"in", "out", "inversed"} \X Lines
    <3>1. Side(part) \in {"in", "out", "inversed"} /\ Line(c, part) \in Lines
      BY <1>4, <1>8
    <3>2. Wire[<<c, part>>] = <<Side(part), Line(c, part)>>
      BY <1>9
    <3> QED
      BY <3>1, <3>2
  <2>2. \A k \in MappedChannels \X Parts : Wire[k] \in {"in", "out", "inversed"} \X Lines
    BY <2>1
  <2>3. Wire = [k \in MappedChannels \X Parts |-> Wire[k]]
    BY DEF Wire
  <2> QED
    BY <2>2, <2>3
<1>11. ASSUME NEW c \in MappedChannels, NEW part \in Parts,
              NEW d \in MappedChannels, NEW other \in Parts,
              Wire[<<c, part>>] = Wire[<<d, other>>]
       PROVE  c = d /\ part = other
  <2>1. Side(part) = Side(other) /\ Line(c, part) = Line(d, other)
    BY <1>9, <1>11
  <2>2. part = other
    BY <1>5, <2>1
  <2> QED
    BY <1>8, <2>1, <2>2
<1>12. ASSUME NEW s \in {"in", "out", "inversed"}, NEW l \in Lines
       PROVE  \E k \in MappedChannels \X Parts : Wire[k] = <<s, l>>
  <2>1. PICK part \in Parts : Side(part) = s
    BY <1>3
  <2>2. PICK c \in MappedChannels : Line(c, part) = l
    BY <1>8
  <2>3. Wire[<<c, part>>] = <<s, l>> /\ <<c, part>> \in MappedChannels \X Parts
    BY <1>9, <2>1, <2>2
  <2> QED
    BY <2>3
<1>13. \A j, k \in MappedChannels \X Parts : Wire[j] = Wire[k] => j = k
  BY <1>11
<1>14. \A w \in {"in", "out", "inversed"} \X Lines :
          \E k \in MappedChannels \X Parts : Wire[k] = w
  <2> SUFFICES ASSUME NEW w \in {"in", "out", "inversed"} \X Lines
               PROVE  \E k \in MappedChannels \X Parts : Wire[k] = w
    OBVIOUS
  <2>1. PICK s \in {"in", "out", "inversed"}, l \in Lines : w = <<s, l>>
    OBVIOUS
  <2> QED
    BY <1>12, <2>1
<1> QED
  BY <1>10, <1>13, <1>14

\* The decoder reads a channel's bit from the wire that drives it.
LEMMA WireCarries ==
  ASSUME NEW p \in Payloads, NEW c \in MappedChannels, NEW part \in Parts
  PROVE  Triplets(p)[c][part] = Wires(p)[Wire[<<c, part>>]]
<1>1. c \in Channels /\ SignalMap[c].topic = topic
  BY DEF MappedChannels
<1>2. <<c, part>> \in MappedChannels \X Parts
  OBVIOUS
<1>3. Wire[<<c, part>>] = <<Side(part), Line(c, part)>>
  BY <1>2 DEF Wire
<1>4. Wire[<<c, part>>] \in {"in", "out", "inversed"} \X Lines
  BY <1>2, WireBijects
<1>5. Wires(p)[Wire[<<c, part>>]] = GetBit(p[Side(part)], Line(c, part))
  BY <1>3, <1>4 DEF Wires
<1>6. Triplets(p)[c][part] = GetBit(p[Side(part)], Line(c, part))
  <2>1. CASE IsDescriptor(SignalMap[c])
    <3>1. Triplets(p)[c] = QL6CTriplet(SignalMap[c].index, p)
      BY <2>1 DEF Triplets
    <3> QED
      BY <2>1, <3>1 DEF QL6CTriplet, DiagBitIndex, Side, Line, Parts
  <2>2. CASE ~IsDescriptor(SignalMap[c])
    <3>1. Triplets(p)[c] = LegacyTriplet(SignalMap[c].index, p)
      BY <2>2 DEF Triplets
    <3>2. SignalMap[c].index \in 0 .. 7
      BY <1>1, <2>2, WiringAssumption
    <3> QED
      BY <2>2, <3>1, <3>2 DEF LegacyTriplet, ExtractChannelBit, Side, Line, Parts
  <2> QED
    BY <2>1, <2>2
<1> QED
  BY <1>5, <1>6

\* Functions that carry the same values along a bijection differ as much.
LEMMA SameDistance ==
  ASSUME NEW A, NEW B, IsFiniteSet(A), NEW w \in [A -> B],
         \A j, k \in A : w[j] = w[k] => j = k,
         \A x \in B : \E k \in A : w[k] = x,
         NEW f, NEW g, NEW F, NEW G,
         DOMAIN f = A, DOMAIN F = B,
         \A k \in A : f[k] = F[w[k]] /\ g[k] = G[w[k]]
  PROVE  Distance(F, G) = Distance(f, g)
<1> DEFINE D == {k \in A : f[k] # g[k]}
           E == {x \in B : F[x] # G[x]}
           v == [k \in D |-> w[k]]
<1>1. IsFiniteSet(D)
  BY FS_Subset
<1>2. v \in [D -> E]
  OBVIOUS
<1>3. \A j, k \in D : v[j] = v[k] => j = k
  OBVIOUS
<1>4. \A x \in E : \E k \in D : v[k] = x
  OBVIOUS
<1> HIDE DEF D, E, v
<1>5. ExistsBijection(D, E)
  BY <1>2, <1>3, <1>4, Fun_IsBij DEF ExistsBijection
<1>6. Cardinality(D) = Cardinality(E)
  BY <1>1, <1>5, FS_Bijection
<1> QED
  BY <1>6 DEF Distance, D, E

\* Two payloads differ in as many wires as the channels they are decoded to
\* differ in bits: no wire is dropped, doubled or shared.
THEOREM WiresAreFaithful == Spec => EveryWireHasItsBit
<1>1. ASSUME TypeOK, ShowsPayload, [Next]_vars, payload # NoPayload
      PROVE  Distance(Wires(payload), Wires(payload')) = Distance(Shown, Shown')
  <2> DEFINE A == MappedChannels \X Parts
             B == {"in", "out", "inversed"} \X Lines
  <2>1. payload \in Payloads /\ payload' \in Payloads
    <3>1. CASE UNCHANGED vars
      BY <1>1, <3>1 DEF vars, TypeOK
    <3>2. CASE Next
      BY <1>1, <3>2 DEF Next, Receive, TypeOK
    <3> QED
      BY <1>1, <3>1, <3>2
  <2>2. MappedChannels' = MappedChannels
    BY <1>1, ReceiveIs DEF Next, vars, MappedChannels
  <2>3. /\ TypeOK' /\ ShowsPayload' /\ payload' # NoPayload
    <3>1. \A p \in Payloads : p # NoPayload
      BY IngestAssumption DEF NoPayload, Payload, Byte
    <3> QED
      BY <1>1, <2>1, <3>1, TypeStep, ShowsStep
  <2>4. \A c \in MappedChannels : /\ channels[c].bits = Triplets(payload)[c]
                                 /\ channels'[c].bits = Triplets(payload')[c]
    BY <1>1, <2>2, <2>3 DEF ShowsPayload, Triplets
  <2>5. ASSUME NEW c \in MappedChannels, NEW part \in Parts
        PROVE  /\ Shown[<<c, part>>] = Wires(payload)[Wire[<<c, part>>]]
               /\ Shown'[<<c, part>>] = Wires(payload')[Wire[<<c, part>>]]
    <3>1. <<c, part>> \in MappedChannels \X {"input", "output", "diagnostic"}
      BY DEF Parts
    <3>2. /\ Shown[<<c, part>>] = channels[c].bits[part]
          /\ Shown'[<<c, part>>] = channels'[c].bits[part]
      BY <2>2, <3>1 DEF Shown
    <3> QED
      BY <2>1, <2>4, <3>2, WireCarries
  <2>6. IsFiniteSet(A)
    <3>1. IsFiniteSet(Parts)
      <4>1. IsFiniteSet({} \cup {"input"} \cup {"output"} \cup {"diagnostic"})
        BY FS_EmptySet, FS_AddElement
      <4> QED
        BY <4>1 DEF Parts
    <3>2. IsFiniteSet(MappedChannels)
      BY IngestAssumption, FS_Subset DEF MappedChannels
    <3> QED
      BY <3>1, <3>2, FS_Product
  <2>7. DOMAIN Shown = A /\ DOMAIN Wires(payload) = B
    BY DEF Shown, Wires, Parts
  <2>8. PICK f, g, F, G : f = Shown /\ g = Shown' /\ F = Wires(payload) /\ G = Wires(payload')
    OBVIOUS
  <2>9. PICK w : w = Wire
    OBVIOUS
  <2>10. \A k \in A : f[k] = F[w[k]] /\ g[k] = G[w[k]]
    BY <2>5, <2>8, <2>9
  <2>11. DOMAIN f = A /\ DOMAIN F = B
    BY <2>7, <2>8
  <2>12. /\ w \in [A -> B]
         /\ \A j, k \in A : w[j] = w[k] => j = k
         /\ \A x \in B : \E k \in A : w[k] = x
    BY <2>9, WireBijects
  <2> HIDE DEF A, B
  <2>13. Distance(F, G) = Distance(f, g)
    BY <2>6, <2>10, <2>11, <2>12, SameDistance
  <2> QED
    BY <2>8, <2>13
<1>2. Init => ShowsPayload
  BY DEF Init, ShowsPayload
<1>3. Spec => []TypeOK
  BY TypeCorrect
<1> QED
  BY <1>1, <1>2, <1>3, ShowsStep, PTL DEF Spec, EveryWireHasItsBit

=============================================================================
