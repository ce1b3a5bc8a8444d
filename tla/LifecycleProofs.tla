--------------------------- MODULE LifecycleProofs ---------------------------
(***************************************************************************)
(* Proofs about Lifecycle, for any number of processes and rows and any    *)
(* channels of the QL6C board.                                             *)
(***************************************************************************)
EXTENDS Lifecycle, WellFoundedInduction, TLAPS

-----------------------------------------------------------------------------
(* Lemmas about the operators *)

\* Channels are numbered, so a batch of them has a first one, and only one.
LEMMA FirstExists ==
  ASSUME NEW S \in SUBSET Channels, S # {}
  PROVE  \E c \in S : IsFirst(c, S)
<1>1. S \subseteq Nat
  BY ChannelsAssumption
<1>2. IsWellFoundedOn(OpToRel(<, Nat), Nat)
  BY NatLessThanWellFounded
<1>3. PICK c \in S : \A d \in S : ~(<<d, c>> \in OpToRel(<, Nat))
  BY <1>1, <1>2, WFMin
<1>4. \A d \in S : ~(d < c)
  BY <1>1, <1>3 DEF OpToRel
<1>5. \A d \in S : c <= d
  BY <1>1, <1>4
<1> QED
  BY <1>5 DEF IsFirst

LEMMA FirstUnique ==
  ASSUME NEW S \in SUBSET Channels, NEW c, NEW d, IsFirst(c, S), IsFirst(d, S)
  PROVE  c = d
  BY ChannelsAssumption DEF IsFirst

\* The bits of a mock payload make a channel state.
LEMMA ReadingType ==
  ASSUME step \in 1 .. 4, NEW c \in Channels
  PROVE  Decoded(QL6CTriplet(c, MockSteps[step])) \in Channel
<1>1. /\ MockSteps[step].in \in Nat
      /\ MockSteps[step].out \in Nat
      /\ MockSteps[step].inversed \in Nat
  BY DEF MockSteps
<1>2. c \in 6 .. 13
  BY LifecycleChannels DEF QL6CIndexes
<1>3. \A x \in Nat, i \in 0 .. 7 : GetBit(x, i) \in Bit
  BY DEF GetBit, Bit
<1>4. InBitIndex(c) \in 0 .. 7 /\ OutBitIndex(c) \in 0 .. 7 /\ DiagBitIndex(c) \in 0 .. 7
  BY <1>2 DEF InBitIndex, OutBitIndex, DiagBitIndex
<1>5. QL6CTriplet(c, MockSteps[step]) \in Triplet
  BY <1>1, <1>3, <1>4 DEF QL6CTriplet, Triplet
<1>6. \A t \in Triplet : FaultTypeOf(t) \in FaultType
  BY DEF FaultTypeOf, FaultType
<1>7. \A t \in Triplet : /\ DecodeChannelState(t).status \in Status
                         /\ DecodeChannelState(t).fault \in BOOLEAN
  BY <1>6 DEF DecodeChannelState, Status, FaultType
<1> QED
  BY <1>5, <1>7 DEF Decoded, Channel

\* A log that grew by one row.
LEMMA RowAppended ==
  ASSUME rows \in Seq(Row), NEW r \in Row, rows' = Append(rows, r)
  PROVE  /\ rows' \in Seq(Row)
         /\ Len(rows) \in Nat /\ Len(rows') = Len(rows) + 1
         /\ rows'[Len(rows) + 1] = r
         /\ \A i \in 1 .. Len(rows) : rows'[i] = rows[i] /\ i \in 1 .. Len(rows')
         /\ \A i \in 1 .. Len(rows') : i \in 1 .. Len(rows) \/ i = Len(rows) + 1
  OBVIOUS

-----------------------------------------------------------------------------
(* Types *)

\* Until the services start there is nothing but lifespan.
Before == {"down", "tables", "admin", "started"}

\* Which activities there are in which phase, and what start-up has achieved.
PhaseInv ==
    /\ phase # "down" => boot # 0
    /\ writing["main"] # "idle" <=> phase \in {"started", "mock_enabled"}
    /\ writing["mock"] # "idle" <=> loop = "rows"
    /\ left # {} <=> loop = "rows"
    /\ writing["job"] # "idle" => client # "none"
    /\ phase \in Before => loop = "none"
    /\ phase \in Before \cup {"mock_enabled"} => client = "none"
    /\ cancelled # {} => phase \in Shutdown \cup {"exiting"}
    /\ phase \notin {"down", "exiting"} => database
    /\ phase \notin {"down", "tables"} => tables
    /\ phase \notin {"down", "tables", "admin"} => admins = 1

\* All that is written is a row.
LEMMA NextRowType ==
  ASSUME TypeOK, PhaseInv, NEW w \in Writer, writing[w] = "commit"
  PROVE  NextRow(w) \in Row
<1>1. boot \in 1 .. MaxBoots
  BY DEF TypeOK, PhaseInv, Writer, Before
<1>2. CASE w = "main"
  BY <1>1, <1>2 DEF NextRow, Event, Row, PhaseInv
<1>3. CASE w = "job"
  BY <1>1, <1>3 DEF NextRow, Event, Row
<1>4. CASE w = "mock"
  <2>1. left \in SUBSET Channels /\ left # {}
    BY <1>4 DEF TypeOK, PhaseInv
  <2>2. (CHOOSE c \in left : IsFirst(c, left)) \in left
    BY <2>1, FirstExists
  <2>3. \A c \in left : StateChange(c) \in Row
    <3>1. \A c \in left : /\ c \in Channels /\ before[c] \in Status
                          /\ channels[c].status \in Status
      BY <2>1 DEF TypeOK, StoreTypeOK, Channel
    <3> QED
      BY <1>1, <3>1 DEF StateChange, Row
  <2> QED
    BY <1>4, <2>2, <2>3 DEF NextRow
<1> QED
  BY <1>2, <1>3, <1>4 DEF Writer

LEMMA InitType == Init => TypeOK /\ PhaseInv
<1> SUFFICES ASSUME Init PROVE TypeOK /\ PhaseInv
  OBVIOUS
<1>1. Inactive \in Channel
  BY DEF Inactive, Channel, Triplet, Bit, Status
<1>2. StoreTypeOK
  BY <1>1 DEF Init, StoreInit, StoreTypeOK, Tifon
<1>3. before \in [Channels -> Status]
  BY <1>2 DEF Init, Statuses, StoreTypeOK, Channel
<1>4. rows \in Seq(Row) /\ boot \in 0 .. MaxBoots
  BY LifecycleBounds DEF Init
<1>5. TypeOK
  <2>1. mockMode \in BOOLEAN /\ tables \in BOOLEAN /\ database \in BOOLEAN
    BY Zenon DEF Init
  <2>2. writing \in [Writer -> {"idle", "commit", "refresh"}]
    BY DEF Init
  <2> QED
    BY <1>2, <1>3, <1>4, <2>1, <2>2 DEF Init, TypeOK
<1>6. PhaseInv
  BY DEF Init, PhaseInv, Before, Writer, Shutdown
<1> QED
  BY <1>5, <1>6

\* The mock payload, which is read on all channels.
LEMMA MockPayloadType ==
  ASSUME TypeOK, MockPayload
  PROVE  /\ StoreTypeOK'
         /\ left' \in SUBSET Channels
         /\ before' = Statuses /\ before' \in [Channels -> Status]
         /\ \A c \in Channels : c \notin left' => channels'[c] = channels[c]
<1> DEFINE reading == [c \in Channels |-> QL6CTriplet(c, MockSteps[step])]
<1>1. /\ left' = Changed(reading)
      /\ before' = Statuses
      /\ ApplyBoardUpdate(reading)
  BY DEF MockPayload
<1>2. DOMAIN reading = Channels /\ \A c \in Channels : Decoded(reading[c]) \in Channel
  BY ReadingType DEF TypeOK
<1> HIDE DEF reading
<1>3. channels' = [c \in Channels |-> Decoded(reading[c])]
  BY <1>1, <1>2 DEF ApplyBoardUpdate
<1>4. channels' \in [Channels -> Channel]
  BY <1>2, <1>3
<1>5. module' \in Modules
  BY <1>1, <1>2 DEF ApplyBoardUpdate, IsFirst, Modules
<1>6. act' \in Tifon
  BY <1>1 DEF ApplyBoardUpdate, TypeOK, StoreTypeOK
<1>7. left' \in SUBSET Channels
      /\ \A c \in Channels : c \notin left' => channels'[c] = channels[c]
  BY <1>1, <1>2, <1>3 DEF Changed
<1>8. Statuses \in [Channels -> Status]
  BY DEF Statuses, TypeOK, StoreTypeOK, Channel
<1> QED
  BY <1>1, <1>4, <1>5, <1>6, <1>7, <1>8 DEF StoreTypeOK

LEMMA NextType == TypeOK /\ PhaseInv /\ [Next]_vars => TypeOK' /\ PhaseInv'
<1> SUFFICES ASSUME TypeOK, PhaseInv, [Next]_vars PROVE TypeOK' /\ PhaseInv'
  OBVIOUS
<1> USE DEF diskVars, loopVars, storeVars, Before, Shutdown
<1>0. StoreTypeOK /\ UNCHANGED storeVars => StoreTypeOK'
  BY DEF StoreTypeOK
<1>t. /\ TypeOK /\ PhaseInv
      /\ writing \in [Writer -> {"idle", "commit", "refresh"}]
      /\ "main" \in Writer /\ "mock" \in Writer /\ "job" \in Writer
  BY DEF TypeOK, Writer
<1>1. CASE Boot
  <2>1. boot' \in 0 .. MaxBoots /\ boot' # 0
    BY <1>1, LifecycleBounds DEF Boot, TypeOK
  <2>2. StoreTypeOK'
    <3>1. Inactive \in Channel
      BY DEF Inactive, Channel, Triplet, Bit, Status
    <3> QED
      BY <1>1, <3>1 DEF Boot, StoreTypeOK, Tifon
  <2>3. TypeOK'
    BY <1>1, <2>1, <2>2 DEF Boot, TypeOK, Startup
  <2> QED
    BY <1>1, <2>1, <2>3 DEF Boot, PhaseInv, Before
<1>2. CASE CreateTables
  <2>1. TypeOK'
    BY <1>0, <1>2 DEF CreateTables, TypeOK, Startup
  <2> QED
    BY <1>2, <2>1 DEF CreateTables, PhaseInv, Before
<1>3. CASE EnsureFirstAdmin
  <2>1. TypeOK'
    BY <1>0, <1>3, <1>t DEF EnsureFirstAdmin, TypeOK, Startup
  <2> QED
    BY <1>3, <1>t, <2>1 DEF EnsureFirstAdmin, PhaseInv, Before, TypeOK
<1>4. CASE MainRowDone
  <2>1. TypeOK'
    BY <1>0, <1>4, <1>t DEF MainRowDone, TypeOK, Startup
  <2> QED
    <3>1. CASE phase = "started" /\ mockMode
      BY <1>4, <1>t, <2>1, <3>1 DEF MainRowDone, PhaseInv
    <3>2. CASE ~(phase = "started" /\ mockMode)
      <4>1. phase \in {"started", "mock_enabled"} /\ cancelled = {}
        BY <1>4, <1>t DEF MainRowDone, PhaseInv
      <4>2. /\ phase' = "serving"
            /\ writing' = [writing EXCEPT !["main"] = "idle"]
            /\ UNCHANGED <<boot, loop, left, cancelled, database, tables, admins>>
        BY <1>4, <3>2 DEF MainRowDone
      <4>3. writing["job"] # "idle" => client' # "none"
        BY <1>4, <1>t, <3>2, <4>1 DEF MainRowDone, PhaseInv
      <4> QED
        BY <1>t, <2>1, <4>1, <4>2, <4>3 DEF PhaseInv
    <3> QED
      BY <3>1, <3>2
<1>5. ASSUME NEW w \in Writer, Commit(w) PROVE TypeOK' /\ PhaseInv'
  <2>1. rows' \in Seq(Row)
    BY <1>5, NextRowType DEF Commit, TypeOK
  <2>2. TypeOK'
    BY <1>0, <1>5, <1>t, <2>1 DEF Commit, TypeOK
  <2>3. \A v \in Writer : writing'[v] # "idle" <=> writing[v] # "idle"
    BY <1>5, <1>t DEF Commit
  <2> QED
    BY <1>5, <1>t, <2>2, <2>3 DEF Commit, PhaseInv
<1>6. CASE MockPayload
  <2>1. TypeOK'
    BY <1>6, <1>t, MockPayloadType DEF MockPayload, TypeOK
  <2> QED
    BY <1>6, <1>t, <2>1 DEF MockPayload, LoopActs, PhaseInv, Before
<1>7. CASE MockRowDone
  <2>1. left' \in SUBSET Channels
    BY <1>7 DEF MockRowDone, TypeOK
  <2>2. TypeOK'
    BY <1>0, <1>7, <1>t, <2>1 DEF MockRowDone, TypeOK
  <2> QED
    BY <1>7, <1>t, <2>2 DEF MockRowDone, LoopActs, PhaseInv, Before
<1>8. CASE MockRowFails \/ MockCancelled
  <2>1. TypeOK'
    <3>1. CASE MockRowFails
      BY <1>0, <1>t, <3>1 DEF MockRowFails, TypeOK
    <3>2. CASE MockCancelled
      BY <1>0, <1>t, <3>2 DEF MockCancelled, TypeOK
    <3> QED
      BY <1>8, <3>1, <3>2
  <2> QED
    BY <1>8, <1>t, <2>1 DEF MockRowFails, MockCancelled, LoopActs, PhaseInv, Before, Shutdown
<1>9. CASE MockSent \/ MockWakes
  <2>1. TypeOK'
    <3>1. step' \in 1 .. 4 /\ loop' \in {"payload", "sleep"}
      BY <1>9 DEF MockSent, MockWakes, TypeOK
    <3>2. CASE MockSent
      BY <1>0, <3>1, <3>2 DEF MockSent, TypeOK
    <3>3. CASE MockWakes
      BY <1>0, <3>1, <3>3 DEF MockWakes, TypeOK
    <3> QED
      BY <1>9, <3>2, <3>3
  <2> QED
    BY <1>9, <1>t, <2>1 DEF MockSent, MockWakes, LoopActs, PhaseInv, Before
<1>10. CASE JobStarts
  <2>1. writing' \in [Writer -> {"idle", "commit", "refresh"}]
    BY <1>10, <1>t DEF JobStarts
  <2>2. TypeOK'
    BY <1>0, <1>10, <2>1 DEF JobStarts, TypeOK
  <2> QED
    BY <1>10, <1>t, <2>2 DEF JobStarts, PhaseInv
<1>17. CASE JobEnds
  <2>1. writing' \in [Writer -> {"idle", "commit", "refresh"}]
    BY <1>17, <1>t DEF JobEnds
  <2>2. TypeOK'
    BY <1>0, <1>17, <2>1 DEF JobEnds, TypeOK
  <2> QED
    BY <1>17, <1>t, <2>2 DEF JobEnds, PhaseInv
<1>11. CASE HeartBeats
  <2>1. TypeOK'
    BY <1>0, <1>11 DEF HeartBeats, TypeOK
  <2> QED
    BY <1>11, <2>1 DEF HeartBeats, PhaseInv
<1>18. CASE HeartCancelled
  <2>1. TypeOK'
    BY <1>0, <1>18 DEF HeartCancelled, TypeOK
  <2> QED
    BY <1>18, <2>1 DEF HeartCancelled, PhaseInv
<1>12. CASE Stop
  <2>1. TypeOK'
    BY <1>0, <1>12 DEF Stop, TypeOK, Shutdown
  <2> QED
    BY <1>12, <2>1 DEF Stop, PhaseInv, Shutdown, Before
<1>13. CASE HeartAwaited
  <2>1. TypeOK'
    BY <1>0, <1>13 DEF HeartAwaited, TypeOK, Shutdown
  <2> QED
    BY <1>13, <2>1 DEF HeartAwaited, PhaseInv, Shutdown, Before
<1>14. CASE MockAwaited \/ CloseDatabase
  <2>1. TypeOK'
    <3>1. CASE MockAwaited
      BY <1>0, <3>1 DEF MockAwaited, TypeOK, Shutdown
    <3>2. CASE CloseDatabase
      BY <1>0, <3>2 DEF CloseDatabase, TypeOK, Shutdown
    <3> QED
      BY <1>14, <3>1, <3>2
  <2> QED
    BY <1>14, <2>1 DEF MockAwaited, CloseDatabase, PhaseInv, Shutdown, Before
<1>15. CASE Dies
  <2>1. TypeOK'
    BY <1>0, <1>15 DEF Dies, TypeOK
  <2> QED
    BY <1>15, <1>t, <2>1 DEF Dies, PhaseInv, Before
<1>16. CASE UNCHANGED vars
  BY <1>0, <1>16 DEF vars, TypeOK, PhaseInv
<1> QED
  BY <1>1, <1>2, <1>3, <1>4, <1>5, <1>6, <1>7, <1>8, <1>9, <1>10, <1>11, <1>12, <1>13,
     <1>14, <1>15, <1>16, <1>17, <1>18 DEF Next, TaskStep, StopStep

\* Every variable keeps its type, in particular all rows are well formed.
THEOREM TypeCorrect == Spec => []TypeOK
  BY InitType, NextType, PTL DEF Spec

-----------------------------------------------------------------------------
(* The marks in the journal *)

\* The newest row is of this process.
Marked == Len(rows) # 0 /\ rows[Len(rows)].boot = boot

\* A process writes nothing before its mark, and has its mark from then on.
MarkInv ==
    /\ \A i \in 1 .. Len(rows) : rows[i].boot <= boot
    /\ phase \in {"tables", "admin"} => ~Marked
    /\ phase = "started" => (Marked <=> writing["main"] = "refresh")
    /\ phase \notin Before =>
          Marked /\ \E i \in 1 .. Len(rows) : rows[i] = Event("started")
    /\ phase = "started" /\ Marked => \E i \in 1 .. Len(rows) : rows[i] = Event("started")

\* What each writer writes.
LEMMA NextRowIs ==
  /\ NextRow("main") = Event(phase)
  /\ NextRow("job") = Event("event")
  /\ NextRow("mock") = StateChange(CHOOSE c \in left : IsFirst(c, left))
  /\ \A kind : Event(kind).boot = boot /\ Event(kind).kind = kind
  /\ \A c : /\ StateChange(c).boot = boot /\ StateChange(c).kind = "state_change"
            /\ StateChange(c).channel = c /\ StateChange(c).previous = before[c]
            /\ StateChange(c).status = channels[c].status
  BY DEF NextRow, Event, StateChange

LEMMA MarkInit == Init => MarkInv /\ BootsAreMarked
<1> SUFFICES ASSUME Init PROVE MarkInv /\ BootsAreMarked
  OBVIOUS
<1>1. Len(rows) = 0 /\ phase = "down"
  BY DEF Init
<1> QED
  BY <1>1 DEF MarkInv, Marked, BootsAreMarked, Before

\* A step that writes no row and starts no process, and either stays where
\* lifespan is, or goes on between phases that have the mark, or ends the process.
LEMMA MarkIdle ==
  ASSUME MarkInv, BootsAreMarked, UNCHANGED <<rows, boot>>,
         \/ phase' = phase /\ (writing'["main"] = "refresh" <=> writing["main"] = "refresh")
         \/ /\ phase' \notin Before
            /\ phase \notin Before \/ (phase = "started" /\ writing["main"] = "refresh")
         \/ phase' = "down"
  PROVE  MarkInv' /\ BootsAreMarked'
<1>1. BootsAreMarked'
  BY DEF BootsAreMarked
<1>2. Marked' = Marked /\ Event("started")' = Event("started")
  BY DEF Marked, Event
<1>3. CASE phase' = phase /\ (writing'["main"] = "refresh" <=> writing["main"] = "refresh")
  BY <1>1, <1>2, <1>3 DEF MarkInv
<1>4. CASE /\ phase' \notin Before
           /\ phase \notin Before \/ (phase = "started" /\ writing["main"] = "refresh")
  BY <1>1, <1>2, <1>4 DEF MarkInv, Before
<1>5. CASE phase' = "down"
  BY <1>1, <1>2, <1>5 DEF MarkInv, Before
<1> QED
  BY <1>3, <1>4, <1>5

\* A row of this process is added: the first one is the mark, no other is.
LEMMA MarkAppended ==
  ASSUME TypeOK, MarkInv, BootsAreMarked, UNCHANGED boot,
         NEW r \in Row, rows' = Append(rows, r),
         r.boot = boot, r.kind = "started" <=> ~Marked
  PROVE  /\ BootsAreMarked' /\ Marked'
         /\ \A i \in 1 .. Len(rows)' : rows'[i].boot <= boot
<1>1. /\ Len(rows) \in Nat /\ Len(rows') = Len(rows) + 1
      /\ rows'[Len(rows) + 1] = r
      /\ \A i \in 1 .. Len(rows) : rows'[i] = rows[i] /\ i \in 1 .. Len(rows')
      /\ \A i \in 1 .. Len(rows') : i \in 1 .. Len(rows) \/ i = Len(rows) + 1
  BY RowAppended DEF TypeOK
<1>0. boot \in Nat
  BY DEF TypeOK
<1>2. \A i \in 1 .. Len(rows)' : rows'[i].boot <= boot
  BY <1>0, <1>1 DEF MarkInv
<1>3. Marked'
  BY <1>1 DEF Marked
<1>4. ASSUME NEW i \in 1 .. Len(rows)'
      PROVE  /\ rows'[i].kind = "started" <=> (i = 1 \/ rows'[i - 1].boot # rows'[i].boot)
             /\ i > 1 => rows'[i - 1].boot <= rows'[i].boot
  <2>1. CASE i \in 1 .. Len(rows)
    <3>1. rows'[i] = rows[i] /\ (i > 1 => rows'[i - 1] = rows[i - 1])
      BY <1>1, <2>1
    <3> QED
      BY <2>1, <3>1 DEF BootsAreMarked
  <2>2. CASE i = Len(rows) + 1
    <3>1. rows'[i] = r /\ (Len(rows) # 0 => i > 1 /\ rows'[i - 1] = rows[Len(rows)])
      BY <1>1, <2>2
    <3>2. CASE Len(rows) = 0
      BY <2>2, <3>1, <3>2 DEF Marked
    <3>3. CASE Len(rows) # 0
      <4>1. rows[Len(rows)].boot <= boot
        BY <1>1, <3>3 DEF MarkInv
      <4> QED
        BY <1>0, <2>2, <3>1, <3>3, <4>1 DEF Marked
    <3> QED
      BY <3>2, <3>3
  <2> QED
    BY <1>1, <2>1, <2>2
<1> QED
  BY <1>2, <1>3, <1>4 DEF BootsAreMarked

\* A commit.
LEMMA MarkCommit ==
  ASSUME TypeOK, PhaseInv, MarkInv, BootsAreMarked, NEW w \in Writer, Commit(w)
  PROVE  MarkInv' /\ BootsAreMarked'
<1> DEFINE r == NextRow(w)
<1>1. /\ r \in Row /\ rows' = Append(rows, r)
      /\ writing' = [writing EXCEPT ![w] = "refresh"]
      /\ UNCHANGED <<boot, phase>>
  BY NextRowType DEF Commit
<1>2. w = "main" \/ phase \notin Before
  BY DEF Commit, PhaseInv, Writer, Before
<1>3. w = "main" => phase \in {"started", "mock_enabled"}
  BY DEF Commit, PhaseInv
<1>4. r.boot = boot /\ (r.kind = "started" <=> w = "main" /\ phase = "started")
  BY NextRowIs DEF Writer
<1>5. Marked <=> ~(w = "main" /\ phase = "started")
  BY <1>2, <1>3 DEF MarkInv, Commit, Before
<1> HIDE DEF r
<1>6. /\ BootsAreMarked' /\ Marked'
      /\ \A i \in 1 .. Len(rows)' : rows'[i].boot <= boot
  BY <1>1, <1>4, <1>5, MarkAppended
<1>7. \E i \in 1 .. Len(rows)' : rows'[i] = Event("started")'
  <2>0. Event("started")' = Event("started")
    BY <1>1 DEF Event
  <2>1. /\ Len(rows) + 1 \in 1 .. Len(rows)' /\ rows'[Len(rows) + 1] = r
        /\ \A i \in 1 .. Len(rows) : rows'[i] = rows[i] /\ i \in 1 .. Len(rows')
    BY <1>1, RowAppended DEF TypeOK
  <2>2. CASE w = "main" /\ phase = "started"
    <3>1. r = Event("started")
      BY <2>2, NextRowIs DEF r
    <3> QED
      BY <2>0, <2>1, <3>1
  <2>3. CASE ~(w = "main" /\ phase = "started")
    <3>1. \E i \in 1 .. Len(rows) : rows[i] = Event("started")
      BY <1>2, <1>3, <2>3 DEF MarkInv, Before
    <3> QED
      BY <2>0, <2>1, <3>1
  <2> QED
    BY <2>2, <2>3
<1>8. phase = "started" => writing'["main"] = "refresh"
  BY <1>1, <1>2 DEF TypeOK, Before, Writer
<1>9. phase' = phase /\ boot' = boot /\ phase \notin {"tables", "admin"}
  BY <1>1, <1>2, <1>3 DEF Before
<1> QED
  BY <1>6, <1>7, <1>8, <1>9 DEF MarkInv

LEMMA MarkKept ==
  TypeOK /\ PhaseInv /\ MarkInv /\ BootsAreMarked /\ [Next]_vars
    => MarkInv' /\ BootsAreMarked'
<1> SUFFICES ASSUME TypeOK, PhaseInv, MarkInv, BootsAreMarked, [Next]_vars
             PROVE  MarkInv' /\ BootsAreMarked'
  OBVIOUS
<1> USE DEF diskVars, loopVars
<1>0. writing \in [Writer -> {"idle", "commit", "refresh"}] /\ "main" \in Writer
      /\ "mock" \in Writer /\ "job" \in Writer
  BY DEF TypeOK, Writer
<1>1. CASE Boot
  <2>1. /\ boot' = boot + 1 /\ phase' = "tables" /\ UNCHANGED rows
        /\ boot \in Nat
    BY <1>1 DEF Boot, TypeOK
  <2>2. \A i \in 1 .. Len(rows) : rows[i].boot \in Nat /\ rows[i].boot <= boot
    <3>1. \A i \in 1 .. Len(rows) : rows[i] \in Row
      BY DEF TypeOK
    <3>2. \A r \in Row : r.boot \in Nat
      BY LifecycleBounds DEF Row
    <3> QED
      BY <3>1, <3>2 DEF MarkInv
  <2>3. BootsAreMarked'
    BY <2>1 DEF BootsAreMarked
  <2>4. ~Marked'
    <3>1. Len(rows) \in Nat
      BY DEF TypeOK
    <3> QED
      BY <2>1, <2>2, <3>1 DEF Marked
  <2>5. \A i \in 1 .. Len(rows)' : rows'[i].boot <= boot'
    BY <2>1, <2>2
  <2> QED
    BY <2>1, <2>3, <2>4, <2>5 DEF MarkInv, Before
<1>2. CASE CreateTables \/ EnsureFirstAdmin
  <2>1. /\ phase \in {"tables", "admin"} /\ phase' \in {"admin", "started"}
        /\ phase' = "started" => writing'["main"] = "commit"
        /\ UNCHANGED <<rows, boot>>
    BY <1>0, <1>2 DEF CreateTables, EnsureFirstAdmin
  <2>2. BootsAreMarked' /\ Marked' = Marked
    BY <2>1 DEF BootsAreMarked, Marked
  <2> QED
    BY <2>1, <2>2 DEF MarkInv, Before
<1>3. CASE MainRowDone
  <2>1. /\ phase' \in {"mock_enabled", "serving"} /\ UNCHANGED <<rows, boot>>
        /\ writing["main"] = "refresh"
    BY <1>3 DEF MainRowDone
  <2>2. phase \in {"started", "mock_enabled"}
    BY <2>1 DEF PhaseInv
  <2> QED
    BY <2>1, <2>2, MarkIdle DEF Before
<1>4. ASSUME NEW w \in Writer, Commit(w) PROVE MarkInv' /\ BootsAreMarked'
  BY <1>4, MarkCommit
<1>5. CASE MockPayload \/ MockRowDone \/ MockRowFails
  BY <1>0, <1>5, MarkIdle DEF MockPayload, MockRowDone, MockRowFails
<1>6. CASE MockCancelled \/ MockSent \/ MockWakes
  BY <1>0, <1>6, MarkIdle DEF MockCancelled, MockSent, MockWakes
<1>7. CASE JobStarts \/ JobEnds \/ HeartBeats \/ HeartCancelled
  BY <1>0, <1>7, MarkIdle DEF JobStarts, JobEnds, HeartBeats, HeartCancelled
<1>8. CASE Stop \/ HeartAwaited \/ MockAwaited \/ CloseDatabase
  BY <1>8, MarkIdle DEF Stop, HeartAwaited, MockAwaited, CloseDatabase, Before
<1>9. CASE Dies
  BY <1>9, MarkIdle DEF Dies
<1>10. CASE UNCHANGED vars
  BY <1>10, MarkIdle DEF vars
<1> QED
  BY <1>1, <1>2, <1>3, <1>4, <1>5, <1>6, <1>7, <1>8, <1>9, <1>10 DEF Next, TaskStep, StopStep

LEMMA MarkAlways == Spec => [](TypeOK /\ PhaseInv /\ MarkInv /\ BootsAreMarked)
<1>1. Init => TypeOK /\ PhaseInv /\ MarkInv /\ BootsAreMarked
  BY InitType, MarkInit
<1>2. TypeOK /\ PhaseInv /\ MarkInv /\ BootsAreMarked /\ [Next]_vars
        => (TypeOK /\ PhaseInv /\ MarkInv /\ BootsAreMarked)'
  BY NextType, MarkKept
<1> QED
  BY <1>1, <1>2, PTL DEF Spec

\* The rows of a process stay together and begin with its mark, whatever kills,
\* failed starts and tasks that outlive a shutdown there are.
THEOREM StartsAreMarked == Spec => []BootsAreMarked
  BY MarkAlways, PTL

\* Whatever was killed before, an application that serves has all start-up makes.
THEOREM Ready == Spec => []ServingIsReady
<1>1. PhaseInv /\ MarkInv => ServingIsReady
  <2> SUFFICES ASSUME PhaseInv, MarkInv, phase = "serving"
               PROVE  /\ database /\ tables /\ admins = 1
                      /\ \E i \in 1 .. Len(rows) :
                            rows[i] = [Event("started") EXCEPT !.boot = boot]
    BY DEF ServingIsReady
  <2>1. [Event("started") EXCEPT !.boot = boot] = Event("started")
    BY DEF Event
  <2> QED
    BY <2>1 DEF PhaseInv, MarkInv, Before
<1> QED
  BY <1>1, MarkAlways, PTL

-----------------------------------------------------------------------------
(* What the journal tells of the channels *)

\* The rows of this process about channel c.
About(j, c) == IsState(j, c) /\ rows[j].boot = boot

\* Read from the last start, the journal says that channel c has status s.
Tells(c, s) ==
    \/ s = "inactive" /\ \A j \in 1 .. Len(rows) : ~About(j, c)
    \/ \E j \in 1 .. Len(rows) :
          /\ About(j, c) /\ rows[j].status = s
          /\ \A k \in 1 .. Len(rows) : About(k, c) => k <= j

\* Channel c has changed in the payload being handled, and has no row yet.
Untold(c) == c \in left /\ ~(writing["mock"] = "refresh" /\ IsFirst(c, left))

\* Before the first payload the journal tells nothing and the store has nothing;
\* later it tells the store's statuses, and while rows are being written, those
\* of before the payload for the channels that have none yet.
StoryInv ==
    \A c \in Channels :
        /\ phase \in Before \ {"down"} => channels[c].status = "inactive" /\ Tells(c, "inactive")
        /\ loop \in {"payload", "send", "sleep"} => Tells(c, channels[c].status)
        /\ loop = "rows" =>
              Tells(c, IF Untold(c) THEN before[c] ELSE channels[c].status)

\* The newest of a set of places in the journal.
Last(S) == CHOOSE j \in S : \A k \in S : k <= j

LEMMA LastIs ==
  ASSUME NEW S \in SUBSET Nat, NEW j \in S, \A k \in S : k <= j
  PROVE  Last(S) = j
<1>1. Last(S) \in S /\ \A k \in S : k <= Last(S)
  BY DEF Last
<1>2. Last(S) <= j /\ j <= Last(S) /\ Last(S) \in Nat /\ j \in Nat
  BY <1>1
<1> QED
  BY <1>2

LEMMA LastExists ==
  ASSUME NEW n \in Nat, NEW S \in SUBSET (1 .. n), S # {}
  PROVE  Last(S) \in S /\ \A k \in S : k <= Last(S)
<1> DEFINE T == {m \in Nat : n - m \in S}
<1>1. T # {}
  <2>1. PICK k \in S : TRUE
    OBVIOUS
  <2>2. n - k \in Nat /\ n - (n - k) = k
    BY <2>1
  <2> QED
    BY <2>2
<1>2. T \subseteq Nat /\ \A m \in T : n - m \in S
  OBVIOUS
<1>3. IsWellFoundedOn(OpToRel(<, Nat), Nat)
  BY NatLessThanWellFounded
<1>4. PICK m \in T : \A l \in T : ~(<<l, m>> \in OpToRel(<, Nat))
  BY <1>1, <1>2, <1>3, WFMin
<1>5. \A l \in T : ~(l < m)
  BY <1>2, <1>4 DEF OpToRel
<1>6. ASSUME NEW k \in S PROVE k <= n - m
  <2>1. n - k \in T
    BY <1>6
  <2>2. ~(n - k < m)
    BY <1>5, <2>1
  <2> QED
    BY <1>2, <2>2
<1>7. n - m \in S
  BY <1>2
<1> QED
  BY <1>6, <1>7 DEF Last

LEMMA TellsTold ==
  ASSUME TypeOK, NEW c, NEW s, Tells(c, s)
  PROVE  Told(c) = s
<1> DEFINE mine == {j \in 1 .. Len(rows) : About(j, c)}
<1>1. Told(c) = IF mine = {} THEN "inactive" ELSE rows[Last(mine)].status
  BY DEF Told, About, Last
<1>2. Len(rows) \in Nat
  BY DEF TypeOK
<1>3. CASE s = "inactive" /\ \A j \in 1 .. Len(rows) : ~About(j, c)
  BY <1>1, <1>3
<1>4. ASSUME NEW j \in 1 .. Len(rows), About(j, c), rows[j].status = s,
             \A k \in 1 .. Len(rows) : About(k, c) => k <= j
      PROVE  Told(c) = s
  <2>1. j \in mine /\ mine \in SUBSET Nat /\ \A k \in mine : k <= j
    BY <1>2, <1>4
  <2>2. Last(mine) = j
    BY <2>1, LastIs
  <2> QED
    BY <1>1, <1>4, <2>1, <2>2
<1> QED
  BY <1>3, <1>4 DEF Tells

\* What is told stays while no row is added ...
LEMMA TellsSame ==
  ASSUME UNCHANGED <<rows, boot>>, NEW c, NEW s
  PROVE  Tells(c, s)' <=> Tells(c, s)
  BY DEF Tells, About, IsState

\* ... or a row about something else; a row about the channel tells its status.
LEMMA TellsAppended ==
  ASSUME TypeOK, NEW r \in Row, rows' = Append(rows, r), UNCHANGED boot, NEW c
  PROVE  /\ ~(r.kind = "state_change" /\ r.channel = c /\ r.boot = boot)
               => \A s : Tells(c, s) => Tells(c, s)'
         /\ r.kind = "state_change" /\ r.channel = c /\ r.boot = boot
               => Tells(c, r.status)'
<1>0. PICK n \in Nat : n = Len(rows)
  BY DEF TypeOK
<1>1. /\ Len(rows) = n /\ Len(rows') = n + 1
      /\ rows'[n + 1] = r
      /\ \A i \in 1 .. n : rows'[i] = rows[i] /\ i \in 1 .. n + 1
      /\ \A i \in 1 .. n + 1 : i \in 1 .. n \/ i = n + 1
  BY <1>0, RowAppended DEF TypeOK
<1>2. \A i \in 1 .. n : About(i, c)' <=> About(i, c)
  BY <1>1 DEF About, IsState
<1>3. About(n + 1, c)' <=> (r.kind = "state_change" /\ r.channel = c /\ r.boot = boot)
  BY <1>1 DEF About, IsState
<1>4. ASSUME ~(r.kind = "state_change" /\ r.channel = c /\ r.boot = boot),
             NEW s, Tells(c, s)
      PROVE  Tells(c, s)'
  <2>1. CASE s = "inactive" /\ \A j \in 1 .. n : ~About(j, c)
    BY <1>1, <1>2, <1>3, <1>4, <2>1 DEF Tells
  <2>2. ASSUME NEW j \in 1 .. n, About(j, c), rows[j].status = s,
               \A k \in 1 .. n : About(k, c) => k <= j
        PROVE  Tells(c, s)'
    <3>1. j \in 1 .. n + 1 /\ About(j, c)' /\ rows'[j].status = s
      BY <1>1, <1>2, <2>2
    <3>2. \A k \in 1 .. n + 1 : About(k, c)' => k <= j
      BY <1>1, <1>2, <1>3, <1>4, <2>2
    <3> QED
      BY <1>1, <3>1, <3>2 DEF Tells
  <2> QED
    BY <1>1, <1>4, <2>1, <2>2 DEF Tells
<1>5. ASSUME r.kind = "state_change", r.channel = c, r.boot = boot
      PROVE  Tells(c, r.status)'
  <2>1. /\ n + 1 \in 1 .. n + 1 /\ About(n + 1, c)'
        /\ \A k \in 1 .. n + 1 : k <= n + 1
    BY <1>1, <1>3, <1>5
  <2> QED
    BY <1>1, <2>1 DEF Tells
<1> QED
  BY <1>4, <1>5

-----------------------------------------------------------------------------

LEMMA StoryInit == Init => StoryInv
  BY DEF Init, StoryInv

\* A step that writes no row and leaves the mock task where it is.
LEMMA StoryIdle ==
  ASSUME StoryInv, UNCHANGED <<rows, boot, channels, loop, left, before>>,
         writing'["mock"] = writing["mock"],
         phase \in Before \ {"down"} \/ phase' \notin Before \ {"down"}
  PROVE  StoryInv'
<1> SUFFICES ASSUME NEW c \in Channels
             PROVE  (/\ phase \in Before \ {"down"}
                           => channels[c].status = "inactive" /\ Tells(c, "inactive")
                     /\ loop \in {"payload", "send", "sleep"} => Tells(c, channels[c].status)
                     /\ loop = "rows" =>
                           Tells(c, IF Untold(c) THEN before[c] ELSE channels[c].status))'
  BY DEF StoryInv
<1>1. \A s : Tells(c, s) => Tells(c, s)'
  BY TellsSame
<1>2. Untold(c)' <=> Untold(c)
  BY DEF Untold, IsFirst
<1> QED
  BY <1>1, <1>2 DEF StoryInv

\* Where the story stands in the channels of a payload: the row of the first
\* one that has none is the one being written.
LEMMA StoryCommit ==
  ASSUME TypeOK, PhaseInv, StoryInv, NEW w \in Writer, Commit(w)
  PROVE  /\ StoryInv'
         /\ NextRow(w).kind = "state_change"
              => Tells(NextRow(w).channel, NextRow(w).previous)
<1>0. PICK r \in Row : r = NextRow(w)
  BY NextRowType DEF Commit
<1>1. /\ rows' = Append(rows, r)
      /\ writing[w] = "commit" /\ writing' = [writing EXCEPT ![w] = "refresh"]
      /\ UNCHANGED <<boot, phase, channels, loop, left, before>>
  BY <1>0 DEF Commit, loopVars, storeVars
<1>2. writing \in [Writer -> {"idle", "commit", "refresh"}] /\ "mock" \in Writer
  BY DEF TypeOK, Writer
<1>3. CASE w # "mock"
  <2>1. r.kind # "state_change"
    BY <1>0, <1>1, <1>3, NextRowIs DEF Writer, PhaseInv
  <2>2. \A c, s : Tells(c, s) => Tells(c, s)'
    BY <1>1, <2>1, TellsAppended
  <2>3. \A c : Untold(c)' <=> Untold(c)
    BY <1>1, <1>2, <1>3 DEF Untold, IsFirst
  <2>4. ASSUME NEW c \in Channels
        PROVE  (/\ phase \in Before \ {"down"}
                      => channels[c].status = "inactive" /\ Tells(c, "inactive")
                /\ loop \in {"payload", "send", "sleep"} => Tells(c, channels[c].status)
                /\ loop = "rows" =>
                      Tells(c, IF Untold(c) THEN before[c] ELSE channels[c].status))'
    BY <1>1, <2>2, <2>3 DEF StoryInv
  <2> QED
    BY <1>0, <2>1, <2>4 DEF StoryInv
<1>4. CASE w = "mock"
  <2>1. loop = "rows" /\ left \in SUBSET Channels /\ left # {} /\ phase \notin Before
    BY <1>1, <1>4 DEF PhaseInv, TypeOK
  <2>2. PICK f \in left : IsFirst(f, left)
    BY <2>1, FirstExists
  <2>3. (CHOOSE c \in left : IsFirst(c, left)) = f
    BY <2>1, <2>2, FirstUnique
  <2>4. /\ r.kind = "state_change" /\ r.boot = boot /\ r.channel = f
        /\ r.previous = before[f] /\ r.status = channels[f].status
    BY <1>0, <1>4, <2>3, NextRowIs
  <2>5. Untold(f) /\ \A c \in left : Untold(c)
    BY <1>1, <1>4, <2>2 DEF Untold
  <2>6. Tells(f, before[f])
    BY <2>1, <2>2, <2>5 DEF StoryInv
  <2>7. ASSUME NEW c \in Channels
        PROVE  Tells(c, IF Untold(c) THEN before[c] ELSE channels[c].status)'
    <3>1. writing'["mock"] = "refresh"
      BY <1>1, <1>2, <1>4
    <3>2. CASE c = f
      <4>1. ~Untold(c)'
        BY <1>1, <2>2, <3>1, <3>2 DEF Untold, IsFirst
      <4>2. Tells(c, r.status)'
        BY <1>1, <2>4, <3>2, TellsAppended
      <4> QED
        BY <1>1, <2>4, <3>2, <4>1, <4>2
    <3>3. CASE c # f
      <4>1. Untold(c)' <=> Untold(c)
        BY <1>1, <2>1, <2>2, <2>5, <3>1, <3>3, FirstUnique DEF Untold, IsFirst
      <4>2. \A s : Tells(c, s) => Tells(c, s)'
        BY <1>1, <2>4, <3>3, TellsAppended
      <4>3. Tells(c, IF Untold(c) THEN before[c] ELSE channels[c].status)
        BY <2>1 DEF StoryInv
      <4> QED
        BY <1>1, <4>1, <4>2, <4>3
    <3> QED
      BY <3>2, <3>3
  <2> QED
    BY <1>0, <1>1, <2>1, <2>4, <2>6, <2>7 DEF StoryInv
<1> QED
  BY <1>3, <1>4

LEMMA StoryPayload == TypeOK /\ PhaseInv /\ StoryInv /\ MockPayload => StoryInv'
<1> SUFFICES ASSUME TypeOK, PhaseInv, StoryInv, MockPayload PROVE StoryInv'
  OBVIOUS
<1>1. /\ left' \in SUBSET Channels
      /\ before' = Statuses
      /\ \A c \in Channels : c \notin left' => channels'[c] = channels[c]
  BY MockPayloadType
<1>2. /\ loop = "payload" /\ loop' = IF left' = {} THEN "send" ELSE "rows"
      /\ writing' = [writing EXCEPT !["mock"] = IF left' = {} THEN "idle" ELSE "commit"]
      /\ UNCHANGED <<rows, boot, phase>>
  BY DEF MockPayload, diskVars
<1>3. phase \notin Before
  BY <1>2 DEF PhaseInv
<1>4. writing'["mock"] # "refresh"
  BY <1>2 DEF TypeOK, Writer
<1>5. ASSUME NEW c \in Channels
      PROVE  (/\ loop = "send" => Tells(c, channels[c].status)
              /\ loop = "rows" =>
                    Tells(c, IF Untold(c) THEN before[c] ELSE channels[c].status))'
  <2>1. Tells(c, channels[c].status) /\ before'[c] = channels[c].status
    BY <1>1, <1>2 DEF StoryInv, Statuses
  <2>2. \A s : Tells(c, s) => Tells(c, s)'
    BY <1>2, TellsSame
  <2>3. Untold(c)' <=> c \in left'
    BY <1>4 DEF Untold
  <2> QED
    BY <1>1, <1>2, <2>1, <2>2, <2>3
<1> QED
  BY <1>2, <1>3, <1>5 DEF StoryInv

LEMMA StoryRowDone == TypeOK /\ PhaseInv /\ StoryInv /\ MockRowDone => StoryInv'
<1> SUFFICES ASSUME TypeOK, PhaseInv, StoryInv, MockRowDone PROVE StoryInv'
  OBVIOUS
<1>1. PICK f \in left : IsFirst(f, left) /\ left' = left \ {f}
  BY DEF MockRowDone
<1>2. /\ loop' = IF left' = {} THEN "send" ELSE "rows"
      /\ writing["mock"] = "refresh"
      /\ writing' = [writing EXCEPT !["mock"] = IF left' = {} THEN "idle" ELSE "commit"]
      /\ UNCHANGED <<rows, boot, phase, channels, before>>
  BY DEF MockRowDone, diskVars, storeVars
<1>3. loop = "rows" /\ phase \notin Before /\ left \in SUBSET Channels
  BY <1>2 DEF PhaseInv, TypeOK
<1>4. writing'["mock"] # "refresh"
  BY <1>2 DEF TypeOK, Writer
<1>5. ASSUME NEW c \in Channels
      PROVE  (/\ loop = "send" => Tells(c, channels[c].status)
              /\ loop = "rows" =>
                    Tells(c, IF Untold(c) THEN before[c] ELSE channels[c].status))'
  <2>1. Tells(c, IF Untold(c) THEN before[c] ELSE channels[c].status)
    BY <1>3 DEF StoryInv
  <2>2. \A s : Tells(c, s) => Tells(c, s)'
    BY <1>2, TellsSame
  <2>3. Untold(c)' <=> c \in left'
    BY <1>4 DEF Untold
  <2>4. Untold(c) <=> c \in left'
    BY <1>1, <1>2, <1>3, FirstUnique DEF Untold
  <2> QED
    BY <1>2, <2>1, <2>2, <2>3, <2>4
<1> QED
  BY <1>2, <1>3, <1>5 DEF StoryInv

LEMMA StoryBoot == TypeOK /\ PhaseInv /\ MarkInv /\ Boot => StoryInv'
<1> SUFFICES ASSUME TypeOK, PhaseInv, MarkInv, Boot PROVE StoryInv'
  OBVIOUS
<1>1. /\ phase = "down" /\ boot' = boot + 1 /\ boot \in Nat
      /\ UNCHANGED <<rows, loop>>
      /\ channels' = [c \in Channels |-> Inactive]
  BY DEF Boot, diskVars, TypeOK
<1>2. loop' = "none"
  BY <1>1 DEF PhaseInv, Before
<1>3. \A i \in 1 .. Len(rows) : rows[i].boot # boot + 1
  <2>1. \A i \in 1 .. Len(rows) : rows[i] \in Row
    BY DEF TypeOK
  <2>2. \A r \in Row : r.boot \in Nat
    BY LifecycleBounds DEF Row
  <2> QED
    BY <1>1, <2>1, <2>2 DEF MarkInv
<1>4. \A c : Tells(c, "inactive")'
  BY <1>1, <1>3 DEF Tells, About
<1> QED
  BY <1>1, <1>2, <1>4 DEF StoryInv, Inactive

LEMMA StoryKept ==
  TypeOK /\ PhaseInv /\ MarkInv /\ StoryInv /\ [Next]_vars => StoryInv'
<1> SUFFICES ASSUME TypeOK, PhaseInv, MarkInv, StoryInv, [Next]_vars PROVE StoryInv'
  OBVIOUS
<1> USE DEF diskVars, loopVars, storeVars
<1>0. /\ writing \in [Writer -> {"idle", "commit", "refresh"}]
      /\ "main" \in Writer /\ "mock" \in Writer /\ "job" \in Writer
      /\ \A c, s : UNCHANGED <<rows, boot>> => (Tells(c, s) => Tells(c, s)')
  BY TellsSame DEF TypeOK, Writer
<1>1. CASE CreateTables \/ EnsureFirstAdmin
  BY <1>0, <1>1, StoryIdle DEF CreateTables, EnsureFirstAdmin, Before
<1>2. CASE MainRowDone
  <2>1. /\ phase \in {"started", "mock_enabled"} /\ phase' \notin Before
        /\ UNCHANGED <<rows, boot, channels, left, before>>
        /\ writing'["mock"] = writing["mock"]
    BY <1>0, <1>2 DEF MainRowDone, PhaseInv, Before
  <2>2. CASE loop' = loop
    BY <2>1, <2>2, StoryIdle DEF Before
  <2>3. CASE loop' # loop
    <3>1. phase = "started" /\ loop' = "payload"
      BY <1>2, <2>3 DEF MainRowDone
    <3>2. \A c \in Channels : Tells(c, channels[c].status)
      BY <3>1 DEF StoryInv, Before
    <3> QED
      BY <1>0, <2>1, <3>1, <3>2 DEF StoryInv
  <2> QED
    BY <2>2, <2>3
<1>3. CASE MockSent \/ MockWakes
  <2>1. /\ loop \in {"payload", "send", "sleep"} /\ loop' \in {"payload", "send", "sleep"}
        /\ UNCHANGED <<rows, boot, channels, phase>>
    BY <1>3 DEF MockSent, MockWakes
  <2>2. phase \notin Before
    BY <2>1 DEF PhaseInv
  <2> QED
    BY <1>0, <2>1, <2>2 DEF StoryInv
<1>4. CASE MockRowFails \/ MockCancelled \/ Dies
  <2>1. /\ loop' \in {"none", "failed", "done"} /\ UNCHANGED <<rows, boot, channels>>
        /\ phase' = phase \/ phase' = "down"
    BY <1>4 DEF MockRowFails, MockCancelled, Dies
  <2> QED
    BY <1>0, <2>1 DEF StoryInv
<1>5. CASE JobStarts \/ JobEnds \/ HeartBeats \/ HeartCancelled
  <2>1. writing'["mock"] = writing["mock"]
    BY <1>0, <1>5 DEF JobStarts, JobEnds, HeartBeats, HeartCancelled
  <2> QED
    BY <1>5, <2>1, StoryIdle DEF JobStarts, JobEnds, HeartBeats, HeartCancelled
<1>6. CASE Stop \/ HeartAwaited \/ MockAwaited \/ CloseDatabase
  BY <1>6, StoryIdle DEF Stop, HeartAwaited, MockAwaited, CloseDatabase, Before
<1>7. CASE UNCHANGED vars
  BY <1>7, StoryIdle DEF vars
<1> QED
  BY <1>1, <1>2, <1>3, <1>4, <1>5, <1>6, <1>7, StoryBoot, StoryCommit, StoryPayload,
     StoryRowDone DEF Next, TaskStep, StopStep

-----------------------------------------------------------------------------
(* The chain of the rows of one channel *)

\* The rows before row i that tell of the same channel in the same process.
Earlier(i, c) == {j \in 1 .. i - 1 : IsState(j, c) /\ rows[j].boot = rows[i].boot}

ChainedAt(i, c) ==
    IsState(i, c) =>
        rows[i].previous = IF Earlier(i, c) = {} THEN "inactive"
                           ELSE rows[Last(Earlier(i, c))].status

LEMMA ChainIs ==
  /\ RowsChainPerBoot <=> \A i \in 1 .. Len(rows), c \in Channels : ChainedAt(i, c)
  /\ RowsChainPerBoot' <=> \A i \in 1 .. Len(rows'), c \in Channels : ChainedAt(i, c)'
  BY DEF RowsChainPerBoot, ChainedAt, Earlier, Last

\* A row that goes on from what the journal told keeps the chain.
LEMMA ChainAppended ==
  ASSUME TypeOK, RowsChainPerBoot, NEW r \in Row, rows' = Append(rows, r),
         UNCHANGED boot, r.boot = boot,
         r.kind = "state_change" => Tells(r.channel, r.previous)
  PROVE  RowsChainPerBoot'
<1>0. PICK n \in Nat : n = Len(rows)
  BY DEF TypeOK
<1>1. /\ Len(rows) = n /\ Len(rows') = n + 1
      /\ rows'[n + 1] = r
      /\ \A i \in 1 .. n : rows'[i] = rows[i]
      /\ \A i \in 1 .. n + 1 : i \in 1 .. n \/ i = n + 1
  BY <1>0, RowAppended DEF TypeOK
<1>2. ASSUME NEW i \in 1 .. n + 1, NEW c \in Channels
      PROVE  ChainedAt(i, c)'
  <2>1. CASE i \in 1 .. n
    <3>1. rows'[i] = rows[i] /\ \A j \in 1 .. i - 1 : rows'[j] = rows[j]
      BY <1>1, <2>1
    <3>2. Earlier(i, c)' = Earlier(i, c) /\ (IsState(i, c)' <=> IsState(i, c))
      BY <3>1 DEF Earlier, IsState
    <3>3. Earlier(i, c) # {} => rows'[Last(Earlier(i, c))] = rows[Last(Earlier(i, c))]
      <4>1. i - 1 \in Nat /\ Earlier(i, c) \in SUBSET (1 .. i - 1)
        BY DEF Earlier
      <4>2. Earlier(i, c) # {} => Last(Earlier(i, c)) \in 1 .. i - 1
        BY <4>1, LastExists
      <4> QED
        BY <3>1, <4>2
    <3>4. ChainedAt(i, c)
      BY <1>1, <2>1, ChainIs
    <3>5. Last(Earlier(i, c))' = Last(Earlier(i, c))
      BY <3>2
    <3> QED
      BY <3>1, <3>2, <3>3, <3>4, <3>5 DEF ChainedAt
  <2>2. CASE i = n + 1
    <3> SUFFICES ASSUME r.kind = "state_change", r.channel = c
                 PROVE  r.previous = IF Earlier(i, c)' = {} THEN "inactive"
                                     ELSE rows'[Last(Earlier(i, c)')].status
      BY <1>1, <2>2 DEF ChainedAt, IsState
    <3>1. Earlier(i, c)' = {j \in 1 .. n : About(j, c)}
      BY <1>1, <2>2 DEF Earlier, About, IsState
    <3>2. CASE r.previous = "inactive" /\ \A j \in 1 .. n : ~About(j, c)
      BY <3>1, <3>2
    <3>3. ASSUME NEW j \in 1 .. n, About(j, c), rows[j].status = r.previous,
                 \A k \in 1 .. n : About(k, c) => k <= j
          PROVE  r.previous = IF Earlier(i, c)' = {} THEN "inactive"
                              ELSE rows'[Last(Earlier(i, c)')].status
      <4>1. /\ j \in Earlier(i, c)' /\ Earlier(i, c)' \in SUBSET Nat
            /\ \A k \in Earlier(i, c)' : k <= j
        BY <3>1, <3>3
      <4>2. Last(Earlier(i, c)') = j
        BY <4>1, LastIs
      <4> QED
        BY <1>1, <3>3, <4>1, <4>2
    <3>4. Tells(c, r.previous)
      OBVIOUS
    <3> QED
      BY <1>1, <3>2, <3>3, <3>4 DEF Tells
  <2> QED
    BY <1>1, <2>1, <2>2
<1>3. \A i \in 1 .. Len(rows'), c \in Channels : ChainedAt(i, c)'
  BY <1>1, <1>2
<1> QED
  BY <1>3, ChainIs

LEMMA ChainKept ==
  TypeOK /\ PhaseInv /\ StoryInv /\ RowsChainPerBoot /\ [Next]_vars => RowsChainPerBoot'
<1> SUFFICES ASSUME TypeOK, PhaseInv, StoryInv, RowsChainPerBoot, [Next]_vars
             PROVE  RowsChainPerBoot'
  OBVIOUS
<1>1. CASE UNCHANGED rows
  <2>1. \A i, c : ChainedAt(i, c)' <=> ChainedAt(i, c)
    BY <1>1 DEF ChainedAt, Earlier, IsState, Last
  <2> QED
    BY <1>1, <2>1, ChainIs
<1>2. ASSUME NEW w \in Writer, Commit(w) PROVE RowsChainPerBoot'
  <2>1. PICK r \in Row : r = NextRow(w)
    BY <1>2, NextRowType DEF Commit
  <2>2. rows' = Append(rows, r) /\ UNCHANGED boot
    BY <1>2, <2>1 DEF Commit
  <2>3. r.boot = boot
    BY <2>1, NextRowIs DEF Writer
  <2>4. r.kind = "state_change" => Tells(r.channel, r.previous)
    BY <1>2, <2>1, StoryCommit
  <2> QED
    BY <2>2, <2>3, <2>4, ChainAppended
<1>3. UNCHANGED rows \/ \E w \in Writer : Commit(w)
  BY DEF Next, TaskStep, StopStep, vars, diskVars, Boot, CreateTables, EnsureFirstAdmin,
         MainRowDone, MockPayload, MockRowDone, MockSent, MockWakes, JobStarts, HeartBeats,
         MockRowFails, JobEnds, Stop, HeartCancelled, HeartAwaited, MockCancelled,
         MockAwaited, CloseDatabase, Dies
<1> QED
  BY <1>1, <1>2, <1>3

LEMMA StoryAlways ==
  Spec => [](TypeOK /\ PhaseInv /\ MarkInv /\ BootsAreMarked /\ StoryInv /\ RowsChainPerBoot)
<1>1. Init => /\ TypeOK /\ PhaseInv /\ MarkInv /\ BootsAreMarked /\ StoryInv
              /\ RowsChainPerBoot
  <2>1. Init => RowsChainPerBoot
    BY DEF Init, RowsChainPerBoot
  <2> QED
    BY <2>1, InitType, MarkInit, StoryInit
<1>2. TypeOK /\ PhaseInv /\ MarkInv /\ BootsAreMarked /\ StoryInv /\ RowsChainPerBoot
        /\ [Next]_vars
        => (TypeOK /\ PhaseInv /\ MarkInv /\ BootsAreMarked /\ StoryInv /\ RowsChainPerBoot)'
  BY NextType, MarkKept, StoryKept, ChainKept
<1> QED
  BY <1>1, <1>2, PTL DEF Spec

\* The rows of a channel form one story per process: each goes on from the last.
THEOREM RowsChain == Spec => []RowsChainPerBoot
  BY StoryAlways, PTL

\* Between payloads the journal tells the store, after any restart.
THEOREM StoreIsTold == Spec => []JournalTellsStore
<1>1. TypeOK /\ StoryInv => JournalTellsStore
  BY TellsTold DEF StoryInv, JournalTellsStore
<1> QED
  BY <1>1, StoryAlways, PTL

=============================================================================
