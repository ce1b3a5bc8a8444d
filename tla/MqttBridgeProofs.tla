-------------------------- MODULE MqttBridgeProofs --------------------------
(***************************************************************************)
(* Proofs about MqttBridge, for any values of the horn, any payloads and   *)
(* any bounds.                                                             *)
(***************************************************************************)
EXTENDS MqttBridge, TLAPS

-----------------------------------------------------------------------------
(* Types, of the queues and of the rest *)

QueuesOK ==
    /\ outgoing \in Seq(Horn \cup {"subscribe"})
    /\ incoming \in Seq(Wire)
    /\ inbox \in Seq(Item)

NetOK ==
    /\ socket \in {"down", "up", "lost", "closed"}
    /\ subscribed \in BOOLEAN
    /\ horn \in Horn \cup {"none"}
    /\ missed \in BOOLEAN

ProcessOK ==
    /\ thread \in {"idle", "subscribe", "announce", "withdraw", "dispatch", "ended"}
    /\ inHand \in Wire \cup {NoMessage}
    /\ connected \in BOOLEAN
    /\ loop \in {"running", "stopping", "stopped"}
    /\ mqttFlag \in BOOLEAN
    /\ tifon \in Horn \cup {"none"}
    /\ debug \in Seen

LEMMA TypeParts == TypeOK <=> QueuesOK /\ NetOK /\ ProcessOK
  BY DEF TypeOK, QueuesOK, NetOK, ProcessOK

LEMMA ItemTypes ==
  /\ Event("connection", TRUE) \in Item
  /\ Event("connection", FALSE) \in Item
  /\ \A m \in Wire : Event("raw", m) \in Item
  /\ \A m \in BoardData : Event("board", m) \in Item
  /\ \A v \in Horn : Event("act", v) \in Item
  BY DEF Event, Item

\* An item waiting is one of the four kinds, with a value of that kind.
LEMMA ItemKinds ==
  ASSUME NEW item \in Item
  PROVE  \/ item.kind = "connection" /\ item.value \in BOOLEAN
         \/ item.kind = "raw" /\ item.value \in Wire
         \/ item.kind = "board" /\ item.value \in BoardData
         \/ item.kind = "act" /\ item.value \in Horn
  BY DEF Item

\* What is handed to the loop is added to its queue.
LEMMA ScheduleType ==
  ASSUME inbox \in Seq(Item), NEW kind, NEW value, Event(kind, value) \in Item,
         Schedule(kind, value)
  PROVE  inbox' \in Seq(Item)
  BY DEF Schedule

LEMMA InitType == Init => TypeOK
<1> SUFFICES ASSUME Init PROVE TypeOK
  OBVIOUS
<1>1. QueuesOK
  BY DEF Init, QueuesOK
<1>2. NetOK
  BY DEF Init, NetOK
<1>3. ProcessOK
  BY DEF Init, ProcessOK, Seen
<1> QED
  BY <1>1, <1>2, <1>3, TypeParts

\* Forwarding a command keeps what the broker handles typed.
LEMMA ForwardType ==
  ASSUME QueuesOK, NetOK, NEW v \in Horn, Forward(v)
  PROVE  /\ horn' \in Horn \cup {"none"}
         /\ missed' \in BOOLEAN
         /\ incoming' \in Seq(Wire)
<1>1. v \in Wire
  BY DEF Wire
<1> QED
  BY <1>1 DEF Forward, QueuesOK, NetOK

\* The network side: sessions and the queues.
LEMMA NextQueues == QueuesOK /\ NetOK /\ [Next]_vars => QueuesOK' /\ NetOK'
<1> SUFFICES ASSUME QueuesOK, NetOK, [Next]_vars PROVE QueuesOK' /\ NetOK'
  OBVIOUS
<1> USE DEF QueuesOK, NetOK, netVars
<1>1. CASE OnConnect \/ OnRefused \/ OnDisconnect
  BY <1>1 DEF OnConnect, OnRefused, OnDisconnect
<1>2. CASE Subscribe
  BY <1>2 DEF Subscribe
<1>3. CASE Announce \/ Withdraw
  <2>1. inbox' \in Seq(Item)
    <3>1. CASE Announce
      BY <3>1, ItemTypes, ScheduleType DEF Announce
    <3>2. CASE Withdraw
      BY <3>2, ItemTypes, ScheduleType DEF Withdraw
    <3> QED
      BY <1>3, <3>1, <3>2
  <2>2. UNCHANGED netVars /\ UNCHANGED missed
    BY <1>3 DEF Announce, Withdraw
  <2> QED
    BY <2>1, <2>2
<1>4. CASE OnMessage
  <2>1. Head(incoming) \in Wire /\ Tail(incoming) \in Seq(Wire)
    BY <1>4 DEF OnMessage
  <2>2. inbox' \in Seq(Item)
    BY <1>4, <2>1, ItemTypes, ScheduleType DEF OnMessage
  <2>3. incoming' \in Seq(Wire) /\ UNCHANGED <<socket, subscribed, outgoing, horn, missed>>
    BY <1>4, <2>1 DEF OnMessage
  <2> QED
    BY <2>2, <2>3
<1>5. CASE Dispatch
  <2>1. inbox' \in Seq(Item)
    BY <1>5, ItemTypes, ScheduleType DEF Dispatch
  <2> QED
    BY <1>5, <2>1 DEF Dispatch
<1>6. CASE ThreadEnds \/ Stop
  BY <1>6 DEF ThreadEnds, Stop
<1>7. CASE RunTask
  BY <1>7 DEF RunTask
<1>8. ASSUME NEW v \in Horn, PostTifon(v) PROVE QueuesOK' /\ NetOK'
  BY <1>8 DEF PostTifon, PacketAccepted
<1>9. CASE BrokerReceives
  <2>1. /\ Head(outgoing) \in Horn \cup {"subscribe"}
        /\ Tail(outgoing) \in Seq(Horn \cup {"subscribe"})
    BY <1>9 DEF BrokerReceives
  <2>2. CASE Head(outgoing) = "subscribe"
    BY <1>9, <2>1, <2>2 DEF BrokerReceives
  <2>3. CASE Head(outgoing) # "subscribe"
    BY <1>9, <2>1, <2>3, ForwardType DEF BrokerReceives
  <2> QED
    BY <2>2, <2>3
<1>10. CASE SessionEnds
  <2>1. missed' \in BOOLEAN
    BY <1>10 DEF SessionEnds
  <2>2. QueuesOK'
    BY <1>10 DEF SessionEnds
  <2>3. socket' = "lost" /\ subscribed' = FALSE /\ UNCHANGED horn
    BY <1>10 DEF SessionEnds
  <2> QED
    BY <2>1, <2>2, <2>3
<1>11. ASSUME NEW m \in Wire, OtherPublishes(m) PROVE QueuesOK' /\ NetOK'
  <2>1. CASE m \in Horn
    BY <1>11, <2>1, ForwardType DEF OtherPublishes
  <2>2. CASE m \notin Horn
    <3>1. incoming' = Append(incoming, m)
      BY <1>11, <2>2 DEF OtherPublishes
    <3>2. UNCHANGED <<socket, subscribed, outgoing, inbox, horn, missed>>
      BY <1>11, <2>2 DEF OtherPublishes
    <3> QED
      BY <3>1, <3>2
  <2> QED
    BY <2>1, <2>2
<1>12. CASE UNCHANGED vars
  BY <1>12 DEF vars
<1> QED
  BY <1>1, <1>2, <1>3, <1>4, <1>5, <1>6, <1>7, <1>8, <1>9, <1>10, <1>11, <1>12
     DEF Next, ThreadStep

\* The process: what the two threads keep.
LEMMA NextProcess == QueuesOK /\ ProcessOK /\ [Next]_vars => ProcessOK'
<1> SUFFICES ASSUME QueuesOK, ProcessOK, [Next]_vars PROVE ProcessOK'
  OBVIOUS
<1> USE DEF ProcessOK, loopVars
<1>1. CASE OnConnect \/ OnRefused \/ OnDisconnect
  BY <1>1 DEF OnConnect, OnRefused, OnDisconnect
<1>2. CASE Subscribe \/ Announce \/ Withdraw
  BY <1>2 DEF Subscribe, Announce, Withdraw
<1>3. CASE OnMessage
  BY <1>3 DEF OnMessage, QueuesOK
<1>4. CASE Dispatch
  BY <1>4 DEF Dispatch
<1>5. CASE ThreadEnds \/ Stop
  BY <1>5 DEF ThreadEnds, Stop
<1>6. CASE RunTask
  <2>1. PICK item \in Item : item = Head(inbox)
    BY <1>6 DEF RunTask, QueuesOK
  <2>2. /\ mqttFlag' \in BOOLEAN
        /\ tifon' \in Horn \cup {"none"}
        /\ debug' \in Seen
    BY <1>6, <2>1, ItemKinds DEF RunTask, Run, Seen
  <2> QED
    BY <1>6, <2>2 DEF RunTask
<1>7. ASSUME NEW v \in Horn, PostTifon(v) PROVE ProcessOK'
  BY <1>7 DEF PostTifon, PacketAccepted
<1>8. CASE BrokerReceives \/ SessionEnds
  BY <1>8 DEF BrokerReceives, SessionEnds
<1>9. ASSUME NEW m \in Wire, OtherPublishes(m) PROVE ProcessOK'
  BY <1>9 DEF OtherPublishes
<1>10. CASE UNCHANGED vars
  BY <1>10 DEF vars
<1> QED
  BY <1>1, <1>2, <1>3, <1>4, <1>5, <1>6, <1>7, <1>8, <1>9, <1>10 DEF Next, ThreadStep

LEMMA NextType == TypeOK /\ [Next]_vars => TypeOK'
<1>1. QueuesOK /\ NetOK /\ ProcessOK /\ [Next]_vars => (QueuesOK /\ NetOK /\ ProcessOK)'
  BY NextQueues, NextProcess
<1>2. TypeOK' <=> (QueuesOK /\ NetOK /\ ProcessOK)'
  BY DEF TypeOK, QueuesOK, NetOK, ProcessOK
<1> QED
  BY <1>1, <1>2, TypeParts

\* Every variable of the client and of what it feeds keeps its type.
THEOREM TypeCorrect == Spec => []TypeOK
  BY InitType, NextType, PTL DEF Spec

-----------------------------------------------------------------------------
(* The two flags *)

\* Between callbacks the thread's flag is that of the session, except that a
\* session which is dead and not yet noticed may have either.
SessionInv ==
    /\ socket = "up" => connected
    /\ socket \in {"down", "closed"} => ~connected
    /\ thread \in {"subscribe", "announce", "dispatch"} => connected
    /\ thread = "withdraw" => ~connected

\* A message is preceded in the queue by the news that the session is up.
EachArrivesConnected ==
    \A i \in 0 .. Len(inbox) - 1 : ~IsNews(inbox[i + 1]) => FlagAfter(i, TRUE)

FlagInv == SessionInv /\ FlagsConverge /\ EachArrivesConnected

LEMMA SessionKept == TypeOK /\ SessionInv /\ [Next]_vars => SessionInv'
<1> SUFFICES ASSUME TypeOK, SessionInv, [Next]_vars PROVE SessionInv'
  OBVIOUS
<1> USE DEF SessionInv, netVars
<1>1. CASE OnConnect \/ OnRefused \/ Subscribe \/ Announce
  BY <1>1 DEF OnConnect, OnRefused, Subscribe, Announce
<1>2. CASE OnDisconnect
  BY <1>2 DEF OnDisconnect
<1>10. CASE Withdraw
  BY <1>10 DEF Withdraw
<1>8. CASE OnMessage
  BY <1>8 DEF OnMessage
<1>9. CASE Dispatch
  BY <1>9 DEF Dispatch
<1>3. CASE ThreadEnds \/ RunTask \/ Stop
  BY <1>3 DEF ThreadEnds, RunTask, Stop
<1>4. ASSUME NEW v \in Horn, PostTifon(v) PROVE SessionInv'
  BY <1>4 DEF PostTifon
<1>5. CASE BrokerReceives \/ SessionEnds
  BY <1>5 DEF BrokerReceives, SessionEnds
<1>6. ASSUME NEW m \in Wire, OtherPublishes(m) PROVE SessionInv'
  BY <1>6 DEF OtherPublishes
<1>7. CASE UNCHANGED vars
  BY <1>7 DEF vars
<1> QED
  BY <1>1, <1>2, <1>3, <1>4, <1>5, <1>6, <1>7, <1>8, <1>9,
     <1>10 DEF Next, ThreadStep

\* Adding a task changes nothing for those before it, ...
LEMMA AppendKeeps ==
  ASSUME inbox \in Seq(Item), NEW e \in Item, inbox' = Append(inbox, e),
         mqttFlag' = mqttFlag, NEW n \in 0 .. Len(inbox), NEW b \in BOOLEAN
  PROVE  FlagAfter(n, b) => FlagAfter(n, b)'
<1>1. \A i \in 1 .. n : inbox'[i] = inbox[i]
  OBVIOUS
<1>2. CASE mqttFlag = b /\ \A i \in 1 .. n : ~IsNews(inbox[i])
  BY <1>1, <1>2 DEF FlagAfter
<1>3. ASSUME NEW i \in 1 .. n, inbox[i] = Event("connection", b),
             \A j \in i + 1 .. n : ~IsNews(inbox[j])
      PROVE  FlagAfter(n, b)'
  <2>1. inbox'[i] = Event("connection", b) /\ \A j \in i + 1 .. n : ~IsNews(inbox'[j])
    BY <1>1, <1>3
  <2> QED
    BY <2>1 DEF FlagAfter
<1> QED
  BY <1>2, <1>3 DEF FlagAfter

\* ... a message leaves the flag to come as it is, ...
LEMMA AppendMessage ==
  ASSUME inbox \in Seq(Item), NEW e \in Item, ~IsNews(e), inbox' = Append(inbox, e),
         mqttFlag' = mqttFlag, NEW b \in BOOLEAN, FlagAfter(Len(inbox), b)
  PROVE  FlagAfter(Len(inbox), b)'
<1>1. /\ \A i \in 1 .. Len(inbox) : inbox'[i] = inbox[i]
      /\ inbox'[Len(inbox) + 1] = e
      /\ Len(inbox') = Len(inbox) + 1
      /\ Len(inbox) \in Nat
  OBVIOUS
<1>2. ASSUME NEW k \in Nat, \A j \in k .. Len(inbox) : ~IsNews(inbox[j]), k >= 1
      PROVE  \A j \in k .. Len(inbox') : ~IsNews(inbox'[j])
  <2> SUFFICES ASSUME NEW j \in k .. Len(inbox') PROVE ~IsNews(inbox'[j])
    OBVIOUS
  <2> QED
    BY <1>1, <1>2
<1>3. CASE mqttFlag = b /\ \A i \in 1 .. Len(inbox) : ~IsNews(inbox[i])
  BY <1>2, <1>3 DEF FlagAfter
<1>4. ASSUME NEW i \in 1 .. Len(inbox), inbox[i] = Event("connection", b),
             \A j \in i + 1 .. Len(inbox) : ~IsNews(inbox[j])
      PROVE  FlagAfter(Len(inbox), b)'
  <2>1. \A j \in i + 1 .. Len(inbox') : ~IsNews(inbox'[j])
    BY <1>2, <1>4
  <2>2. i \in 1 .. Len(inbox') /\ inbox'[i] = Event("connection", b)
    BY <1>1, <1>4
  <2> QED
    BY <2>1, <2>2 DEF FlagAfter
<1> QED
  BY <1>3, <1>4 DEF FlagAfter

\* ... and news decides it.
LEMMA AppendNews ==
  ASSUME inbox \in Seq(Item), NEW b \in BOOLEAN,
         inbox' = Append(inbox, Event("connection", b))
  PROVE  FlagAfter(Len(inbox), b)'
<1>1. /\ inbox'[Len(inbox')] = Event("connection", b)
      /\ Len(inbox') \in Nat \ {0}
  OBVIOUS
<1> QED
  BY <1>1 DEF FlagAfter

\* The loop runs the first task: one less to go.
LEMMA RunKeeps ==
  ASSUME TypeOK, RunTask, NEW n \in 0 .. Len(inbox) - 1, NEW b \in BOOLEAN,
         FlagAfter(n + 1, b)
  PROVE  FlagAfter(n, b)'
<1>1. /\ Len(inbox) \in Nat \ {0}
      /\ inbox' = Tail(inbox)
      /\ \A i \in 1 .. n : inbox'[i] = inbox[i + 1]
      /\ Head(inbox) = inbox[1]
      /\ inbox[1] \in Item
  BY DEF TypeOK, RunTask
<1>2. IF IsNews(inbox[1]) THEN mqttFlag' = inbox[1].value ELSE mqttFlag' = mqttFlag
  BY <1>1, ItemKinds DEF RunTask, Run, IsNews
<1>3. CASE mqttFlag = b /\ \A i \in 1 .. n + 1 : ~IsNews(inbox[i])
  BY <1>1, <1>2, <1>3 DEF FlagAfter
<1>4. ASSUME NEW i \in 1 .. n + 1, inbox[i] = Event("connection", b),
             \A j \in i + 1 .. n + 1 : ~IsNews(inbox[j])
      PROVE  FlagAfter(n, b)'
  <2>1. CASE i = 1
    <3>1. mqttFlag' = b
      BY <1>2, <1>4, <2>1 DEF IsNews, Event
    <3>2. \A j \in 1 .. n : ~IsNews(inbox'[j])
      BY <1>1, <1>4, <2>1
    <3> QED
      BY <3>1, <3>2 DEF FlagAfter
  <2>2. CASE i # 1
    <3>1. i - 1 \in 1 .. n /\ inbox'[i - 1] = Event("connection", b)
      BY <1>1, <1>4, <2>2
    <3>2. \A j \in i .. n : ~IsNews(inbox'[j])
      BY <1>1, <1>4, <2>2
    <3>3. (i - 1) + 1 = i
      OBVIOUS
    <3> QED
      BY <3>1, <3>2, <3>3 DEF FlagAfter
  <2> QED
    BY <2>1, <2>2
<1> QED
  BY <1>3, <1>4 DEF FlagAfter

-----------------------------------------------------------------------------

LEMMA FlagInit == Init => FlagInv
<1> SUFFICES ASSUME Init PROVE FlagInv
  OBVIOUS
<1>1. SessionInv
  BY DEF Init, SessionInv
<1>2. mqttFlag = connected
  BY DEF Init
<1>5. Len(inbox) = 0
  BY DEF Init
<1>3. FlagsConverge
  <2>1. \A i \in 1 .. Len(inbox) : ~IsNews(inbox[i])
    BY <1>5
  <2> QED
    BY <1>2, <2>1 DEF FlagsConverge, FlagAfter
<1>4. EachArrivesConnected
  BY <1>5 DEF EachArrivesConnected
<1> QED
  BY <1>1, <1>3, <1>4 DEF FlagInv

\* A callback that hands nothing to the loop: the queue and the flag stay.
LEMMA QueueIdle ==
  ASSUME UNCHANGED <<inbox, mqttFlag>>
  PROVE  /\ EachArrivesConnected => EachArrivesConnected'
         /\ \A b \in BOOLEAN : FlagAfter(Len(inbox), b) => FlagAfter(Len(inbox), b)'
  BY DEF EachArrivesConnected, FlagAfter

\* The thread hands news to the loop.
LEMMA NewsKept ==
  ASSUME TypeOK, FlagInv, NEW b \in BOOLEAN, Schedule("connection", b), mqttFlag' = mqttFlag
  PROVE  EachArrivesConnected' /\ FlagAfter(Len(inbox), b)'
<1> DEFINE e == Event("connection", b)
<1>1. e \in Item /\ inbox' = Append(inbox, e) /\ IsNews(e)
  BY ItemTypes DEF Schedule, IsNews, Event
<1>2. inbox \in Seq(Item)
  BY DEF TypeOK
<1>3. FlagAfter(Len(inbox), b)'
  BY <1>1, <1>2, AppendNews
<1>4. ASSUME NEW i \in 0 .. Len(inbox') - 1, ~IsNews(inbox'[i + 1])
      PROVE  FlagAfter(i, TRUE)'
  <2>1. i \in 0 .. Len(inbox) - 1 /\ inbox'[i + 1] = inbox[i + 1] /\ i \in 0 .. Len(inbox)
    BY <1>1, <1>2, <1>4
  <2>2. FlagAfter(i, TRUE)
    BY <1>4, <2>1 DEF FlagInv, EachArrivesConnected
  <2> HIDE DEF e
  <2> QED
    BY <1>1, <1>2, <2>1, <2>2, AppendKeeps
<1> QED
  BY <1>3, <1>4 DEF EachArrivesConnected

\* The thread hands a message to the loop while it counts itself connected.
LEMMA MessageKept ==
  ASSUME TypeOK, FlagInv, NEW kind \in {"raw", "board", "act"}, NEW value,
         Event(kind, value) \in Item, Schedule(kind, value), mqttFlag' = mqttFlag,
         FlagAfter(Len(inbox), TRUE)
  PROVE  EachArrivesConnected' /\ FlagAfter(Len(inbox), TRUE)'
<1> DEFINE e == Event(kind, value)
<1>1. e \in Item /\ inbox' = Append(inbox, e) /\ ~IsNews(e)
  BY DEF Schedule, IsNews, Event
<1>2. inbox \in Seq(Item)
  BY DEF TypeOK
<1> HIDE DEF e
<1>3. FlagAfter(Len(inbox), TRUE)'
  BY <1>1, <1>2, AppendMessage
<1>4. ASSUME NEW i \in 0 .. Len(inbox') - 1, ~IsNews(inbox'[i + 1])
      PROVE  FlagAfter(i, TRUE)'
  <2>1. i \in 0 .. Len(inbox)
    BY <1>1, <1>2
  <2>2. FlagAfter(i, TRUE)
    <3>1. CASE i = Len(inbox)
      BY <3>1
    <3>2. CASE i # Len(inbox)
      <4>1. i \in 0 .. Len(inbox) - 1 /\ inbox'[i + 1] = inbox[i + 1]
        BY <1>1, <1>2, <3>2
      <4> QED
        BY <1>4, <4>1 DEF FlagInv, EachArrivesConnected
    <3> QED
      BY <3>1, <3>2
  <2> QED
    BY <1>1, <1>2, <2>1, <2>2, AppendKeeps
<1> QED
  BY <1>3, <1>4 DEF EachArrivesConnected

LEMMA FlagKept == TypeOK /\ FlagInv /\ [Next]_vars => FlagInv'
<1> SUFFICES ASSUME TypeOK, FlagInv, [Next]_vars
             PROVE  FlagsConverge' /\ EachArrivesConnected'
  BY SessionKept DEF FlagInv
<1> USE DEF loopVars
<1>0. connected \in BOOLEAN /\ SessionInv /\ FlagsConverge /\ EachArrivesConnected
  BY DEF TypeOK, FlagInv
<1>1. CASE OnConnect \/ OnDisconnect
  BY <1>0, <1>1, QueueIdle DEF OnConnect, OnDisconnect, FlagsConverge
<1>2. CASE OnRefused
  <2>1. connected = FALSE /\ connected' = FALSE /\ thread = "idle"
    BY <1>0, <1>2 DEF OnRefused, SessionInv
  <2> QED
    BY <1>0, <1>2, <2>1, QueueIdle DEF OnRefused, FlagsConverge
<1>3. CASE Subscribe
  BY <1>0, <1>3, QueueIdle DEF Subscribe, FlagsConverge
<1>4. CASE Announce
  <2>1. connected = TRUE /\ connected' = TRUE
    BY <1>0, <1>4 DEF Announce, SessionInv
  <2> QED
    BY <1>4, <2>1, NewsKept DEF Announce, FlagsConverge
<1>5. CASE Withdraw
  <2>1. connected = FALSE /\ connected' = FALSE
    BY <1>0, <1>5 DEF Withdraw, SessionInv
  <2> QED
    BY <1>5, <2>1, NewsKept DEF Withdraw, FlagsConverge
<1>6. CASE OnMessage
  <2>1. connected = TRUE /\ connected' = TRUE /\ FlagAfter(Len(inbox), TRUE)
    BY <1>0, <1>6 DEF OnMessage, SessionInv, FlagsConverge
  <2>2. Event("raw", Head(incoming)) \in Item
    BY <1>6, ItemTypes DEF OnMessage, TypeOK
  <2> QED
    BY <1>6, <2>1, <2>2, MessageKept DEF OnMessage, FlagsConverge
<1>7. CASE Dispatch
  <2>1. connected = TRUE /\ connected' = TRUE /\ FlagAfter(Len(inbox), TRUE)
        /\ mqttFlag' = mqttFlag
    BY <1>0, <1>7 DEF Dispatch, SessionInv, FlagsConverge
  <2>2. CASE inHand \in BoardData /\ Schedule("board", inHand)
    BY <2>1, <2>2, ItemTypes, MessageKept DEF FlagsConverge
  <2>3. CASE inHand \in Horn /\ Schedule("act", inHand)
    BY <2>1, <2>3, ItemTypes, MessageKept DEF FlagsConverge
  <2>4. CASE UNCHANGED inbox
    BY <1>0, <2>1, <2>4, QueueIdle DEF FlagsConverge
  <2> QED
    BY <1>7, <2>2, <2>3, <2>4 DEF Dispatch
<1>8. CASE ThreadEnds
  <2>1. connected = FALSE /\ connected' = FALSE /\ thread = "idle"
    BY <1>0, <1>8 DEF ThreadEnds, SessionInv
  <2> QED
    BY <1>0, <1>8, <2>1, QueueIdle DEF ThreadEnds, FlagsConverge
<1>9. CASE RunTask
  <2>1. /\ Len(inbox) \in Nat \ {0} /\ Len(inbox') = Len(inbox) - 1
        /\ \A i \in 1 .. Len(inbox') : inbox'[i] = inbox[i + 1]
        /\ UNCHANGED <<thread, connected>>
    BY <1>9 DEF RunTask, TypeOK
  <2>2. FlagsConverge'
    <3>1. Len(inbox) = Len(inbox') + 1 /\ Len(inbox') \in 0 .. Len(inbox) - 1
      BY <2>1
    <3>2. FlagAfter(Len(inbox), connected) => FlagAfter(Len(inbox') + 1, connected)
      BY <3>1
    <3> QED
      BY <1>0, <1>9, <2>1, <3>1, <3>2, RunKeeps DEF FlagsConverge
  <2>3. ASSUME NEW i \in 0 .. Len(inbox') - 1, ~IsNews(inbox'[i + 1])
        PROVE  FlagAfter(i, TRUE)'
    <3>1. i + 1 \in 0 .. Len(inbox) - 1 /\ ~IsNews(inbox[(i + 1) + 1])
      BY <2>1, <2>3
    <3>2. FlagAfter(i + 1, TRUE)
      BY <1>0, <3>1 DEF EachArrivesConnected
    <3>3. i \in 0 .. Len(inbox) - 1
      BY <2>1, <2>3
    <3> QED
      BY <1>9, <3>2, <3>3, RunKeeps
  <2> QED
    BY <2>2, <2>3 DEF EachArrivesConnected
<1>10. CASE Stop
  BY <1>0, <1>10, QueueIdle DEF Stop, FlagsConverge
<1>11. ASSUME NEW v \in Horn, PostTifon(v)
       PROVE  FlagsConverge' /\ EachArrivesConnected'
  BY <1>0, <1>11, QueueIdle DEF PostTifon, FlagsConverge
<1>12. CASE BrokerReceives \/ SessionEnds
  BY <1>0, <1>12, QueueIdle DEF BrokerReceives, SessionEnds, FlagsConverge
<1>13. ASSUME NEW m \in Wire, OtherPublishes(m)
       PROVE  FlagsConverge' /\ EachArrivesConnected'
  BY <1>0, <1>13, QueueIdle DEF OtherPublishes, FlagsConverge
<1>14. CASE UNCHANGED vars
  BY <1>0, <1>14, QueueIdle DEF vars, FlagsConverge
<1> QED
  BY <1>1, <1>2, <1>3, <1>4, <1>5, <1>6, <1>7, <1>8, <1>9, <1>10, <1>11, <1>12,
     <1>13, <1>14 DEF Next, ThreadStep

\* The runtime's flag will be the thread's when the events waiting have run.
THEOREM FlagsAgree == Spec => []FlagsConverge
<1>1. TypeOK /\ FlagInv /\ [Next]_vars => (TypeOK /\ FlagInv)'
  BY NextType, FlagKept
<1>2. Init => TypeOK /\ FlagInv
  BY InitType, FlagInit
<1>3. FlagInv => FlagsConverge
  BY DEF FlagInv
<1> QED
  BY <1>1, <1>2, <1>3, PTL DEF Spec

\* Every message is handled after the news that the session is up.
THEOREM MessagesConnected == Spec => []MessagesArriveConnected
<1>1. TypeOK /\ FlagInv /\ [Next]_vars => (TypeOK /\ FlagInv)'
  BY NextType, FlagKept
<1>2. Init => TypeOK /\ FlagInv
  BY InitType, FlagInit
<1>3. TypeOK /\ FlagInv => MessagesArriveConnected
  <2> SUFFICES ASSUME TypeOK, FlagInv, inbox # <<>>, ~IsNews(Head(inbox))
               PROVE  mqttFlag
    BY DEF MessagesArriveConnected
  <2>1. 0 \in 0 .. Len(inbox) - 1 /\ Head(inbox) = inbox[0 + 1]
    BY DEF TypeOK
  <2>2. FlagAfter(0, TRUE)
    BY <2>1 DEF FlagInv, EachArrivesConnected
  <2> QED
    BY <2>2 DEF FlagAfter
<1> QED
  BY <1>1, <1>2, <1>3, PTL DEF Spec

-----------------------------------------------------------------------------
(* The horn *)

\* Of what is in s, the last that is in S is e; nothing in s is in S.
LastIn(s, S, e) ==
    \E i \in 1 .. Len(s) :
        s[i] = e /\ e \in S /\ \A j \in i + 1 .. Len(s) : s[j] \notin S
NoneIn(s, S) == \A i \in 1 .. Len(s) : s[i] \notin S

Acts == {item \in Item : item.kind = "act"}

\* The horn the store will have when all messages under way to it, from the
\* broker through the thread's hands to the queue of the loop, have been run.
Coming(v) ==
    \/ LastIn(incoming, Horn, v)
    \/ /\ NoneIn(incoming, Horn)
       /\ \/ inHand \in Horn /\ inHand = v
          \/ inHand \notin Horn /\ LastIn(inbox, Acts, Event("act", v))
          \/ inHand \notin Horn /\ NoneIn(inbox, Acts) /\ tifon = v

\* The thread has a message in hand only while it dispatches it.
HandInv == thread # "dispatch" => inHand = NoMessage

\* With no command on its way to the broker and the last one there received by
\* both sides, the store will have what the board has.
HornInv == HandInv /\ (~missed /\ NoneIn(outgoing, Horn) => Coming(horn))


LEMMA AppendIn ==
  ASSUME NEW T, NEW s \in Seq(T), NEW S, NEW x \in T, x \in S
  PROVE  LastIn(Append(s, x), S, x) /\ ~NoneIn(Append(s, x), S)
<1>1. Len(Append(s, x)) = Len(s) + 1 /\ Append(s, x)[Len(s) + 1] = x /\ Len(s) \in Nat
  OBVIOUS
<1> QED
  BY <1>1 DEF LastIn, NoneIn

LEMMA AppendOut ==
  ASSUME NEW T, NEW s \in Seq(T), NEW S, NEW x \in T, x \notin S
  PROVE  /\ \A e : LastIn(s, S, e) => LastIn(Append(s, x), S, e)
         /\ NoneIn(s, S) => NoneIn(Append(s, x), S)
<1>1. /\ Len(Append(s, x)) = Len(s) + 1 /\ Append(s, x)[Len(s) + 1] = x
      /\ \A i \in 1 .. Len(s) : Append(s, x)[i] = s[i]
      /\ Len(s) \in Nat
  OBVIOUS
<1>2. ASSUME NEW e, LastIn(s, S, e) PROVE LastIn(Append(s, x), S, e)
  <2>1. PICK i \in 1 .. Len(s) :
           s[i] = e /\ e \in S /\ \A j \in i + 1 .. Len(s) : s[j] \notin S
    BY <1>2 DEF LastIn
  <2>2. \A j \in i + 1 .. Len(Append(s, x)) : Append(s, x)[j] \notin S
    <3> SUFFICES ASSUME NEW j \in i + 1 .. Len(s) + 1 PROVE Append(s, x)[j] \notin S
      BY <1>1
    <3> QED
      BY <1>1, <2>1
  <2>3. i \in 1 .. Len(Append(s, x)) /\ Append(s, x)[i] = e
    BY <1>1, <2>1
  <2> QED
    BY <2>1, <2>2, <2>3 DEF LastIn
<1>3. NoneIn(s, S) => NoneIn(Append(s, x), S)
  BY <1>1 DEF NoneIn
<1> QED
  BY <1>2, <1>3

\* The first element is taken: the last of S is still there, or it was the one
\* taken.
LEMMA TailLast ==
  ASSUME NEW T, NEW s \in Seq(T), s # <<>>, NEW S
  PROVE  /\ \A e : LastIn(s, S, e) =>
               \/ LastIn(Tail(s), S, e)
               \/ Head(s) = e /\ e \in S /\ NoneIn(Tail(s), S)
         /\ NoneIn(s, S) <=> Head(s) \notin S /\ NoneIn(Tail(s), S)
<1>1. /\ Len(s) \in Nat \ {0} /\ Len(Tail(s)) = Len(s) - 1
      /\ Head(s) = s[1]
      /\ \A i \in 1 .. Len(Tail(s)) : Tail(s)[i] = s[i + 1]
  OBVIOUS
<1>2. ASSUME NEW e, LastIn(s, S, e)
      PROVE  \/ LastIn(Tail(s), S, e)
             \/ Head(s) = e /\ e \in S /\ NoneIn(Tail(s), S)
  <2>1. PICK i \in 1 .. Len(s) :
           s[i] = e /\ e \in S /\ \A j \in i + 1 .. Len(s) : s[j] \notin S
    BY <1>2 DEF LastIn
  <2>2. CASE i = 1
    BY <1>1, <2>1, <2>2 DEF NoneIn
  <2>3. CASE i # 1
    <3>1. i - 1 \in 1 .. Len(Tail(s)) /\ Tail(s)[i - 1] = e
      BY <1>1, <2>1, <2>3
    <3>2. \A j \in (i - 1) + 1 .. Len(Tail(s)) : Tail(s)[j] \notin S
      BY <1>1, <2>1, <2>3
    <3> QED
      BY <2>1, <3>1, <3>2 DEF LastIn
  <2> QED
    BY <2>2, <2>3
<1>3. NoneIn(s, S) <=> Head(s) \notin S /\ NoneIn(Tail(s), S)
  <2>1. ASSUME NoneIn(s, S) PROVE Head(s) \notin S /\ NoneIn(Tail(s), S)
    BY <1>1, <2>1 DEF NoneIn
  <2>2. ASSUME Head(s) \notin S, NoneIn(Tail(s), S), NEW i \in 1 .. Len(s)
        PROVE  s[i] \notin S
    <3>1. CASE i = 1
      BY <1>1, <2>2, <3>1
    <3>2. CASE i # 1
      <4>1. i - 1 \in 1 .. Len(Tail(s)) /\ Tail(s)[i - 1] = s[i]
        BY <1>1, <3>2
      <4> QED
        BY <2>2, <4>1 DEF NoneIn
    <3> QED
      BY <3>1, <3>2
  <2> QED
    BY <2>1, <2>2 DEF NoneIn
<1> QED
  BY <1>2, <1>3

\* An element is the last of S, or nothing is in S: not both.
LEMMA NotBoth ==
  ASSUME NEW s, NEW S, NEW e, LastIn(s, S, e)
  PROVE  ~NoneIn(s, S)
  BY DEF LastIn, NoneIn

LEMMA HornTypes ==
  ASSUME TypeOK
  PROVE  /\ outgoing \in Seq(Horn \cup {"subscribe"})
         /\ incoming \in Seq(Wire)
         /\ inbox \in Seq(Item)
         /\ NoMessage \notin Horn
         /\ "subscribe" \notin Horn
         /\ Horn \subseteq Wire
         /\ missed \in BOOLEAN
  BY WireAssumption DEF TypeOK, Wire

\* What is under way, and the store, are as they were.
LEMMA ComingStays ==
  ASSUME UNCHANGED <<incoming, inHand, inbox, tifon>>, NEW v
  PROVE  Coming(v) => Coming(v)'
  BY DEF Coming

LEMMA HornInit == Init => HornInv
<1> SUFFICES ASSUME Init PROVE HornInv
  OBVIOUS
<1>1. /\ incoming = <<>> /\ inbox = <<>> /\ inHand = NoMessage /\ tifon = horn
      /\ NoMessage \notin Horn
  BY WireAssumption DEF Init, Wire
<1>2. \A S : NoneIn(<<>>, S)
  BY DEF NoneIn
<1> QED
  BY <1>1, <1>2 DEF HornInv, HandInv, Coming

LEMMA HandKept == TypeOK /\ HandInv /\ [Next]_vars => HandInv'
<1> SUFFICES ASSUME TypeOK, HandInv, [Next]_vars PROVE HandInv'
  OBVIOUS
<1> USE DEF HandInv
<1>1. CASE OnConnect \/ OnRefused \/ Subscribe \/ Announce
  BY <1>1 DEF OnConnect, OnRefused, Subscribe, Announce
<1>2. CASE OnDisconnect \/ Withdraw \/ OnMessage
  BY <1>2 DEF OnDisconnect, Withdraw, OnMessage
<1>3. CASE Dispatch
  BY <1>3 DEF Dispatch
<1>4. CASE ThreadEnds \/ RunTask \/ Stop
  BY <1>4 DEF ThreadEnds, RunTask, Stop
<1>5. ASSUME NEW v \in Horn, PostTifon(v) PROVE HandInv'
  BY <1>5 DEF PostTifon
<1>6. CASE BrokerReceives \/ SessionEnds
  BY <1>6 DEF BrokerReceives, SessionEnds
<1>7. ASSUME NEW m \in Wire, OtherPublishes(m) PROVE HandInv'
  BY <1>7 DEF OtherPublishes
<1>8. CASE UNCHANGED vars
  BY <1>8 DEF vars
<1> QED
  BY <1>1, <1>2, <1>3, <1>4, <1>5, <1>6, <1>7, <1>8 DEF Next, ThreadStep

\* The thread takes a message from the socket: what was last stays last.
LEMMA OnMessageComing ==
  ASSUME TypeOK, HandInv, OnMessage, NEW v, Coming(v)
  PROVE  Coming(v)'
<1>1. /\ incoming \in Seq(Wire) /\ incoming # <<>> /\ incoming' = Tail(incoming)
      /\ inHand \notin Horn /\ inHand' = Head(incoming) /\ tifon' = tifon
  BY HornTypes DEF OnMessage, HandInv, loopVars
<1>2. /\ inbox \in Seq(Item) /\ inbox' = Append(inbox, Event("raw", Head(incoming)))
      /\ Event("raw", Head(incoming)) \in Item
      /\ Event("raw", Head(incoming)) \notin Acts
  <2>1. Head(incoming) \in Wire
    BY <1>1
  <2> QED
    BY <2>1, HornTypes, ItemTypes DEF OnMessage, Schedule, Acts, Event
<1>3. CASE LastIn(incoming, Horn, v)
  <2>1. CASE LastIn(Tail(incoming), Horn, v)
    BY <1>1, <2>1 DEF Coming
  <2>2. CASE Head(incoming) = v /\ v \in Horn /\ NoneIn(Tail(incoming), Horn)
    BY <1>1, <2>2 DEF Coming
  <2> QED
    BY <1>1, <1>3, <2>1, <2>2, TailLast
<1>4. CASE NoneIn(incoming, Horn) /\ ~LastIn(incoming, Horn, v)
  <2>1. Head(incoming) \notin Horn /\ NoneIn(Tail(incoming), Horn)
    BY <1>1, <1>4, TailLast
  <2>2. \/ LastIn(inbox, Acts, Event("act", v))
        \/ NoneIn(inbox, Acts) /\ tifon = v
    BY <1>1, <1>4 DEF Coming
  <2>3. \/ LastIn(inbox', Acts, Event("act", v))
        \/ NoneIn(inbox', Acts) /\ tifon' = v
    BY <1>1, <1>2, <2>2, AppendOut
  <2> QED
    BY <1>1, <2>1, <2>3 DEF Coming
<1> QED
  BY <1>3, <1>4 DEF Coming

\* The thread hands it on, or drops what is no command.
LEMMA DispatchComing ==
  ASSUME TypeOK, Dispatch, NEW v, Coming(v)
  PROVE  Coming(v)'
<1>1. /\ incoming' = incoming /\ inHand' = NoMessage /\ NoMessage \notin Horn
      /\ tifon' = tifon /\ inbox \in Seq(Item)
  BY HornTypes DEF Dispatch, netVars, loopVars
<1>2. CASE LastIn(incoming, Horn, v)
  BY <1>1, <1>2 DEF Coming
<1>3. CASE NoneIn(incoming, Horn) /\ ~LastIn(incoming, Horn, v)
  <2>1. CASE inHand \in BoardData /\ Schedule("board", inHand)
    <3>1. inHand \notin Horn
      BY <2>1, WireAssumption
    <3>2. /\ inbox' = Append(inbox, Event("board", inHand))
          /\ Event("board", inHand) \in Item /\ Event("board", inHand) \notin Acts
      BY <2>1, ItemTypes DEF Schedule, Acts, Event
    <3>3. \/ LastIn(inbox', Acts, Event("act", v))
          \/ NoneIn(inbox', Acts) /\ tifon' = v
      BY <1>1, <1>3, <3>1, <3>2, AppendOut DEF Coming
    <3> QED
      BY <1>1, <1>3, <3>3 DEF Coming
  <2>2. CASE inHand \in Horn /\ Schedule("act", inHand)
    <3>1. inHand = v
      BY <1>3, <2>2 DEF Coming
    <3>2. /\ inbox' = Append(inbox, Event("act", v))
          /\ Event("act", v) \in Item /\ Event("act", v) \in Acts
      BY <2>2, <3>1, ItemTypes DEF Schedule, Acts, Event
    <3>3. LastIn(inbox', Acts, Event("act", v))
      BY <1>1, <3>2, AppendIn
    <3> QED
      BY <1>1, <1>3, <3>3 DEF Coming
  <2>3. CASE inHand \in Junk /\ UNCHANGED inbox
    <3>1. inHand \notin Horn
      BY <2>3, WireAssumption
    <3> QED
      BY <1>1, <1>3, <2>3, <3>1 DEF Coming
  <2> QED
    BY <2>1, <2>2, <2>3 DEF Dispatch
<1> QED
  BY <1>2, <1>3 DEF Coming

\* The loop runs the first task: a command reaches the store.
LEMMA RunTaskComing ==
  ASSUME TypeOK, RunTask, NEW v, Coming(v)
  PROVE  Coming(v)'
<1>1. /\ UNCHANGED <<incoming, inHand>> /\ inbox \in Seq(Item) /\ inbox # <<>>
      /\ inbox' = Tail(inbox) /\ Head(inbox) \in Item
  BY HornTypes DEF RunTask, netVars
<1>2. Head(inbox) \notin Acts => tifon' = tifon
  BY <1>1, ItemKinds DEF RunTask, Run, Acts
<1>3. Head(inbox) \in Acts => tifon' = Head(inbox).value
  BY <1>1, ItemKinds DEF RunTask, Run, Acts
<1>4. CASE LastIn(inbox, Acts, Event("act", v))
  <2>1. \/ LastIn(inbox', Acts, Event("act", v))
        \/ Head(inbox) = Event("act", v) /\ Head(inbox) \in Acts /\ NoneIn(inbox', Acts)
    BY <1>1, <1>4, TailLast
  <2>2. Event("act", v).value = v
    BY DEF Event
  <2>3. \/ LastIn(inbox', Acts, Event("act", v))
        \/ NoneIn(inbox', Acts) /\ tifon' = v
    BY <1>3, <2>1, <2>2
  <2> QED
    BY <1>1, <2>3 DEF Coming
<1>5. CASE NoneIn(inbox, Acts) /\ tifon = v
  <2>1. NoneIn(inbox', Acts) /\ tifon' = v
    BY <1>1, <1>2, <1>5, TailLast
  <2> QED
    BY <1>1, <2>1 DEF Coming
<1>6. CASE LastIn(incoming, Horn, v) \/ inHand \in Horn
  BY <1>1, <1>6 DEF Coming
<1> QED
  BY <1>4, <1>5, <1>6 DEF Coming

\* A command at the broker that reaches both sides is the last one under way.
LEMMA ForwardComing ==
  ASSUME TypeOK, NEW v \in Horn, Forward(v), ~missed'
  PROVE  Coming(horn)'
<1>1. horn' = v /\ incoming' = Append(incoming, v)
  BY DEF Forward
<1>2. LastIn(incoming', Horn, v)
  BY <1>1, HornTypes, AppendIn
<1> QED
  BY <1>1, <1>2 DEF Coming

LEMMA HornKept == TypeOK /\ HornInv /\ [Next]_vars => HornInv'
<1> SUFFICES ASSUME TypeOK, HornInv, [Next]_vars, ~missed', NoneIn(outgoing', Horn)
             PROVE  Coming(horn)'
  BY HandKept DEF HornInv
<1>0. HandInv /\ (~missed /\ NoneIn(outgoing, Horn) => Coming(horn))
  BY DEF HornInv
<1> USE DEF netVars, loopVars
<1>1. CASE OnConnect \/ OnRefused \/ OnDisconnect
  BY <1>0, <1>1, ComingStays DEF OnConnect, OnRefused, OnDisconnect
<1>2. CASE Subscribe
  <2>1. UNCHANGED <<incoming, inHand, inbox, tifon, horn, missed>>
    BY <1>2 DEF Subscribe
  <2>2. NoneIn(outgoing, Horn)
    <3>1. CASE outgoing' = outgoing
      BY <3>1
    <3>2. CASE outgoing' = Append(outgoing, "subscribe")
      <4>1. /\ Len(outgoing') = Len(outgoing) + 1 /\ Len(outgoing) \in Nat
            /\ \A i \in 1 .. Len(outgoing) : outgoing'[i] = outgoing[i]
        BY <3>2, HornTypes
      <4> QED
        BY <4>1 DEF NoneIn
    <3> QED
      BY <1>2, <3>1, <3>2 DEF Subscribe
  <2> QED
    BY <1>0, <2>1, <2>2, ComingStays
<1>3. ASSUME NEW b \in BOOLEAN, Schedule("connection", b),
             UNCHANGED <<incoming, inHand, outgoing, tifon, horn, missed>>
      PROVE  Coming(horn)'
  <2>1. /\ inbox' = Append(inbox, Event("connection", b))
        /\ Event("connection", b) \in Item /\ Event("connection", b) \notin Acts
    BY <1>3, ItemTypes DEF Schedule, Acts, Event
  <2>2. /\ LastIn(inbox, Acts, Event("act", horn)) => LastIn(inbox', Acts, Event("act", horn))
        /\ NoneIn(inbox, Acts) => NoneIn(inbox', Acts)
    BY <2>1, HornTypes, AppendOut
  <2> QED
    BY <1>0, <1>3, <2>2 DEF Coming
<1>4. CASE Announce \/ Withdraw
  BY <1>3, <1>4 DEF Announce, Withdraw
<1>5. CASE OnMessage
  BY <1>0, <1>5, OnMessageComing DEF OnMessage
<1>6. CASE Dispatch
  BY <1>0, <1>6, DispatchComing DEF Dispatch
<1>7. CASE ThreadEnds \/ Stop
  BY <1>0, <1>7, ComingStays DEF ThreadEnds, Stop
<1>8. CASE RunTask
  BY <1>0, <1>8, RunTaskComing DEF RunTask
<1>9. ASSUME NEW v \in Horn, PostTifon(v) PROVE Coming(horn)'
  <2>1. socket = "up" /\ outgoing' = Append(outgoing, v)
    BY <1>9 DEF PostTifon, PacketAccepted
  <2>2. ~NoneIn(outgoing', Horn)
    BY <2>1, HornTypes, AppendIn
  <2> QED
    BY <2>2
<1>10. CASE BrokerReceives
  <2>1. /\ outgoing # <<>> /\ outgoing' = Tail(outgoing)
        /\ Head(outgoing) \in Horn \cup {"subscribe"}
    BY <1>10, HornTypes DEF BrokerReceives
  <2>2. CASE Head(outgoing) = "subscribe"
    <3>1. NoneIn(outgoing, Horn)
      BY <2>1, <2>2, HornTypes, TailLast
    <3> QED
      BY <1>0, <1>10, <2>2, <3>1, ComingStays DEF BrokerReceives
  <2>3. CASE Head(outgoing) # "subscribe"
    BY <1>10, <2>1, <2>3, ForwardComing DEF BrokerReceives
  <2> QED
    BY <2>2, <2>3
<1>11. CASE SessionEnds
  <2>1. /\ ~missed /\ (Elements(outgoing) \cup Elements(incoming)) \cap Horn = {}
        /\ incoming' = <<>> /\ UNCHANGED <<inHand, inbox, tifon, horn>>
    BY <1>11, HornTypes DEF SessionEnds
  <2>2. NoneIn(outgoing, Horn) /\ NoneIn(incoming, Horn)
    BY <2>1 DEF Elements, NoneIn
  <2>3. ~LastIn(incoming, Horn, horn) /\ Coming(horn)
    BY <1>0, <2>1, <2>2, NotBoth
  <2>4. NoneIn(incoming', Horn)
    BY <2>1 DEF NoneIn
  <2> QED
    BY <2>1, <2>3, <2>4 DEF Coming
<1>12. ASSUME NEW m \in Wire, OtherPublishes(m) PROVE Coming(horn)'
  <2>1. CASE m \in Horn
    BY <1>12, <2>1, ForwardComing DEF OtherPublishes
  <2>2. CASE m \notin Horn
    <3>1. /\ incoming' = Append(incoming, m)
          /\ UNCHANGED <<outgoing, inHand, inbox, tifon, horn, missed>>
      BY <1>12, <2>2 DEF OtherPublishes
    <3>2. /\ LastIn(incoming, Horn, horn) => LastIn(incoming', Horn, horn)
          /\ NoneIn(incoming, Horn) => NoneIn(incoming', Horn)
      BY <2>2, <3>1, HornTypes, AppendOut
    <3> QED
      BY <1>0, <3>1, <3>2 DEF Coming
  <2> QED
    BY <2>1, <2>2
<1>13. CASE UNCHANGED vars
  BY <1>0, <1>13, ComingStays DEF vars
<1> QED
  BY <1>1, <1>2, <1>4, <1>5, <1>6, <1>7, <1>8, <1>9, <1>10, <1>11, <1>12, <1>13
     DEF Next, ThreadStep

\* When no command is under way and the last at the broker reached both sides,
\* the store shows what the board was told, after any race of commands of this
\* process, of other panels, of echoes and of sessions that end.
THEOREM HornAgrees == Spec => []HornAgreesWhenQuiet
<1>1. TypeOK /\ HornInv /\ [Next]_vars => (TypeOK /\ HornInv)'
  BY NextType, HornKept
<1>2. Init => TypeOK /\ HornInv
  BY InitType, HornInit
<1>3. TypeOK /\ HornInv => HornAgreesWhenQuiet
  <2> SUFFICES ASSUME TypeOK, HornInv, ~missed, ~HornPending PROVE tifon = horn
    BY DEF HornAgreesWhenQuiet
  <2>1. /\ NoneIn(outgoing, Horn) /\ NoneIn(incoming, Horn) /\ inHand \notin Horn
    BY DEF HornPending, Elements, NoneIn
  <2>2. NoneIn(inbox, Acts)
    BY DEF HornPending, NoneIn, Acts
  <2>3. Coming(horn)
    BY <2>1 DEF HornInv
  <2> QED
    BY <2>1, <2>2, <2>3, NotBoth DEF Coming
<1> QED
  BY <1>1, <1>2, <1>3, PTL DEF Spec

-----------------------------------------------------------------------------
(* The debug pages *)

\* The two tasks of a telemetry message are neighbours in the queue: the board
\* task comes directly after the raw text, which waits in front of it or was the
\* last one run; a raw text whose board task is not there yet is the last one
\* handed over, and the thread still has its message in hand.
HandFollows ==
    thread = "dispatch" =>
        \/ inbox = <<>> /\ debug.raw = inHand
        \/ inbox # <<>> /\ inbox[Len(inbox)] = Event("raw", inHand)
BoardsFollow ==
    \A i \in 1 .. Len(inbox) : inbox[i].kind = "board" =>
        \/ i = 1 /\ debug.raw = inbox[i].value
        \/ i > 1 /\ inbox[i - 1] = Event("raw", inbox[i].value)
RawsPrecede ==
    \A i \in 1 .. Len(inbox) : inbox[i].kind = "raw" /\ inbox[i].value \in BoardData =>
        \/ i < Len(inbox) /\ inbox[i + 1] = Event("board", inbox[i].value)
        \/ i = Len(inbox) /\ thread = "dispatch" /\ inHand = inbox[i].value
LastRawPrecedes ==
    debug.raw \in BoardData /\ debug.board # debug.raw =>
        \/ inbox # <<>> /\ inbox[1] = Event("board", debug.raw)
        \/ inbox = <<>> /\ thread = "dispatch" /\ inHand = debug.raw

DebugInv == HandFollows /\ BoardsFollow /\ RawsPrecede /\ LastRawPrecedes

LEMMA DebugInit == Init => DebugInv
<1> SUFFICES ASSUME Init PROVE DebugInv
  OBVIOUS
<1>1. inbox = <<>> /\ thread = "idle" /\ debug.raw = NoMessage /\ NoMessage \notin BoardData
  BY WireAssumption DEF Init, Wire
<1> QED
  BY <1>1 DEF DebugInv, HandFollows, BoardsFollow, RawsPrecede, LastRawPrecedes

\* A callback that touches neither the queue nor what was seen, and does not
\* take or drop a message.
LEMMA DebugStays ==
  ASSUME DebugInv, UNCHANGED <<inbox, debug>>,
         \/ UNCHANGED <<thread, inHand>>
         \/ thread # "dispatch" /\ thread' # "dispatch"
  PROVE  DebugInv'
  BY DEF DebugInv, HandFollows, BoardsFollow, RawsPrecede, LastRawPrecedes

LEMMA AppendShape ==
  ASSUME inbox \in Seq(Item), NEW e \in Item, inbox' = Append(inbox, e)
  PROVE  /\ Len(inbox) \in Nat /\ Len(inbox') = Len(inbox) + 1
         /\ \A i \in 1 .. Len(inbox) : inbox'[i] = inbox[i]
         /\ inbox'[Len(inbox')] = e
         /\ inbox' # <<>>
         /\ inbox = <<>> <=> Len(inbox) = 0
  OBVIOUS

\* The thread hands over news of the session.
LEMMA DebugNews ==
  ASSUME TypeOK, DebugInv, NEW b \in BOOLEAN, Schedule("connection", b),
         thread # "dispatch", thread' # "dispatch", UNCHANGED debug
  PROVE  DebugInv'
<1> DEFINE e == Event("connection", b)
<1>1. inbox \in Seq(Item) /\ e \in Item /\ e.kind = "connection"
      /\ inbox' = Append(inbox, e)
  BY ItemTypes DEF TypeOK, Schedule, Event
<1> HIDE DEF e
<1>2. /\ Len(inbox) \in Nat /\ Len(inbox') = Len(inbox) + 1
      /\ \A i \in 1 .. Len(inbox) : inbox'[i] = inbox[i]
      /\ inbox'[Len(inbox')] = e /\ inbox' # <<>>
      /\ inbox = <<>> <=> Len(inbox) = 0
  BY <1>1, AppendShape
<1>3. HandFollows'
  BY DEF HandFollows
<1>4. BoardsFollow'
  BY <1>1, <1>2 DEF DebugInv, BoardsFollow
<1>5. RawsPrecede'
  BY <1>1, <1>2 DEF DebugInv, RawsPrecede
<1>6. LastRawPrecedes'
  BY <1>2 DEF DebugInv, LastRawPrecedes
<1> QED
  BY <1>3, <1>4, <1>5, <1>6 DEF DebugInv

\* The thread hands over a raw text and keeps the message.
LEMMA DebugRaw ==
  ASSUME TypeOK, DebugInv, OnMessage
  PROVE  DebugInv'
<1> DEFINE m == Head(incoming)
<1> DEFINE e == Event("raw", m)
<1>1. /\ inbox \in Seq(Item) /\ e \in Item /\ e.kind = "raw" /\ e.value = m
      /\ inbox' = Append(inbox, e) /\ inHand' = m
      /\ thread # "dispatch" /\ thread' = "dispatch" /\ debug' = debug
  <2>1. m \in Wire
    BY DEF TypeOK, OnMessage
  <2> QED
    BY <2>1, ItemTypes DEF TypeOK, OnMessage, Schedule, Event, loopVars
<1>2. e = Event("raw", inHand')
  BY <1>1
<1> HIDE DEF e, m
<1>3. /\ Len(inbox) \in Nat /\ Len(inbox') = Len(inbox) + 1
      /\ \A i \in 1 .. Len(inbox) : inbox'[i] = inbox[i]
      /\ inbox'[Len(inbox')] = e /\ inbox' # <<>>
      /\ inbox = <<>> <=> Len(inbox) = 0
  BY <1>1, AppendShape
<1>4. HandFollows'
  BY <1>2, <1>3 DEF HandFollows
<1>5. BoardsFollow'
  BY <1>1, <1>3 DEF DebugInv, BoardsFollow
<1>6. RawsPrecede'
  BY <1>1, <1>3 DEF DebugInv, RawsPrecede
<1>7. LastRawPrecedes'
  BY <1>1, <1>3 DEF DebugInv, LastRawPrecedes
<1> QED
  BY <1>4, <1>5, <1>6, <1>7 DEF DebugInv

\* The thread hands over the telemetry or the command it has in hand.
LEMMA DebugDispatch ==
  ASSUME TypeOK, DebugInv, thread = "dispatch", thread' = "idle", UNCHANGED debug,
         NEW kind,
         \/ kind = "board" /\ inHand \in BoardData
         \/ kind = "act" /\ inHand \in Horn,
         Schedule(kind, inHand)
  PROVE  DebugInv'
<1> DEFINE e == Event(kind, inHand)
<1>1. /\ inbox \in Seq(Item) /\ e \in Item /\ e.kind = kind /\ e.value = inHand
      /\ inbox' = Append(inbox, e)
  BY ItemTypes DEF TypeOK, Schedule, Event
<1>2. \/ kind = "board"
      \/ kind = "act" /\ inHand \notin BoardData
  <2>1. inHand \in Horn => inHand \notin BoardData
    BY WireAssumption
  <2> QED
    BY <2>1
<1>3. kind = "board" => e = Event("board", inHand)
  OBVIOUS
<1> HIDE DEF e
<1>4. /\ Len(inbox) \in Nat /\ Len(inbox') = Len(inbox) + 1
      /\ \A i \in 1 .. Len(inbox) : inbox'[i] = inbox[i]
      /\ inbox'[Len(inbox')] = e /\ inbox' # <<>>
      /\ inbox = <<>> <=> Len(inbox) = 0
  BY <1>1, AppendShape
<1>5. HandFollows'
  BY DEF HandFollows
<1>6. BoardsFollow'
  <2> SUFFICES ASSUME NEW i \in 1 .. Len(inbox'), inbox'[i].kind = "board"
               PROVE  \/ i = 1 /\ debug.raw = inbox'[i].value
                      \/ i > 1 /\ inbox'[i - 1] = Event("raw", inbox'[i].value)
    BY DEF BoardsFollow
  <2>1. CASE i \in 1 .. Len(inbox)
    <3>1. \/ i = 1 /\ debug.raw = inbox[i].value
          \/ i > 1 /\ inbox[i - 1] = Event("raw", inbox[i].value)
      BY <1>4, <2>1 DEF DebugInv, BoardsFollow
    <3> QED
      BY <1>4, <2>1, <3>1
  <2>2. CASE i = Len(inbox')
    <3>1. inbox'[i].value = inHand
      BY <1>1, <1>4, <2>2
    <3>2. CASE inbox = <<>>
      BY <1>4, <2>2, <3>1, <3>2 DEF DebugInv, HandFollows
    <3>3. CASE inbox # <<>>
      <4>1. inbox[Len(inbox)] = Event("raw", inHand) /\ Len(inbox) >= 1
        BY <1>4, <3>3 DEF DebugInv, HandFollows
      <4> QED
        BY <1>4, <2>2, <3>1, <4>1
    <3> QED
      BY <3>2, <3>3
  <2> QED
    BY <1>4, <2>1, <2>2
<1>7. RawsPrecede'
  <2> SUFFICES ASSUME NEW i \in 1 .. Len(inbox'),
                      inbox'[i].kind = "raw", inbox'[i].value \in BoardData
               PROVE  i < Len(inbox') /\ inbox'[i + 1] = Event("board", inbox'[i].value)
    BY DEF RawsPrecede
  <2>1. i \in 1 .. Len(inbox) /\ inbox'[i] = inbox[i]
    BY <1>1, <1>2, <1>4
  <2>2. \/ i < Len(inbox) /\ inbox[i + 1] = Event("board", inbox[i].value)
        \/ i = Len(inbox) /\ inHand = inbox[i].value
    BY <2>1 DEF DebugInv, RawsPrecede
  <2>3. CASE i < Len(inbox) /\ inbox[i + 1] = Event("board", inbox[i].value)
    BY <1>4, <2>1, <2>3
  <2>4. CASE i = Len(inbox) /\ inHand = inbox[i].value
    BY <1>2, <1>3, <1>4, <2>1, <2>4
  <2> QED
    BY <2>2, <2>3, <2>4
<1>8. LastRawPrecedes'
  BY <1>2, <1>3, <1>4 DEF DebugInv, LastRawPrecedes
<1> QED
  BY <1>5, <1>6, <1>7, <1>8 DEF DebugInv

\* The loop runs the first task of the queue.
LEMMA DebugRun ==
  ASSUME TypeOK, DebugInv, RunTask
  PROVE  DebugInv'
<1>1. /\ Len(inbox) \in Nat \ {0} /\ Len(inbox') = Len(inbox) - 1
      /\ \A i \in 1 .. Len(inbox') : inbox'[i] = inbox[i + 1]
      /\ inbox' = <<>> <=> Len(inbox) = 1
      /\ inbox # <<>>
      /\ Head(inbox) = inbox[1] /\ inbox[1] \in Item
      /\ UNCHANGED <<thread, inHand>>
  <2>1. inbox \in Seq(Item) /\ inbox # <<>> /\ inbox' = Tail(inbox)
        /\ UNCHANGED <<thread, inHand>>
    BY DEF TypeOK, RunTask
  <2>2. Len(inbox) \in Nat \ {0} /\ Len(inbox') = Len(inbox) - 1
        /\ inbox' \in Seq(Item)
    BY <2>1
  <2>3. \A i \in 1 .. Len(inbox') : inbox'[i] = inbox[i + 1]
    BY <2>1, <2>2
  <2>4. inbox' = <<>> <=> Len(inbox') = 0
    BY <2>2
  <2>5. Head(inbox) = inbox[1] /\ inbox[1] \in Item
    BY <2>1, <2>2
  <2> QED
    BY <2>1, <2>2, <2>3, <2>4, <2>5
<1>2. \/ inbox[1].kind \in {"connection", "act"} /\ debug' = debug
      \/ inbox[1].kind = "raw" /\ debug' = [debug EXCEPT !.raw = inbox[1].value]
      \/ inbox[1].kind = "board" /\ debug' = [debug EXCEPT !.board = inbox[1].value]
  BY <1>1, ItemKinds DEF RunTask, Run
<1>3. debug \in Seen
  BY DEF TypeOK
<1>4. inbox[1].kind # "raw" => debug'.raw = debug.raw
  BY <1>2, <1>3 DEF Seen
<1>5. inbox[1].kind = "raw" =>
          debug'.raw = inbox[1].value /\ debug'.board = debug.board
  BY <1>2, <1>3 DEF Seen
<1>6. inbox[1].kind = "board" => debug'.board = inbox[1].value
  BY <1>2, <1>3 DEF Seen
<1>7. \A v : Event("raw", v).kind = "raw" /\ Event("raw", v).value = v
             /\ Event("board", v).kind = "board" /\ Event("board", v).value = v
  BY DEF Event
<1>8. HandFollows'
  <2> SUFFICES ASSUME thread = "dispatch"
               PROVE  \/ inbox' = <<>> /\ debug'.raw = inHand
                      \/ inbox' # <<>> /\ inbox'[Len(inbox')] = Event("raw", inHand)
    BY <1>1 DEF HandFollows
  <2>1. inbox[Len(inbox)] = Event("raw", inHand)
    BY <1>1 DEF DebugInv, HandFollows
  <2>2. CASE Len(inbox) = 1
    BY <1>1, <1>5, <1>7, <2>1, <2>2
  <2>3. CASE Len(inbox) # 1
    <3>1. Len(inbox') \in 1 .. Len(inbox') /\ Len(inbox') + 1 = Len(inbox)
      BY <1>1, <2>3
    <3> QED
      BY <1>1, <2>1, <2>3, <3>1
  <2> QED
    BY <2>2, <2>3
<1>9. BoardsFollow'
  <2> SUFFICES ASSUME NEW i \in 1 .. Len(inbox'), inbox'[i].kind = "board"
               PROVE  \/ i = 1 /\ debug'.raw = inbox'[i].value
                      \/ i > 1 /\ inbox'[i - 1] = Event("raw", inbox'[i].value)
    BY DEF BoardsFollow
  <2>1. i + 1 \in 1 .. Len(inbox) /\ i + 1 > 1 /\ (i + 1) - 1 = i /\ inbox'[i] = inbox[i + 1]
    BY <1>1
  <2>2. inbox[i] = Event("raw", inbox'[i].value)
    BY <2>1 DEF DebugInv, BoardsFollow
  <2>3. CASE i = 1
    BY <1>5, <1>7, <2>2, <2>3
  <2>4. CASE i # 1
    <3>1. i - 1 \in 1 .. Len(inbox') /\ inbox'[i - 1] = inbox[(i - 1) + 1] /\ (i - 1) + 1 = i
      BY <1>1, <2>4
    <3> QED
      BY <2>2, <2>4, <3>1
  <2> QED
    BY <2>3, <2>4
<1>10. RawsPrecede'
  <2> SUFFICES ASSUME NEW i \in 1 .. Len(inbox'),
                      inbox'[i].kind = "raw", inbox'[i].value \in BoardData
               PROVE  \/ i < Len(inbox') /\ inbox'[i + 1] = Event("board", inbox'[i].value)
                      \/ i = Len(inbox') /\ thread = "dispatch" /\ inHand = inbox'[i].value
    BY <1>1 DEF RawsPrecede
  <2>1. i + 1 \in 1 .. Len(inbox) /\ inbox'[i] = inbox[i + 1]
    BY <1>1
  <2>2. \/ i + 1 < Len(inbox) /\ inbox[(i + 1) + 1] = Event("board", inbox'[i].value)
        \/ i + 1 = Len(inbox) /\ thread = "dispatch" /\ inHand = inbox'[i].value
    BY <2>1 DEF DebugInv, RawsPrecede
  <2>3. CASE i + 1 < Len(inbox) /\ inbox[(i + 1) + 1] = Event("board", inbox'[i].value)
    <3>1. i + 1 \in 1 .. Len(inbox')
      BY <1>1, <2>3
    <3> QED
      BY <1>1, <2>3, <3>1
  <2>4. CASE i + 1 = Len(inbox) /\ thread = "dispatch" /\ inHand = inbox'[i].value
    BY <1>1, <2>4
  <2> QED
    BY <2>2, <2>3, <2>4
<1>11. LastRawPrecedes'
  <2> SUFFICES ASSUME debug'.raw \in BoardData, debug'.board # debug'.raw
               PROVE  \/ inbox' # <<>> /\ inbox'[1] = Event("board", debug'.raw)
                      \/ inbox' = <<>> /\ thread = "dispatch" /\ inHand = debug'.raw
    BY <1>1 DEF LastRawPrecedes
  <2>1. CASE inbox[1].kind = "raw"
    <3>1. debug'.raw = inbox[1].value /\ 1 \in 1 .. Len(inbox)
      BY <1>1, <1>5, <2>1
    <3>2. \/ 1 < Len(inbox) /\ inbox[1 + 1] = Event("board", inbox[1].value)
          \/ 1 = Len(inbox) /\ thread = "dispatch" /\ inHand = inbox[1].value
      BY <2>1, <3>1 DEF DebugInv, RawsPrecede
    <3> QED
      BY <1>1, <3>1, <3>2
  <2>2. CASE inbox[1].kind = "board"
    <3>1. debug.raw = inbox[1].value
      BY <1>1, <2>2 DEF DebugInv, BoardsFollow
    <3> QED
      BY <1>4, <1>6, <2>2, <3>1
  <2>3. CASE inbox[1].kind \in {"connection", "act"}
    <3>1. debug' = debug
      BY <1>2, <2>3
    <3>2. inbox[1] = Event("board", debug.raw)
      BY <1>1, <3>1 DEF DebugInv, LastRawPrecedes
    <3> QED
      BY <1>7, <2>3, <3>2
  <2> QED
    BY <1>2, <2>1, <2>2, <2>3
<1> QED
  BY <1>8, <1>9, <1>10, <1>11 DEF DebugInv

LEMMA DebugKept == TypeOK /\ DebugInv /\ [Next]_vars => DebugInv'
<1> SUFFICES ASSUME TypeOK, DebugInv, [Next]_vars PROVE DebugInv'
  OBVIOUS
<1> USE DEF loopVars
<1>1. CASE OnConnect \/ OnRefused \/ OnDisconnect \/ Subscribe
  BY <1>1, DebugStays DEF OnConnect, OnRefused, OnDisconnect, Subscribe
<1>2. CASE Announce
  BY <1>2, DebugNews DEF Announce
<1>3. CASE Withdraw
  BY <1>3, DebugNews DEF Withdraw
<1>4. CASE OnMessage
  BY <1>4, DebugRaw
<1>5. CASE Dispatch
  <2>1. CASE inHand \in Junk /\ UNCHANGED inbox
    <3>1. inHand \notin BoardData /\ inHand' = NoMessage /\ thread' = "idle" /\ debug' = debug
      BY <1>5, <2>1, WireAssumption DEF Dispatch
    <3> QED
      BY <1>5, <2>1, <3>1
         DEF DebugInv, HandFollows, BoardsFollow, RawsPrecede, LastRawPrecedes
  <2>2. CASE inHand \in BoardData /\ Schedule("board", inHand)
    BY <1>5, <2>2, DebugDispatch DEF Dispatch
  <2>3. CASE inHand \in Horn /\ Schedule("act", inHand)
    BY <1>5, <2>3, DebugDispatch DEF Dispatch
  <2> QED
    BY <1>5, <2>1, <2>2, <2>3 DEF Dispatch
<1>6. CASE ThreadEnds \/ Stop
  BY <1>6, DebugStays DEF ThreadEnds, Stop
<1>7. CASE RunTask
  BY <1>7, DebugRun
<1>8. ASSUME NEW v \in Horn, PostTifon(v) PROVE DebugInv'
  BY <1>8, DebugStays DEF PostTifon
<1>9. CASE BrokerReceives \/ SessionEnds
  BY <1>9, DebugStays DEF BrokerReceives, SessionEnds
<1>10. ASSUME NEW m \in Wire, OtherPublishes(m) PROVE DebugInv'
  BY <1>10, DebugStays DEF OtherPublishes
<1>11. CASE UNCHANGED vars
  BY <1>11, DebugStays DEF vars
<1> QED
  BY <1>1, <1>2, <1>3, <1>4, <1>5, <1>6, <1>7, <1>8, <1>9, <1>10, <1>11
     DEF Next, ThreadStep

\* Once the loop has caught up, the two debug pages speak of the same message,
\* though a session may end or a command arrive between their two tasks.
THEOREM PagesAgree == Spec => []DebugPagesAgree
<1>1. TypeOK /\ DebugInv /\ [Next]_vars => (TypeOK /\ DebugInv)'
  BY NextType, DebugKept
<1>2. Init => TypeOK /\ DebugInv
  BY InitType, DebugInit
<1>3. DebugInv => DebugPagesAgree
  BY DEF DebugInv, LastRawPrecedes, DebugPagesAgree
<1> QED
  BY <1>1, <1>2, <1>3, PTL DEF Spec

=============================================================================
