----------------------------- MODULE MqttBridge -----------------------------
(***************************************************************************)
(* app/mqtt/client.py: the MQTT client between its two threads.            *)
(*                                                                         *)
(* paho's network thread runs the callbacks one at a time; each hands its  *)
(* coroutines to the event loop (call_soon_threadsafe), which starts them  *)
(* in that order.  The flag _connected is set by the thread at once, the   *)
(* flag /api/health and the diagnosis read is set later, by such a task.   *)
(* Horn commands run on the event loop: they read the thread's flag, hand  *)
(* a QoS 0 packet to paho and change the store without waiting for the     *)
(* board; the broker then sends the command back, for the process is       *)
(* subscribed to the topic it commands on.                                 *)
(*                                                                         *)
(* A task's later waits (commits, sends) are the subject of BridgeRuntime. *)
(***************************************************************************)
EXTENDS Naturals, Sequences

CONSTANTS
    Horn,        \* the two values of the horn
    BoardData,   \* valid telemetry payloads
    Junk,        \* messages that are dropped: bad JSON, bad shape, other topic
    NoMessage,
    MaxQueue,    \* bound: packets under way in either direction
    MaxInbox     \* bound: tasks that wait for the loop when a callback starts

Wire == BoardData \cup Horn \cup Junk

ASSUME WireAssumption ==
    /\ BoardData \cap (Horn \cup Junk) = {}
    /\ Junk \cap Horn = {}
    /\ NoMessage \notin Wire
    /\ "subscribe" \notin Horn

ASSUME BoundsAssumption == MaxQueue \in Nat /\ MaxInbox \in Nat

\* What the thread hands to the loop.
Event(kind, value) == [kind |-> kind, value |-> value]
Item == [kind : {"connection"}, value : BOOLEAN]
          \cup [kind : {"raw"}, value : Wire]
          \cup [kind : {"board"}, value : BoardData]
          \cup [kind : {"act"}, value : Horn]

Seen == [raw : Wire \cup {NoMessage}, board : BoardData \cup {NoMessage}]

VARIABLES
    socket,      \* the session: "down" (a CONNACK may be on its way), "up",
                 \* "lost" (dead, not yet noticed), "closed" (over, and stopped)
    subscribed,  \* the broker has the subscriptions of this session
    outgoing,    \* packets on their way to the broker
    incoming,    \* messages on their way from the broker
    thread,      \* what the network thread does next in its callback
    inHand,      \* the message _on_message has still to dispatch
    connected,   \* _connected
    inbox,       \* tasks handed to the loop and not yet started
    loop,        \* "running", "stopping" (blocked in loop_stop), "stopped"
    mqttFlag,    \* BridgeRuntime._mqtt_connected and app.state.mqtt_connected
    tifon,       \* the store's horn
    debug,       \* the last raw message and the last telemetry remembered
    horn,        \* the last command the board received
    missed       \* history: the last horn command did not reach both sides

netVars  == <<socket, subscribed, outgoing, incoming, horn>>
loopVars == <<loop, mqttFlag, tifon, debug>>
vars == <<netVars, thread, inHand, connected, inbox, loopVars, missed>>

TypeOK ==
    /\ socket \in {"down", "up", "lost", "closed"}
    /\ subscribed \in BOOLEAN
    /\ outgoing \in Seq(Horn \cup {"subscribe"})
    /\ incoming \in Seq(Wire)
    /\ thread \in {"idle", "subscribe", "announce", "withdraw", "dispatch", "ended"}
    /\ inHand \in Wire \cup {NoMessage}
    /\ connected \in BOOLEAN
    /\ inbox \in Seq(Item)
    /\ loop \in {"running", "stopping", "stopped"}
    /\ mqttFlag \in BOOLEAN
    /\ tifon \in Horn \cup {"none"}
    /\ debug \in Seen
    /\ horn \in Horn \cup {"none"}
    /\ missed \in BOOLEAN

Init ==
    /\ socket = "down" /\ subscribed = FALSE
    /\ outgoing = <<>> /\ incoming = <<>>
    /\ thread = "idle" /\ inHand = NoMessage /\ connected = FALSE
    /\ inbox = <<>>
    /\ loop = "running" /\ mqttFlag = FALSE /\ tifon = "none"
    /\ debug = [raw |-> NoMessage, board |-> NoMessage]
    /\ horn = "none" /\ missed = FALSE

Elements(s) == {s[i] : i \in 1 .. Len(s)}

-----------------------------------------------------------------------------
(* The network thread *)

Schedule(kind, value) == inbox' = Append(inbox, Event(kind, value))

\* _on_connect with code 0, which may also come while stop() waits for this
\* thread: the flag first, ...
OnConnect ==
    /\ thread = "idle" /\ socket = "down" /\ loop # "stopped"
    /\ Len(inbox) < MaxInbox
    /\ socket' = "up"
    /\ connected' = TRUE
    /\ thread' = "subscribe"
    /\ UNCHANGED <<subscribed, outgoing, incoming, horn, inHand, inbox, loopVars, missed>>

\* ... then the subscriptions, ...
Subscribe ==
    /\ thread = "subscribe"
    /\ outgoing' = IF socket = "up" THEN Append(outgoing, "subscribe") ELSE outgoing
    /\ thread' = "announce"
    /\ UNCHANGED <<socket, subscribed, incoming, horn, inHand, connected, inbox,
                   loopVars, missed>>

\* ... then the event.
Announce ==
    /\ thread = "announce"
    /\ Schedule("connection", TRUE)
    /\ thread' = "idle"
    /\ UNCHANGED <<netVars, inHand, connected, loopVars, missed>>

\* _on_connect with another code: no event of its own; paho closes the session
\* and calls _on_disconnect.
OnRefused ==
    /\ thread = "idle" /\ socket = "down" /\ loop # "stopped"
    /\ Len(inbox) < MaxInbox
    /\ socket' = "lost"
    /\ connected' = FALSE
    /\ UNCHANGED <<subscribed, outgoing, incoming, horn, thread, inHand, inbox,
                   loopVars, missed>>

\* (Mutant: nobody is told.)
OnDisconnectSilent ==
    /\ thread = "idle" /\ socket = "lost"
    /\ socket' = "down"
    /\ connected' = FALSE
    /\ UNCHANGED <<subscribed, outgoing, incoming, horn, thread, inHand, inbox,
                   loopVars, missed>>

\* _on_disconnect: the flag, then the event.  After disconnect() paho does not
\* connect again.
OnDisconnect ==
    /\ thread = "idle" /\ socket = "lost"
    /\ socket' = IF loop = "running" THEN "down" ELSE "closed"
    /\ connected' = FALSE
    /\ thread' = "withdraw"
    /\ UNCHANGED <<subscribed, outgoing, incoming, horn, inHand, inbox, loopVars,
                   missed>>

\* (Mutant: the thread waits until the loop has run the task before it.)
WithdrawWaiting ==
    /\ thread = "withdraw"
    /\ inbox = <<>> /\ loop = "running"
    /\ Schedule("connection", FALSE)
    /\ thread' = "idle"
    /\ UNCHANGED <<netVars, inHand, connected, loopVars, missed>>

Withdraw ==
    /\ thread = "withdraw"
    /\ Schedule("connection", FALSE)
    /\ thread' = "idle"
    /\ UNCHANGED <<netVars, inHand, connected, loopVars, missed>>

\* _on_message: the raw text is handed over whatever it is.
OnMessage ==
    /\ thread = "idle" /\ socket = "up" /\ incoming # <<>>
    /\ Len(inbox) < MaxInbox
    /\ Schedule("raw", Head(incoming))
    /\ incoming' = Tail(incoming)
    /\ inHand' = Head(incoming)
    /\ thread' = "dispatch"
    /\ UNCHANGED <<socket, subscribed, outgoing, horn, connected, loopVars, missed>>

\* (Mutants: telemetry is skipped while older telemetry waits for the loop;
\* nothing is validated.)
DispatchCoalescing ==
    /\ thread = "dispatch"
    /\ CASE inHand \in BoardData /\ (\A i \in 1 .. Len(inbox) : inbox[i].kind # "board") ->
              Schedule("board", inHand)
         [] inHand \in Horn -> Schedule("act", inHand)
         [] OTHER -> UNCHANGED inbox
    /\ inHand' = NoMessage
    /\ thread' = "idle"
    /\ UNCHANGED <<netVars, connected, loopVars, missed>>
DispatchUnchecked ==
    /\ thread = "dispatch"
    /\ Schedule(IF inHand \in Horn THEN "act" ELSE "board", inHand)
    /\ inHand' = NoMessage
    /\ thread' = "idle"
    /\ UNCHANGED <<netVars, connected, loopVars, missed>>

\* _on_message: parse, validate, and hand over by topic; or drop.
Dispatch ==
    /\ thread = "dispatch"
    /\ \/ inHand \in BoardData /\ Schedule("board", inHand)
       \/ inHand \in Horn /\ Schedule("act", inHand)
       \/ inHand \in Junk /\ UNCHANGED inbox
    /\ inHand' = NoMessage
    /\ thread' = "idle"
    /\ UNCHANGED <<netVars, connected, loopVars, missed>>

\* loop_stop returns when the thread has ended; stop() then clears the flag.
ThreadEnds ==
    /\ loop = "stopping" /\ thread = "idle" /\ socket \in {"down", "closed"}
    /\ thread' = "ended"
    /\ connected' = FALSE
    /\ loop' = "stopped"
    /\ UNCHANGED <<netVars, inHand, inbox, mqttFlag, tifon, debug, missed>>

-----------------------------------------------------------------------------
(* The event loop *)

\* What a task does up to its first wait (telemetry goes on in BridgeRuntime).
Run(item) ==
    CASE item.kind = "connection" ->
            mqttFlag' = item.value /\ UNCHANGED <<tifon, debug>>
      [] item.kind = "raw" ->
            debug' = [debug EXCEPT !.raw = item.value] /\ UNCHANGED <<mqttFlag, tifon>>
      [] item.kind = "board" ->
            debug' = [debug EXCEPT !.board = item.value] /\ UNCHANGED <<mqttFlag, tifon>>
      [] item.kind = "act" ->
            tifon' = item.value /\ UNCHANGED <<mqttFlag, debug>>

\* (Mutant: the youngest task first.)
RunTaskLifo ==
    /\ loop # "stopping" /\ inbox # <<>>
    /\ Run(inbox[Len(inbox)])
    /\ inbox' = SubSeq(inbox, 1, Len(inbox) - 1)
    /\ UNCHANGED <<netVars, thread, inHand, connected, loop, missed>>

\* After stop() the loop runs on while the database is closed.
RunTask ==
    /\ loop # "stopping" /\ inbox # <<>>
    /\ Run(Head(inbox))
    /\ inbox' = Tail(inbox)
    /\ UNCHANGED <<netVars, thread, inHand, connected, loop, missed>>

\* (Mutant: the store is changed before paho is asked.)
PostTifonEager(v) ==
    /\ loop = "running"
    /\ Len(outgoing) < MaxQueue
    /\ tifon' = v
    /\ outgoing' = IF connected /\ socket = "up" THEN Append(outgoing, v) ELSE outgoing
    /\ UNCHANGED <<socket, subscribed, incoming, horn, thread, inHand, connected,
                   inbox, loop, mqttFlag, debug, missed>>

\* publish_tifon of the client, when paho takes the packet; on a session that
\* is already dead it vanishes.
PacketAccepted(v) ==
    /\ connected
    /\ socket \in {"up", "lost"}
    /\ Len(outgoing) < MaxQueue
    /\ outgoing' = IF socket = "up" THEN Append(outgoing, v) ELSE outgoing

\* POST /api/act/tifon: only an accepted command reaches the store.
PostTifon(v) ==
    /\ loop = "running"
    /\ PacketAccepted(v)
    /\ tifon' = v
    /\ missed' = (missed \/ socket = "lost")
    /\ UNCHANGED <<socket, subscribed, incoming, horn, thread, inHand, connected,
                   inbox, loop, mqttFlag, debug>>

\* stop(): disconnect, then wait for the thread with the loop blocked.
Stop ==
    /\ loop = "running"
    /\ loop' = "stopping"
    /\ UNCHANGED <<netVars, thread, inHand, connected, inbox, mqttFlag, tifon, debug,
                   missed>>

-----------------------------------------------------------------------------
(* The broker, the board and other panels *)

\* A horn command at the broker: the board gets it or not, this process does
\* if it is subscribed.  QoS 0: nobody repeats it.
Forward(v) ==
    /\ \E reached \in BOOLEAN :
          /\ horn' = IF reached THEN v ELSE horn
          /\ missed' = ~(reached /\ subscribed)
    /\ incoming' = IF subscribed THEN Append(incoming, v) ELSE incoming

BrokerReceives ==
    /\ socket = "up" /\ outgoing # <<>>
    /\ Len(incoming) < MaxQueue
    /\ outgoing' = Tail(outgoing)
    /\ IF Head(outgoing) = "subscribe"
       THEN subscribed' = TRUE /\ UNCHANGED <<horn, missed, incoming>>
       ELSE Forward(Head(outgoing)) /\ UNCHANGED subscribed
    /\ UNCHANGED <<socket, thread, inHand, connected, inbox, loopVars>>

OtherPublishes(m) ==
    /\ Len(incoming) < MaxQueue
    /\ IF m \in Horn
       THEN Forward(m)
       ELSE /\ subscribed
            /\ incoming' = Append(incoming, m)
            /\ UNCHANGED <<horn, missed>>
    /\ UNCHANGED <<socket, subscribed, outgoing, thread, inHand, connected, inbox,
                   loopVars>>

\* The session dies, or ends because stop() asked for it: what is under way is
\* lost, and the broker forgets a clean session's subscriptions.
SessionEnds ==
    /\ socket = "up"
    /\ socket' = "lost"
    /\ subscribed' = FALSE
    /\ outgoing' = <<>> /\ incoming' = <<>>
    /\ missed' = (missed \/ (Elements(outgoing) \cup Elements(incoming)) \cap Horn # {})
    /\ UNCHANGED <<horn, thread, inHand, connected, inbox, loopVars>>

-----------------------------------------------------------------------------

ThreadStep == \/ Subscribe \/ Announce \/ OnDisconnect \/ Withdraw
              \/ OnMessage \/ Dispatch \/ ThreadEnds

Next ==
    \/ OnConnect \/ OnRefused \/ ThreadStep
    \/ RunTask \/ Stop
    \/ \E v \in Horn : PostTifon(v)
    \/ BrokerReceives \/ SessionEnds
    \/ \E m \in Wire : OtherPublishes(m)

\* Both threads run; a session that was told to end ends.  Nothing makes the
\* broker accept, answer or fail.
Fairness ==
    /\ WF_vars(ThreadStep)
    /\ WF_vars(loop = "running" /\ RunTask)
    /\ WF_vars(loop = "stopping" /\ SessionEnds)

Spec == Init /\ [][Next]_vars /\ Fairness

-----------------------------------------------------------------------------

IsNews(item) == item.kind = "connection"

\* The runtime's flag is b once it has run the first n tasks that wait.
FlagAfter(n, b) ==
    \/ mqttFlag = b /\ \A i \in 1 .. n : ~IsNews(inbox[i])
    \/ \E i \in 1 .. n :
          /\ inbox[i] = Event("connection", b)
          /\ \A j \in i + 1 .. n : ~IsNews(inbox[j])

\* The two connection flags may differ, for as long as events wait for the
\* loop, but never for good: between callbacks the last event waiting always
\* brings the runtime's flag to the thread's, through any number of refused
\* or broken sessions and also when the client was stopped.
FlagsConverge ==
    thread \notin {"subscribe", "announce", "withdraw"} =>
        FlagAfter(Len(inbox), connected)

\* A message is handled only while the runtime counts itself connected, however
\* late the loop is.  (ConnectionMonitor relies on it.)
MessagesArriveConnected ==
    inbox # <<>> /\ ~IsNews(Head(inbox)) => mqttFlag

\* Horn commands under way anywhere.
HornPending ==
    \/ \E i \in 1 .. Len(inbox) : inbox[i].kind = "act"
    \/ (Elements(outgoing) \cup Elements(incoming) \cup {inHand}) \cap Horn # {}

\* Commands of this process and of other panels, their echoes, and sessions
\* that end race each other, and the shown horn may go back and forth; but if
\* the last command at the broker reached both sides, the store ends on what
\* the board was told.
HornAgreesWhenQuiet == ~missed /\ ~HornPending => tifon = horn

\* The two debug pages are fed by separate tasks, but once the loop has caught
\* up they speak of the same message: if the last raw message was telemetry,
\* the bits report is the one of that message.
DebugPagesAgree ==
    inbox = <<>> /\ thread # "dispatch" /\ debug.raw \in BoardData =>
        debug.board = debug.raw

\* The runtime's flag follows the session in the end.
FlagFollowsSession ==
    /\ <>[](socket = "up") => <>[]mqttFlag
    /\ <>[](socket = "down" /\ loop = "running") => <>[]~mqttFlag

\* stop() blocks the loop until the thread has ended; the thread, though it has
\* a last event to hand to that loop, never waits for it.
StopCompletes == loop = "stopping" ~> loop = "stopped"

=============================================================================
