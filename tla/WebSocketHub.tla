---------------------------- MODULE WebSocketHub ----------------------------
(***************************************************************************)
(* The life of a /ws/state connection: websocket_state (app/main.py), the  *)
(* registry it enters (app/services/broadcaster.py), the rows its handler  *)
(* journals about it, and the heartbeat that is sent to everybody.         *)
(*                                                                         *)
(* The greeting and the row "client connected" come before the handler's   *)
(* try block: when one of them raises, nobody calls disconnect().          *)
(*                                                                         *)
(* What is sent is reduced to what it says of the interface indicator: an  *)
(* alarm while clients are connected and nothing was ever published.  (The *)
(* passing of time is in ConnectionMonitor, state updates in BridgeRuntime.*)
(* Sends to the journal clients never raise in a handler and are left out.)*)
(***************************************************************************)
CONSTANT Clients

Stage == {"out",                          \* no handler yet
          "greet",                        \* sending the first snapshot
          "commit_in", "refresh_in",      \* writing "client connected"
          "receive", "reply",             \* inside the try block
          "commit_out", "refresh_out",    \* writing "client disconnected"
          "ended", "crashed"}

Served  == {"greet", "commit_in", "refresh_in", "receive", "reply"}
Said    == {"nothing", "alarm", "clear"}

VARIABLES
    stage,       \* per client, where its handler is
    link,        \* per client: "out", "open", "cut" (peer gone), "closed"
    told,        \* per client, what it last heard of the interface
    registered,  \* the clients in the WebSocketBroadcaster
    published,   \* _last_realtime_publish_at is set
    beat,        \* the heartbeat: "sleep", or what the one being sent says
    targets,     \* the clients this heartbeat has not reached
    stale        \* the clients whose send has raised in it

handlerVars == <<stage, link, told>>
beatVars    == <<beat, targets, stale>>
vars == <<handlerVars, registered, published, beatVars>>

TypeOK ==
    /\ stage \in [Clients -> Stage]
    /\ link \in [Clients -> {"out", "open", "cut", "closed"}]
    /\ told \in [Clients -> Said]
    /\ registered \in SUBSET Clients
    /\ published \in BOOLEAN
    /\ beat \in {"sleep", "alarm", "clear"}
    /\ targets \in SUBSET Clients
    /\ stale \in SUBSET Clients
    /\ beat = "sleep" => targets = {} /\ stale = {}

Init ==
    /\ stage = [c \in Clients |-> "out"]
    /\ link = [c \in Clients |-> "out"]
    /\ told = [c \in Clients |-> "nothing"]
    /\ registered = {}
    /\ published = FALSE
    /\ beat = "sleep"
    /\ targets = {}
    /\ stale = {}

\* The interface indicator as a message built now reports it.
Indicator(clients) == IF clients # {} /\ ~published THEN "alarm" ELSE "clear"

-----------------------------------------------------------------------------
(* The handler *)

Goto(c, s) == stage' = [stage EXCEPT ![c] = s]

\* A handler that ends without disconnect(): the server closes the connection,
\* the registry keeps it.
Crash(c) ==
    /\ Goto(c, "crashed")
    /\ link' = [link EXCEPT ![c] = "closed"]

\* connect(), get_snapshot() and the start of the send, in one go once the
\* connection is accepted.
Connect(c) ==
    /\ stage[c] = "out"
    /\ Goto(c, "greet")
    /\ link' = [link EXCEPT ![c] = "open"]
    /\ registered' = registered \cup {c}
    /\ told' = [told EXCEPT ![c] = Indicator(registered')]
    /\ UNCHANGED <<published, beatVars>>

\* The greeting is out: websocket_connected marks a publish and starts a row.
Greeted(c) ==
    /\ stage[c] = "greet"
    /\ published' = TRUE
    /\ Goto(c, "commit_in")
    /\ UNCHANGED <<link, told, registered, beatVars>>

GreetingFails(c) ==
    /\ stage[c] = "greet" /\ link[c] = "cut"
    /\ Crash(c)
    /\ UNCHANGED <<told, registered, published, beatVars>>

\* append_event: commit, then refresh.
CommitRow(c) ==
    /\ \/ stage[c] = "commit_in" /\ Goto(c, "refresh_in")
       \/ stage[c] = "commit_out" /\ Goto(c, "refresh_out")
    /\ UNCHANGED <<link, told, registered, published, beatVars>>

RefreshRow(c) ==
    /\ \/ /\ stage[c] = "refresh_in"
          /\ Goto(c, "receive")
          /\ UNCHANGED link
       \/ /\ stage[c] = "refresh_out"
          /\ Goto(c, "ended")
          /\ link' = [link EXCEPT ![c] = "closed"]
    /\ UNCHANGED <<told, registered, published, beatVars>>

\* The database raises: before the try block a crash, in the finally block an
\* error after the client was taken out.
RowFails(c) ==
    /\ \/ stage[c] \in {"commit_in", "refresh_in"} /\ Crash(c)
       \/ /\ stage[c] \in {"commit_out", "refresh_out"}
          /\ Goto(c, "ended")
          /\ link' = [link EXCEPT ![c] = "closed"]
    /\ UNCHANGED <<told, registered, published, beatVars>>

\* The client says something and is answered that the channel is read-only.
Receive(c) ==
    /\ stage[c] = "receive" /\ link[c] = "open"
    /\ Goto(c, "reply")
    /\ UNCHANGED <<link, told, registered, published, beatVars>>

Replied(c) ==
    /\ stage[c] = "reply"
    /\ Goto(c, "receive")
    /\ UNCHANGED <<link, told, registered, published, beatVars>>

\* (Mutant: a failing answer is not covered by the finally block.)
LeaveQuietly(c) ==
    /\ stage[c] \in {"receive", "reply"} /\ link[c] = "cut"
    /\ IF stage[c] = "reply" THEN UNCHANGED registered
                             ELSE registered' = registered \ {c}
    /\ Goto(c, "commit_out")
    /\ UNCHANGED <<link, told, published, beatVars>>

\* receive() reports the disconnect, or the answer raises: the finally block
\* takes the client out and starts a row.
Leave(c) ==
    /\ stage[c] \in {"receive", "reply"} /\ link[c] = "cut"
    /\ registered' = registered \ {c}
    /\ Goto(c, "commit_out")
    /\ UNCHANGED <<link, told, published, beatVars>>

\* The peer goes away.
Cut(c) ==
    /\ link[c] = "open"
    /\ link' = [link EXCEPT ![c] = "cut"]
    /\ UNCHANGED <<stage, told, registered, published, beatVars>>

-----------------------------------------------------------------------------
(* The heartbeat *)

\* heartbeat(): the payload is built and the registry copied.
StartBeat ==
    /\ beat = "sleep"
    /\ beat' = Indicator(registered)
    /\ targets' = registered
    /\ UNCHANGED <<handlerVars, registered, published, stale>>

\* (Mutant: a send that raises is only logged.)
SendLenient(c) ==
    /\ c \in targets
    /\ targets' = targets \ {c}
    /\ IF link[c] = "open" THEN told' = [told EXCEPT ![c] = beat] ELSE UNCHANGED told
    /\ UNCHANGED <<stage, link, registered, published, beat, stale>>

\* One send: it arrives; or it raises, always on a connection the server has
\* closed; or its bytes go nowhere.
Send(c) ==
    /\ c \in targets
    /\ targets' = targets \ {c}
    /\ \/ link[c] = "open" /\ told' = [told EXCEPT ![c] = beat] /\ UNCHANGED stale
       \/ link[c] # "open" /\ stale' = stale \cup {c} /\ UNCHANGED told
       \/ link[c] = "cut" /\ UNCHANGED <<told, stale>>
    /\ UNCHANGED <<stage, link, registered, published, beat>>

\* (Mutant: the heartbeat ends at the first client whose send raises.)
EndBeatEarly ==
    /\ beat # "sleep" /\ (targets = {} \/ stale # {})
    /\ registered' = registered \ stale
    /\ published' = TRUE
    /\ beat' = "sleep"
    /\ stale' = {}
    /\ UNCHANGED <<handlerVars, targets>>

\* (Mutant: a send that raises ends the heartbeat loop for good.)
EndBeatFragile ==
    /\ beat # "sleep" /\ targets = {}
    /\ IF stale # {} THEN UNCHANGED <<registered, published, beat, stale>>
       ELSE registered' = registered /\ published' = TRUE /\ beat' = "sleep" /\ stale' = {}
    /\ UNCHANGED <<handlerVars, targets>>

\* broadcast() returns: the clients that raised are discarded, the publish is
\* marked.
EndBeat ==
    /\ beat # "sleep" /\ targets = {}
    /\ registered' = registered \ stale
    /\ published' = TRUE
    /\ beat' = "sleep"
    /\ stale' = {}
    /\ UNCHANGED <<handlerVars, targets>>

-----------------------------------------------------------------------------

HandlerStep(c) ==
    \/ Greeted(c) \/ GreetingFails(c) \/ CommitRow(c) \/ RefreshRow(c)
    \/ Replied(c) \/ Leave(c)

BeatStep == StartBeat \/ EndBeat \/ \E c \in Clients : Send(c)

Next ==
    \/ BeatStep
    \/ \E c \in Clients :
          Connect(c) \/ HandlerStep(c) \/ RowFails(c) \/ Receive(c) \/ Cut(c)

\* Handlers go on when what they wait for has happened, and the heartbeat loop
\* never stops.
Fairness ==
    /\ \A c \in Clients : WF_vars(HandlerStep(c))
    /\ WF_vars(BeatStep)

Spec == Init /\ [][Next]_vars /\ Fairness

-----------------------------------------------------------------------------

\* Heartbeats in flight and handlers that come, fail and go never lose a client
\* that is being served, and of those no longer served only one whose handler
\* crashed before its try block can stay in the registry.
RegistryServesTheLiving ==
    \A c \in Clients :
        /\ stage[c] \in Served /\ link[c] = "open" => c \in registered
        /\ c \in registered => stage[c] \in Served \cup {"crashed"}

\* A connection whose handler crashed is counted as a listener, but not for
\* good: a heartbeat fails on it and takes it out.
CrashedAreSwept == \A c \in Clients : stage[c] = "crashed" ~> c \notin registered

\* The very first clients are greeted with an alarm, for nothing can have been
\* published to them before; whoever stays is told better, even when the first
\* heartbeat was built before any greeting had gone out.
AlarmIsCorrected ==
    \A c \in Clients :
        told[c] = "alarm" ~> (told[c] = "clear" \/ link[c] # "open")

=============================================================================
