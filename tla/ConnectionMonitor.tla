-------------------------- MODULE ConnectionMonitor --------------------------
(***************************************************************************)
(* The connection bookkeeping of app/services/bridge_runtime.py and the    *)
(* heartbeat loop of app/main.py: when the ages that ConnectionStatus      *)
(* judges are reset, while time passes and broadcasts take time.           *)
(*                                                                         *)
(* Timestamps are kept as ages.  The wall clock only goes forward.         *)
(***************************************************************************)
EXTENDS ConnectionStatus

CONSTANTS
    HeartbeatSec,   \* WS_HEARTBEAT_SEC
    Step,           \* seconds between two observations of the clock
    MaxAge,         \* ages above this bound are not told apart
    MaxStall,       \* bound on the seconds one heartbeat's sends may take
    MaxClients      \* bound on the clients of /ws/state

ASSUME MonitorAssumption ==
    /\ HeartbeatSec \in Nat \ {0} /\ Step \in Nat \ {0}
    /\ MaxAge \in Nat /\ MaxStall \in Nat /\ MaxClients \in Nat

VARIABLES
    mock,        \* settings.mock_mode, fixed when the process starts
    connected,   \* _mqtt_connected
    dataAge,     \* age of _last_data_at
    publishAge,  \* age of _last_realtime_publish_at
    clients,     \* clients in the state broadcaster
    sleep,       \* seconds the heartbeat loop has still to sleep
    beat,        \* age of the now_value of the heartbeat being broadcast
    stall        \* history: seconds the last heartbeat's broadcast took

vars == <<mock, connected, dataAge, publishAge, clients, sleep, beat, stall>>

TypeOK ==
    /\ mock \in BOOLEAN
    /\ connected \in BOOLEAN
    /\ dataAge \in Age
    /\ publishAge \in Age
    /\ clients \in Nat
    /\ sleep \in Nat
    /\ beat \in Age
    /\ stall \in Nat

Init ==
    /\ mock \in BOOLEAN
    /\ connected = FALSE
    /\ dataAge = None
    /\ publishAge = None
    /\ clients = 0
    /\ sleep = HeartbeatSec
    /\ beat = None
    /\ stall = 0

\* What _build_connection_status_block hands to evaluate_connection_statuses.
CurrentContext ==
    [mock |-> mock, mqttConnected |-> connected, dataAge |-> dataAge,
     clients |-> clients, publishAge |-> publishAge]

-----------------------------------------------------------------------------

Older(age) == CASE age = None   -> None
                [] age >= MaxAge -> age
                [] OTHER         -> age + Step

\* Time passes, never beyond the moment the heartbeat loop wakes up.
Tick ==
    /\ IF beat = None
       THEN sleep >= Step /\ sleep' = sleep - Step /\ UNCHANGED beat
       ELSE beat + Step <= MaxStall /\ beat' = beat + Step /\ UNCHANGED sleep
    /\ dataAge' = Older(dataAge)
    /\ publishAge' = Older(publishAge)
    /\ UNCHANGED <<mock, connected, clients, stall>>

\* heartbeat: the time is read and the payload built before the broadcast ...
StartHeartbeat ==
    /\ beat = None
    /\ sleep = 0
    /\ beat' = 0
    /\ UNCHANGED <<mock, connected, dataAge, publishAge, clients, sleep, stall>>

\* (Mutant: the heartbeat is not counted as a publish.)
EndHeartbeatUnmarked ==
    /\ beat # None
    /\ sleep' = HeartbeatSec
    /\ stall' = beat
    /\ beat' = None
    /\ UNCHANGED <<mock, connected, dataAge, publishAge, clients>>

\* ... and that earlier time is what is marked when every send has ended, even
\* if a state update was published meanwhile.
EndHeartbeat ==
    /\ beat # None
    /\ publishAge' = beat
    /\ sleep' = HeartbeatSec
    /\ stall' = beat
    /\ beat' = None
    /\ UNCHANGED <<mock, connected, dataAge, clients>>

\* _mark_data_exchange.  The event loop starts the coroutines of the MQTT
\* callbacks in their order, so telemetry comes between the two connection
\* events; in mock mode it needs no broker.
DataExchange ==
    /\ mock \/ connected
    /\ dataAge' = 0
    /\ UNCHANGED <<mock, connected, publishAge, clients, sleep, beat, stall>>

\* _mark_realtime_publish with the present time: after a state update was
\* broadcast, or after a client was greeted.
RealtimePublish ==
    /\ publishAge' = 0
    /\ UNCHANGED <<mock, connected, dataAge, clients, sleep, beat, stall>>

MqttConnected ==
    /\ ~mock /\ ~connected
    /\ connected' = TRUE
    /\ UNCHANGED <<mock, dataAge, publishAge, clients, sleep, beat, stall>>

MqttDisconnected ==
    /\ connected
    /\ connected' = FALSE
    /\ UNCHANGED <<mock, dataAge, publishAge, clients, sleep, beat, stall>>

ClientRegisters ==
    /\ clients < MaxClients
    /\ clients' = clients + 1
    /\ UNCHANGED <<mock, connected, dataAge, publishAge, sleep, beat, stall>>

\* (Mutant: leaving is counted, not taken from the registry.)
ClientLeavesUncounted ==
    /\ clients' = clients - 1
    /\ UNCHANGED <<mock, connected, dataAge, publishAge, sleep, beat, stall>>

ClientLeaves ==
    /\ clients > 0
    /\ clients' = clients - 1
    /\ UNCHANGED <<mock, connected, dataAge, publishAge, sleep, beat, stall>>

Next ==
    \/ Tick
    \/ StartHeartbeat
    \/ EndHeartbeat
    \/ DataExchange
    \/ RealtimePublish
    \/ MqttConnected
    \/ MqttDisconnected
    \/ ClientRegisters
    \/ ClientLeaves

Spec == Init /\ [][Next]_vars

-----------------------------------------------------------------------------

\* An operator is told that all is well only while real telemetry is at most
\* 10 seconds old, the broker is connected, and somebody is listening to a
\* channel that published in the last 30 seconds.
AllClearMeansLive ==
    Diagnosis(CurrentContext).severity = "ok" =>
        /\ ~mock /\ connected
        /\ dataAge \in 0 .. DataOkAgeSec
        /\ clients > 0
        /\ publishAge \in 0 .. RealtimeOkAgeSec

\* Once anything was published, the heartbeat keeps the interface indicator
\* from raising an alarm by itself: an alarm means that one heartbeat, or two
\* in a row together, spent more than RealtimeOkAgeSec - HeartbeatSec seconds
\* in their sends.  Marking the time before the broadcast costs no more.
InterfaceAlarmMeansStall ==
    publishAge # None /\ InterfaceUpdates(CurrentContext) \in {"warn", "error"} =>
        stall + (IF beat = None THEN 0 ELSE beat) > RealtimeOkAgeSec - HeartbeatSec

\* Three of the seven diagnoses are never given: "board unavailable" covers
\* them, its indicator being at least as strict as the ones they look at.
OnlyFourDiagnoses ==
    Diagnosis(CurrentContext).problem \in
        {"NotEnoughData", "BoardUnavailable", "UiUpdatesBlocked", "NotDetected"}

Rank(severity) == CASE severity = "ok" -> 0 [] severity = "warn" -> 1 [] OTHER -> 2

\* Silence never heals: while nothing but time passes, the diagnosis does not
\* become milder.
SilenceNeverHeals ==
    [][Tick => Rank(Diagnosis(CurrentContext)'.severity)
                 >= Rank(Diagnosis(CurrentContext).severity)]_vars

=============================================================================
