-------------------------- MODULE ConnectionProofs --------------------------
(***************************************************************************)
(* Proofs about ConnectionMonitor, for every heartbeat period, clock step  *)
(* and number of clients.                                                  *)
(***************************************************************************)
EXTENDS ConnectionMonitor, TLAPS

\* Every variable of ConnectionMonitor keeps its type.
THEOREM TypeCorrect == Spec => []TypeOK
<1>1. Init => TypeOK
  <2> SUFFICES ASSUME Init PROVE TypeOK
    OBVIOUS
  <2>1. mock \in BOOLEAN /\ connected \in BOOLEAN
    BY Zenon DEF Init
  <2>2. /\ dataAge \in Age /\ publishAge \in Age /\ beat \in Age
        /\ clients \in Nat /\ sleep \in Nat /\ stall \in Nat
    BY MonitorAssumption DEF Init, Age, None
  <2> QED
    BY <2>1, <2>2 DEF TypeOK
<1>2. TypeOK /\ [Next]_vars => TypeOK'
  <2> SUFFICES ASSUME TypeOK, [Next]_vars PROVE TypeOK'
    OBVIOUS
  <2> USE MonitorAssumption DEF TypeOK, Age, None
  <2>1. CASE Tick
    BY <2>1 DEF Tick, Older
  <2>2. CASE StartHeartbeat
    BY <2>2 DEF StartHeartbeat
  <2>3. CASE EndHeartbeat
    BY <2>3 DEF EndHeartbeat
  <2>4. CASE DataExchange
    BY <2>4 DEF DataExchange
  <2>5. CASE RealtimePublish
    BY <2>5 DEF RealtimePublish
  <2>6. CASE MqttConnected
    BY <2>6 DEF MqttConnected
  <2>7. CASE MqttDisconnected
    BY <2>7 DEF MqttDisconnected
  <2>8. CASE ClientRegisters
    BY <2>8 DEF ClientRegisters
  <2>9. CASE ClientLeaves
    BY <2>9 DEF ClientLeaves
  <2>10. CASE UNCHANGED vars
    BY <2>10 DEF vars
  <2> QED
    BY <2>1, <2>2, <2>3, <2>4, <2>5, <2>6, <2>7, <2>8, <2>9, <2>10 DEF Next
<1> QED
  BY <1>1, <1>2, PTL DEF Spec

-----------------------------------------------------------------------------
(* The rules, for any context *)

\* The possible indicators of an age.
LEMMA AgeToStateCases ==
  ASSUME NEW age \in Age, NEW ok \in Nat, NEW wn \in Nat, ok <= wn
  PROVE  /\ AgeToState(age, ok, wn) = "ok"      <=> age \in 0 .. ok
         /\ AgeToState(age, ok, wn) = "warn"    <=> age \in ok+1 .. wn
         /\ AgeToState(age, ok, wn) = "unknown" <=> age = None
         /\ AgeToState(age, ok, wn) = "error"   <=> age # None /\ age > wn
  BY DEF AgeToState, Age, None

\* When the board's indicator is "ok", so are the two that look at the same
\* age: the rules for late telemetry and for a missing backend never apply.
LEMMA BoardIsStrictest ==
  ASSUME NEW ctx \in Context, BoardOnline(ctx) = "ok"
  PROVE  /\ IncomingData(ctx) = "ok" /\ DataFresh(ctx) = "ok"
         /\ ~ctx.mock /\ ctx.mqttConnected /\ ctx.dataAge \in 0 .. DataOkAgeSec
<1>1. ctx.dataAge \in Age
  BY DEF Context
<1>2. ~ctx.mock /\ ctx.dataAge # None /\ ctx.mqttConnected
  BY DEF BoardOnline
<1>3. DataState(ctx) = "ok"
  BY <1>2 DEF BoardOnline
<1>4. ctx.dataAge \in 0 .. DataOkAgeSec
  BY <1>1, <1>3, AgeToStateCases DEF DataState, DataOkAgeSec, DataWarnAgeSec
<1> QED
  BY <1>2, <1>3, <1>4 DEF IncomingData, DataFresh

\* The board's indicator is one of the four states.
LEMMA BoardOnlineState ==
  ASSUME NEW ctx \in Context
  PROVE  BoardOnline(ctx) \in {"ok", "warn", "error", "unknown"}
  BY DEF Context, Age, None, BoardOnline, DataState, AgeToState,
         DataOkAgeSec, DataWarnAgeSec

\* The diagnosis, rule by rule, as far as it can be reached.
LEMMA DiagnosisCases ==
  ASSUME NEW ctx \in Context
  PROVE
    /\ BoardOnline(ctx) \in {"warn", "error"} =>
         Diagnosis(ctx) = [problem |-> "BoardUnavailable", severity |-> "error"]
    /\ BoardOnline(ctx) = "unknown" =>
         Diagnosis(ctx) = [problem |-> "NotEnoughData", severity |-> "warn"]
    /\ BoardOnline(ctx) = "ok" /\ InterfaceUpdates(ctx) \in {"warn", "error"} =>
         Diagnosis(ctx) = [problem |-> "UiUpdatesBlocked", severity |-> "error"]
    /\ BoardOnline(ctx) = "ok" /\ InterfaceUpdates(ctx) = "unknown" =>
         Diagnosis(ctx) = [problem |-> "NotEnoughData", severity |-> "warn"]
    /\ BoardOnline(ctx) = "ok" /\ InterfaceUpdates(ctx) = "ok" =>
         Diagnosis(ctx) = [problem |-> "NotDetected", severity |-> "ok"]
  BY BoardIsStrictest DEF Diagnosis, BuildDiagnosis, BackendAvailable

\* The interface's indicator is one of the four states, and "ok" only with a
\* client and a recent publish.
LEMMA InterfaceCases ==
  ASSUME NEW ctx \in Context
  PROVE  /\ InterfaceUpdates(ctx) \in {"ok", "warn", "error", "unknown"}
         /\ InterfaceUpdates(ctx) = "unknown" <=> ctx.clients = 0
         /\ InterfaceUpdates(ctx) = "ok" =>
              ctx.clients > 0 /\ ctx.publishAge \in 0 .. RealtimeOkAgeSec
         /\ InterfaceUpdates(ctx) \in {"warn", "error"} /\ ctx.publishAge # None =>
              ctx.publishAge > RealtimeOkAgeSec
  BY DEF Context, Age, None, InterfaceUpdates, AgeToState,
         RealtimeOkAgeSec, RealtimeWarnAgeSec

LEMMA ContextType == TypeOK => CurrentContext \in Context
  BY DEF TypeOK, CurrentContext, Context

-----------------------------------------------------------------------------
(* The theorems *)

\* The operator is told "all clear" only when the board, the broker and the
\* display really are.
THEOREM AllClear == Spec => []AllClearMeansLive
<1>1. TypeOK => AllClearMeansLive
  <2> SUFFICES ASSUME TypeOK, Diagnosis(CurrentContext).severity = "ok"
               PROVE  /\ ~mock /\ connected
                      /\ dataAge \in 0 .. DataOkAgeSec
                      /\ clients > 0
                      /\ publishAge \in 0 .. RealtimeOkAgeSec
    BY DEF AllClearMeansLive
  <2> DEFINE ctx == CurrentContext
  <2>1. ctx \in Context
    BY ContextType
  <2>2. BoardOnline(ctx) = "ok" /\ InterfaceUpdates(ctx) = "ok"
    BY <2>1, BoardOnlineState, InterfaceCases, DiagnosisCases
  <2>3. /\ ~ctx.mock /\ ctx.mqttConnected /\ ctx.dataAge \in 0 .. DataOkAgeSec
        /\ ctx.clients > 0 /\ ctx.publishAge \in 0 .. RealtimeOkAgeSec
    BY <2>1, <2>2, BoardIsStrictest, InterfaceCases
  <2> QED
    BY <2>3 DEF CurrentContext
<1> QED
  BY <1>1, TypeCorrect, PTL

\* Three diagnoses of the table are unreachable.
THEOREM FourDiagnoses == Spec => []OnlyFourDiagnoses
<1>1. TypeOK => OnlyFourDiagnoses
  BY ContextType, BoardOnlineState, InterfaceCases, DiagnosisCases DEF OnlyFourDiagnoses
<1> QED
  BY <1>1, TypeCorrect, PTL

-----------------------------------------------------------------------------

\* The inductive form of InterfaceAlarmMeansStall: a publish is never older
\* than the last heartbeat's sends, the sleep since and the sends under way.
PublishIsRecent ==
    /\ beat = None => sleep <= HeartbeatSec
    /\ publishAge # None =>
         publishAge <= stall + (IF beat = None THEN HeartbeatSec - sleep
                                               ELSE HeartbeatSec + beat)

LEMMA PublishStaysRecent ==
  TypeOK /\ PublishIsRecent /\ [Next]_vars => PublishIsRecent'
<1> SUFFICES ASSUME TypeOK, PublishIsRecent, [Next]_vars PROVE PublishIsRecent'
  OBVIOUS
<1> USE MonitorAssumption DEF TypeOK, Age, None, PublishIsRecent
<1>1. CASE Tick
  BY <1>1 DEF Tick, Older
<1>2. CASE StartHeartbeat
  BY <1>2 DEF StartHeartbeat
<1>3. CASE EndHeartbeat
  BY <1>3 DEF EndHeartbeat
<1>4. CASE DataExchange
  BY <1>4 DEF DataExchange
<1>5. CASE RealtimePublish
  BY <1>5 DEF RealtimePublish
<1>6. CASE MqttConnected
  BY <1>6 DEF MqttConnected
<1>7. CASE MqttDisconnected
  BY <1>7 DEF MqttDisconnected
<1>8. CASE ClientRegisters
  BY <1>8 DEF ClientRegisters
<1>9. CASE ClientLeaves
  BY <1>9 DEF ClientLeaves
<1>10. CASE UNCHANGED vars
  BY <1>10 DEF vars
<1> QED
  BY <1>1, <1>2, <1>3, <1>4, <1>5, <1>6, <1>7, <1>8, <1>9, <1>10 DEF Next

\* The interface indicator raises an alarm only after heartbeats that hung.
THEOREM AlarmMeansStall == Spec => []InterfaceAlarmMeansStall
<1>1. Init => PublishIsRecent
  BY MonitorAssumption DEF Init, PublishIsRecent, None
<1>2. TypeOK /\ PublishIsRecent => InterfaceAlarmMeansStall
  <2> SUFFICES ASSUME TypeOK, PublishIsRecent, publishAge # None,
                      InterfaceUpdates(CurrentContext) \in {"warn", "error"}
               PROVE  stall + (IF beat = None THEN 0 ELSE beat)
                        > RealtimeOkAgeSec - HeartbeatSec
    BY DEF InterfaceAlarmMeansStall
  <2>1. publishAge > RealtimeOkAgeSec
    BY ContextType, InterfaceCases DEF CurrentContext
  <2> QED
    BY <2>1, MonitorAssumption DEF TypeOK, PublishIsRecent, Age, None, RealtimeOkAgeSec
<1> QED
  BY <1>1, <1>2, PublishStaysRecent, TypeCorrect, PTL DEF Spec

-----------------------------------------------------------------------------

\* An age that only grows leaves its indicator as it is or makes it worse.
LEMMA OlderIsNoBetter ==
  ASSUME NEW age \in Age, NEW ok \in Nat, NEW wn \in Nat, ok <= wn
  PROVE  /\ Older(age) \in Age
         /\ AgeToState(age, ok, wn) = "unknown" <=> AgeToState(Older(age), ok, wn) = "unknown"
         /\ AgeToState(age, ok, wn) \in {"warn", "error"} =>
              AgeToState(Older(age), ok, wn) \in {"warn", "error"}
  BY MonitorAssumption DEF AgeToState, Older, Age, None

\* Time alone never makes the diagnosis milder.
THEOREM SilenceIsNoCure == Spec => SilenceNeverHeals
<1>1. TypeOK /\ TypeOK' /\ [Next]_vars =>
        [Tick => Rank(Diagnosis(CurrentContext)'.severity)
                   >= Rank(Diagnosis(CurrentContext).severity)]_vars
  <2> SUFFICES ASSUME TypeOK, TypeOK', Tick
               PROVE  Rank(Diagnosis(CurrentContext)'.severity)
                        >= Rank(Diagnosis(CurrentContext).severity)
    BY Zenon
  <2> DEFINE old == CurrentContext
             new == CurrentContext'
  <2>1. /\ old \in Context /\ new \in Context
    BY DEF TypeOK, CurrentContext, Context
  <2>2. /\ new.mock = old.mock /\ new.mqttConnected = old.mqttConnected
        /\ new.clients = old.clients
        /\ new.dataAge = Older(old.dataAge) /\ new.publishAge = Older(old.publishAge)
    BY DEF Tick, CurrentContext
  <2>3. /\ old.dataAge \in Age /\ old.publishAge \in Age /\ old.clients \in Nat
    BY <2>1 DEF Context
  <2> HIDE DEF old, new
  <2>4. /\ BoardOnline(old) = "unknown" <=> BoardOnline(new) = "unknown"
        /\ BoardOnline(old) \in {"warn", "error"} => BoardOnline(new) \in {"warn", "error"}
    BY <2>2, <2>3, OlderIsNoBetter, MonitorAssumption
       DEF BoardOnline, DataState, AgeToState, Older, Age, None, DataOkAgeSec, DataWarnAgeSec
  <2>5. /\ InterfaceUpdates(old) = "unknown" <=> InterfaceUpdates(new) = "unknown"
        /\ InterfaceUpdates(old) \in {"warn", "error"} => InterfaceUpdates(new) \in {"warn", "error"}
    BY <2>2, <2>3, MonitorAssumption
       DEF InterfaceUpdates, AgeToState, Older, Age, None, RealtimeOkAgeSec, RealtimeWarnAgeSec
  <2>6. Rank(Diagnosis(new).severity) >= Rank(Diagnosis(old).severity)
    BY <2>1, <2>4, <2>5, BoardOnlineState, InterfaceCases, DiagnosisCases DEF Rank
  <2>7. Diagnosis(CurrentContext)' = Diagnosis(new)
    BY DEF new, Diagnosis, BuildDiagnosis, BoardOnline, IncomingData, BackendAvailable,
           InterfaceUpdates, DataFresh, DataState
  <2> QED
    BY <2>6, <2>7 DEF old
<1> QED
  BY <1>1, TypeCorrect, PTL DEF Spec, SilenceNeverHeals

=============================================================================
