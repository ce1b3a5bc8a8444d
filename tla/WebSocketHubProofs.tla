------------------------- MODULE WebSocketHubProofs -------------------------
(***************************************************************************)
(* Proofs about WebSocketHub, for any set of clients.                      *)
(***************************************************************************)
EXTENDS WebSocketHub, TLAPS

LEMMA InitType == Init => TypeOK
  BY DEF Init, TypeOK, Stage, Said

\* The indicator is one of the two things a message can say.
LEMMA IndicatorType == \A clients : Indicator(clients) \in {"alarm", "clear"}
  BY DEF Indicator

LEMMA NextType == TypeOK /\ [Next]_vars => TypeOK'
<1> SUFFICES ASSUME TypeOK, [Next]_vars PROVE TypeOK'
  OBVIOUS
<1> USE DEF TypeOK, Stage, Said, beatVars, handlerVars
<1>1. ASSUME NEW c \in Clients, Connect(c) PROVE TypeOK'
  BY <1>1, IndicatorType DEF Connect, Goto
<1>2. ASSUME NEW c \in Clients, Greeted(c) \/ GreetingFails(c) PROVE TypeOK'
  BY <1>2 DEF Greeted, GreetingFails, Crash, Goto
<1>3. ASSUME NEW c \in Clients, CommitRow(c) \/ RefreshRow(c) PROVE TypeOK'
  BY <1>3 DEF CommitRow, RefreshRow, Goto
<1>4. ASSUME NEW c \in Clients, RowFails(c) PROVE TypeOK'
  BY <1>4 DEF RowFails, Crash, Goto
<1>5. ASSUME NEW c \in Clients, Receive(c) \/ Replied(c) \/ Leave(c) PROVE TypeOK'
  BY <1>5 DEF Receive, Replied, Leave, Goto
<1>6. ASSUME NEW c \in Clients, Cut(c) PROVE TypeOK'
  BY <1>6 DEF Cut
<1>7. CASE StartBeat
  BY <1>7, IndicatorType DEF StartBeat
<1>8. ASSUME NEW c \in Clients, Send(c) PROVE TypeOK'
  BY <1>8 DEF Send
<1>9. CASE EndBeat
  BY <1>9 DEF EndBeat
<1>10. CASE UNCHANGED vars
  BY <1>10 DEF vars
<1> QED
  BY <1>1, <1>2, <1>3, <1>4, <1>5, <1>6, <1>7, <1>8, <1>9, <1>10
     DEF Next, BeatStep, HandlerStep

\* Every variable of the handlers, the registry and the heartbeat keeps its
\* type, and nothing of a heartbeat is left when it sleeps.
THEOREM TypeCorrect == Spec => []TypeOK
  BY InitType, NextType, PTL DEF Spec

-----------------------------------------------------------------------------

\* A heartbeat has only clients to reach that did connect, and only clients
\* that are gone for good among those it will take out.
BeatInv ==
    \A c \in Clients :
        /\ link[c] = "out" <=> stage[c] = "out"
        /\ c \in targets => stage[c] # "out"
        /\ c \in stale => stage[c] # "out" /\ link[c] # "open"

HubInv == RegistryServesTheLiving /\ BeatInv

LEMMA HubInit == Init => HubInv
  BY DEF Init, HubInv, BeatInv, RegistryServesTheLiving, Served

\* A step of the handler of client c, after which c is counted correctly: the
\* other clients and the heartbeat are left alone.
LEMMA HandlerKeeps ==
  ASSUME HubInv, NEW c \in Clients,
         UNCHANGED beatVars,
         \A d \in Clients : d # c => /\ stage'[d] = stage[d] /\ link'[d] = link[d]
                                     /\ d \in registered' <=> d \in registered,
         stage'[c] # "out", link'[c] # "out",
         stage'[c] \in Served /\ link'[c] = "open" => c \in registered',
         c \in registered' => stage'[c] \in Served \cup {"crashed"},
         c \in stale => link'[c] # "open"
  PROVE  HubInv'
  BY DEF HubInv, BeatInv, RegistryServesTheLiving, beatVars, Served

LEMMA HubKept == TypeOK /\ HubInv /\ [Next]_vars => HubInv'
<1> SUFFICES ASSUME TypeOK, HubInv, [Next]_vars PROVE HubInv'
  OBVIOUS
<1>0. /\ stage \in [Clients -> Stage]
      /\ link \in [Clients -> {"out", "open", "cut", "closed"}]
  BY DEF TypeOK
<1>1. ASSUME NEW c \in Clients, Connect(c) PROVE HubInv'
  <2>1. c \notin stale
    BY <1>1 DEF Connect, HubInv, BeatInv
  <2> QED
    BY <1>0, <1>1, <2>1, HandlerKeeps DEF Connect, Goto, Served
<1>2. ASSUME NEW c \in Clients, HandlerStep(c) \/ RowFails(c) \/ Receive(c) PROVE HubInv'
  <2>1. stage[c] # "out" /\ link[c] # "out"
    BY <1>0, <1>2 DEF HandlerStep, Greeted, GreetingFails, CommitRow, RefreshRow, Replied,
                      Leave, RowFails, Receive, HubInv, BeatInv
  <2>2. /\ c \in stale => link[c] # "open"
        /\ stage[c] \in Served /\ link[c] = "open" => c \in registered
        /\ c \in registered => stage[c] \in Served \cup {"crashed"}
    BY DEF HubInv, BeatInv, RegistryServesTheLiving
  <2>3. CASE Greeted(c) \/ Receive(c) \/ Replied(c)
    BY <1>0, <2>1, <2>2, <2>3, HandlerKeeps DEF Greeted, Receive, Replied, Goto, Served
  <2>4. CASE GreetingFails(c) \/ RowFails(c)
    BY <1>0, <2>1, <2>2, <2>4, HandlerKeeps DEF GreetingFails, RowFails, Crash, Goto, Served
  <2>5. CASE CommitRow(c) \/ RefreshRow(c)
    BY <1>0, <2>1, <2>2, <2>5, HandlerKeeps DEF CommitRow, RefreshRow, Goto, Served
  <2>6. CASE Leave(c)
    BY <1>0, <2>1, <2>2, <2>6, HandlerKeeps DEF Leave, Goto, Served
  <2> QED
    BY <1>2, <2>3, <2>4, <2>5, <2>6 DEF HandlerStep
<1>3. ASSUME NEW c \in Clients, Cut(c) PROVE HubInv'
  <2>1. stage[c] # "out"
    BY <1>3 DEF Cut, HubInv, BeatInv
  <2> QED
    BY <1>0, <1>3, HandlerKeeps DEF Cut, HubInv, RegistryServesTheLiving, BeatInv
<1>4. CASE StartBeat
  BY <1>4 DEF StartBeat, handlerVars, HubInv, RegistryServesTheLiving, BeatInv, Served
<1>5. ASSUME NEW c \in Clients, Send(c) PROVE HubInv'
  <2>1. UNCHANGED <<stage, link, registered>>
    BY <1>5 DEF Send
  <2>2. RegistryServesTheLiving'
    BY <2>1 DEF HubInv, RegistryServesTheLiving
  <2>3. /\ targets' \subseteq targets
        /\ stale' = stale \/ (link[c] # "open" /\ stale' = stale \cup {c})
    BY <1>5 DEF Send
  <2>4. BeatInv'
    BY <1>5, <2>1, <2>3 DEF HubInv, BeatInv, Send
  <2> QED
    BY <2>2, <2>4 DEF HubInv
<1>6. CASE EndBeat
  BY <1>6 DEF EndBeat, handlerVars, HubInv, RegistryServesTheLiving, BeatInv
<1>7. CASE UNCHANGED vars
  BY <1>7 DEF vars, handlerVars, beatVars, HubInv, RegistryServesTheLiving, BeatInv
<1> QED
  BY <1>1, <1>2, <1>3, <1>4, <1>5, <1>6, <1>7 DEF Next, BeatStep

\* However connects, failures and heartbeats interleave, every client that is
\* served is in the registry, and of the others only crashed ones can be.
THEOREM LivingAreServed == Spec => []RegistryServesTheLiving
<1>1. TypeOK /\ HubInv /\ [Next]_vars => (TypeOK /\ HubInv)'
  BY NextType, HubKept
<1>2. Init => TypeOK /\ HubInv
  BY InitType, HubInit
<1>3. HubInv => RegistryServesTheLiving
  BY DEF HubInv
<1> QED
  BY <1>1, <1>2, <1>3, PTL DEF Spec

=============================================================================
