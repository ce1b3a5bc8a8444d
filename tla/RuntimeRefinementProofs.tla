----------------------- MODULE RuntimeRefinementProofs -----------------------
(***************************************************************************)
(* The proof that BridgeRuntime implements MonitorService, for any number  *)
(* of tasks, clients and channels.  Fairness is not needed: MonitorService *)
(* promises nothing about time.                                            *)
(***************************************************************************)
EXTENDS RuntimeRefinement, BridgeRuntimeProofs

-----------------------------------------------------------------------------
(* Snapshots *)

\* An update has a snapshot as long as it has something to show, and none
\* before it starts; the present state is one that was reported.
SnapInv ==
    /\ CurrentSnapshot \in Past
    /\ \A p \in Update : pc[p] = "idle" => snap[p] = NoSnapshot
    /\ \A p \in Update : pc[p] \in {"commit", "refresh", "publish"}
                            => snap[p] # NoSnapshot

LEMMA UpdateType == Update \subseteq Task
  BY DEF Update, Task

\* A state of the store is never mistaken for a missing snapshot.
LEMMA SnapshotIsSome ==
  ASSUME NEW ch \in [Channels -> Channel], NEW value
  PROVE  [channels |-> ch, act |-> value] # NoSnapshot
<1>1. DOMAIN ch # {}
  BY ChannelsAssumption
<1>2. ch # <<>>
  BY <1>1
<1> QED
  BY <1>2 DEF NoSnapshot

LEMMA NextSnapshotIsSome == ASSUME TypeOK' PROVE CurrentSnapshot' # NoSnapshot
<1>1. channels' \in [Channels -> Channel]
  BY DEF TypeOK, StoreTypeOK
<1> QED
  BY <1>1, SnapshotIsSome DEF CurrentSnapshot

\* A task that stored a change adds its snapshot to the past.
LEMMA PastGrows ==
  ASSUME TypeOK, TypeOK', NEW p \in Update, snap[p] = NoSnapshot,
         snap' = [snap EXCEPT ![p] = CurrentSnapshot']
  PROVE  Past' = Past \cup {CurrentSnapshot'}
<1> DEFINE Taken == {q \in Update : snap[q] # NoSnapshot}
<1>1. CurrentSnapshot' # NoSnapshot
  BY NextSnapshotIsSome
<1>2. p \in Task /\ snap \in [Task -> Snapshot \cup {NoSnapshot}] /\ Update \subseteq Task
  BY UpdateType DEF TypeOK
<1>3. snap'[p] = CurrentSnapshot' /\ \A q \in Update : q # p => snap'[q] = snap[q]
  BY <1>2
<1>4. Taken' = Taken \cup {p} /\ p \notin Taken
  BY <1>1, <1>3
<1>5. {snap'[q] : q \in Taken'} = {snap[q] : q \in Taken} \cup {CurrentSnapshot'}
  BY <1>3, <1>4
<1> QED
  BY <1>5 DEF Past

LEMMA PastSame == ASSUME UNCHANGED snap PROVE Past' = Past
  BY DEF Past

LEMMA SnapInit == Init => SnapInv
<1> SUFFICES ASSUME Init PROVE SnapInv
  OBVIOUS
<1>1. CurrentSnapshot = InitialSnapshot
  BY DEF Init, StoreInit, CurrentSnapshot, InitialSnapshot
<1> QED
  BY <1>1, UpdateType DEF Init, SnapInv, Past

\* A step that changes neither the store nor a snapshot.
LEMMA SnapKept ==
  ASSUME SnapInv, UNCHANGED <<snap>>, CurrentSnapshot' = CurrentSnapshot,
         \A q \in Update : pc'[q] = "idle" => pc[q] = "idle",
         \A q \in Update : pc'[q] \in {"commit", "refresh", "publish"}
                              => pc[q] \in {"commit", "refresh", "publish"}
  PROVE  SnapInv'
  BY PastSame DEF SnapInv

\* The step of an update that changes the store.
LEMMA SnapTaken ==
  ASSUME TypeOK, TypeOK', SnapInv, NEW p \in Update, pc[p] = "idle",
         snap' = [snap EXCEPT ![p] = CurrentSnapshot'],
         NEW to \in {"commit", "publish"}, pc' = [pc EXCEPT ![p] = to]
  PROVE  SnapInv'
<1>1. Past' = Past \cup {CurrentSnapshot'}
  BY PastGrows DEF SnapInv
<1>2. /\ pc \in [Task -> Place] /\ snap \in [Task -> Snapshot \cup {NoSnapshot}]
      /\ p \in Task /\ Update \subseteq Task
  BY UpdateType DEF TypeOK
<1>3. snap'[p] # NoSnapshot
  <2>1. CurrentSnapshot' # NoSnapshot
    BY NextSnapshotIsSome
  <2> QED
    BY <1>2, <2>1
<1>4. \A q \in Update : q # p => pc'[q] = pc[q] /\ snap'[q] = snap[q]
  BY <1>2
<1>5. pc'[p] # "idle"
  BY <1>2
<1> QED
  BY <1>1, <1>3, <1>4, <1>5 DEF SnapInv

LEMMA SnapStep ==
  TypeOK /\ TypeOK' /\ PlacesInv /\ SnapInv /\ [Next]_vars => SnapInv'
<1> SUFFICES ASSUME TypeOK, TypeOK', PlacesInv, SnapInv, [Next]_vars PROVE SnapInv'
  OBVIOUS
<1> USE TaskType, UpdateType
<1>0. pc \in [Task -> Place]
  BY DEF TypeOK
<1>1. ASSUME NEW p \in Board, NEW reading \in Readings, ProcessBoardPayload(p, reading)
      PROVE  SnapInv'
  <2>1. CASE Changed(reading) = {}
    <3>1. pc' = [pc EXCEPT ![p] = "done"] /\ UNCHANGED snap /\ ApplyBoardUpdate(reading)
      BY <1>1, <2>1 DEF ProcessBoardPayload
    <3>2. CurrentSnapshot' = CurrentSnapshot
      BY <2>1, <3>1, UnchangedPayload
    <3> QED
      BY <1>0, <3>1, <3>2, SnapKept
  <2>2. CASE Changed(reading) # {}
    BY <1>1, <2>2, SnapTaken DEF ProcessBoardPayload, Update
  <2> QED
    BY <2>1, <2>2
<1>2. ASSUME NEW p \in Act, NEW value \in {"on", "off"}, ProcessActPayload(p, value)
      PROVE  SnapInv'
  <2>1. CASE act = value
    <3>1. pc' = [pc EXCEPT ![p] = "done"] /\ UNCHANGED snap /\ ApplyActUpdate(value)
      BY <1>2, <2>1 DEF ProcessActPayload, Finish
    <3>2. CurrentSnapshot' = CurrentSnapshot
      BY <2>1, <3>1 DEF ApplyActUpdate, CurrentSnapshot
    <3> QED
      BY <1>0, <3>1, <3>2, SnapKept
  <2>2. CASE act # value
    BY <1>2, <2>2, SnapTaken DEF ProcessActPayload, StartPublish, Update
  <2> QED
    BY <2>1, <2>2
<1>3. ASSUME NEW p \in Event, AppendEvent(p) PROVE SnapInv'
  <2>1. p \notin Update
    BY TasksAssumption DEF Update
  <2>2. CurrentSnapshot' = CurrentSnapshot
    BY <1>3 DEF AppendEvent, storeVars, CurrentSnapshot
  <2> QED
    BY <1>0, <1>3, <2>1, <2>2, SnapKept DEF AppendEvent
<1>4. ASSUME NEW p \in Task,
             \/ CommitEntry(p) \/ RefreshEntry(p) \/ DatabaseFails(p)
             \/ EndBroadcast(p) \/ \E c \in Client : Send(p, c)
      PROVE  SnapInv'
  <2>1. UNCHANGED <<storeVars, snap>>
    BY <1>4 DEF CommitEntry, RefreshEntry, DatabaseFails, EndBroadcast, Send
  <2>2. CurrentSnapshot' = CurrentSnapshot
    BY <2>1 DEF storeVars, CurrentSnapshot
  <2>3. \/ pc[p] = "commit" /\ pc' = [pc EXCEPT ![p] = "refresh"]
        \/ pc[p] = "refresh" /\ pc' = [pc EXCEPT ![p] = "commit"]
        \/ pc[p] = "refresh" /\ pc' = [pc EXCEPT ![p] = "publish"]
        \/ pc' = [pc EXCEPT ![p] = "append"]
        \/ pc' = [pc EXCEPT ![p] = "failed"]
        \/ pc' = [pc EXCEPT ![p] = "done"]
        \/ UNCHANGED pc
    BY <1>4 DEF CommitEntry, RefreshEntry, DatabaseFails, EndBroadcast, Send,
                StartPublish, StartAppend, Finish
  <2> QED
    BY <1>0, <2>1, <2>2, <2>3, SnapKept
<1>5. ASSUME NEW c \in Client,
             Connection(c) \/ FetchJournal(c)
      PROVE  SnapInv'
  <2>1. UNCHANGED <<storeVars, pc, snap>>
    BY <1>5 DEF Connection, Join, Enter, Crash, Subscribe, FetchJournal, Cut, Leave, taskVars
  <2> QED
    BY <2>1, SnapKept DEF storeVars, CurrentSnapshot
<1>6. CASE UNCHANGED vars
  <2>1. UNCHANGED <<storeVars, pc, snap>>
    BY <1>6 DEF vars, taskVars
  <2> QED
    BY <2>1, SnapKept DEF storeVars, CurrentSnapshot
<1> QED
  BY <1>1, <1>2, <1>3, <1>4, <1>5, <1>6 DEF Next, TaskStep

-----------------------------------------------------------------------------
(* Every step is a step of the service, or none *)

LEMMA ServiceInit == Init => Service!Init
<1> SUFFICES ASSUME Init PROVE Service!Init
  OBVIOUS
<1>1. CurrentSnapshot = InitialSnapshot
  BY DEF Init, StoreInit, CurrentSnapshot, InitialSnapshot
<1>2. Past = {InitialSnapshot}
  BY UpdateType DEF Init, Past
<1>3. [c \in JournalClients |-> fetched[c].rows] = [c \in JournalClients |-> {}]
  BY DEF Init
<1> QED
  BY <1>1, <1>2, <1>3 DEF Init, Service!Init

\* A step that nobody outside can see.
LEMMA Unseen ==
  ASSUME CurrentSnapshot' = CurrentSnapshot, UNCHANGED <<snap, view, journal, feed, fetched>>
  PROVE  UNCHANGED Service!vars
  BY PastSame DEF Service!vars

\* The step of an update that changes the store.
LEMMA SeenChange ==
  ASSUME TypeOK, TypeOK', SnapInv, NEW p \in Update, pc[p] = "idle",
         snap' = [snap EXCEPT ![p] = CurrentSnapshot'],
         UNCHANGED <<view, journal, feed, fetched>>
  PROVE  Service!Next
<1>1. Past' = Past \cup {CurrentSnapshot'}
  BY PastGrows DEF SnapInv
<1>2. CurrentSnapshot' \in Snapshot
  BY DEF TypeOK, StoreTypeOK, CurrentSnapshot, Snapshot
<1>3. Service!Change
  BY <1>1, <1>2 DEF Service!Change
<1> QED
  BY <1>3 DEF Service!Next

\* A display is given a state that was reported.
LEMMA SeenShow ==
  ASSUME NEW c \in StateClients, NEW s \in Past, view' = [view EXCEPT ![c] = s],
         CurrentSnapshot' = CurrentSnapshot, UNCHANGED <<snap, journal, feed, fetched>>
  PROVE  Service!Next
<1>1. Service!Show(c)
  BY PastSame DEF Service!Show
<1> QED
  BY <1>1 DEF Service!Next

LEMMA SeenRecord ==
  ASSUME TypeOK, RowsInv, NEW p \in Task, CommitEntry(p)
  PROVE  Service!Next
<1>1. PICK e \in todo[p] : journal' = Append(journal, e)
  BY DEF CommitEntry
<1>2. e \in Entry /\ e \notin Rows(journal)
  BY DEF RowsInv, TypeOK
<1>3. UNCHANGED <<channels, act, snap, view, feed, fetched>>
  BY DEF CommitEntry, storeVars, clientVars
<1>4. ~Service!InLog(e)
  BY <1>2 DEF Service!InLog, Rows
<1>5. Service!Record(e)
  BY <1>1, <1>3, <1>4, PastSame DEF Service!Record, CurrentSnapshot
<1> QED
  BY <1>2, <1>5 DEF Service!Next

LEMMA SeenSend ==
  ASSUME TypeOK, PlacesInv, SnapInv, RowsInv, FeedInv,
         NEW p \in Task, NEW c \in Client, Send(p, c)
  PROVE  [Service!Next]_Service!vars
<1>1. /\ pc[p] \in {"publish", "append"} /\ c \in targets[p]
      /\ UNCHANGED <<channels, act, snap, journal, fetched>>
  BY DEF Send, storeVars
<1>2. CurrentSnapshot' = CurrentSnapshot
  BY <1>1 DEF CurrentSnapshot
<1>3. CASE UNCHANGED <<view, feed>>
  BY <1>1, <1>2, <1>3, Unseen
<1>4. CASE Deliver(p, c) /\ pc[p] = "publish"
  <2>1. view' = [view EXCEPT ![c] = snap[p]] /\ UNCHANGED feed
    BY <1>4 DEF Deliver
  <2>2. snap[p] \in Past
    BY <1>4 DEF PlacesInv, SnapInv, Past
  <2>3. CASE c \in StateClients
    BY <1>1, <1>2, <2>1, <2>2, <2>3, SeenShow
  <2>4. CASE c \notin StateClients
    <3>1. UNCHANGED view
      BY <2>1, <2>4 DEF TypeOK
    <3> QED
      BY <1>1, <1>2, <2>1, <3>1, Unseen
  <2> QED
    BY <2>3, <2>4
<1>5. CASE Deliver(p, c) /\ pc[p] # "publish"
  <2>1. PICK e \in untold[p] : /\ IsNext(e, untold[p])
                               /\ feed' = [feed EXCEPT ![c] = Append(@, e)]
    BY <1>5 DEF Deliver
  <2>2. e \in Rows(journal) /\ e.by = p /\ e \in Entry
    BY DEF RowsInv, Held, TypeOK
  <2>3. e \notin Rows(feed[c])
    <3>1. ~(e.item < e.item)
      BY <2>2, ItemType
    <3> QED
      BY <1>1, <2>2, <3>1 DEF FeedInv, ToldUpTo
  <2>4. PICK i \in 1 .. Len(journal) : journal[i] = e
    BY <2>2 DEF Rows
  <2>5. ~Service!Heard(journal[i], c)
    BY <2>3, <2>4 DEF Service!Heard, Rows
  <2>6. UNCHANGED view
    BY <1>5 DEF Deliver
  <2>7. Service!Tell(c)
    BY <1>1, <1>2, <2>1, <2>4, <2>5, <2>6, PastSame DEF Service!Tell
  <2> QED
    BY <2>7 DEF Service!Next
<1> QED
  BY <1>3, <1>4, <1>5 DEF Send

LEMMA SeenFetch ==
  ASSUME TypeOK, NEW c \in Client, FetchJournal(c)
  PROVE  Service!Next
<1>1. /\ c \in JournalClients
      /\ fetched' = [fetched EXCEPT ![c] = [done |-> TRUE, rows |-> Rows(journal)]]
      /\ UNCHANGED <<channels, act, snap, view, journal, feed>>
  BY DEF FetchJournal, storeVars, taskVars
<1>2. [d \in JournalClients |-> fetched'[d].rows]
        = [[d \in JournalClients |-> fetched[d].rows] EXCEPT ![c] = Rows(journal)]
  BY <1>1 DEF TypeOK
<1>3. Service!Fetch(c)
  BY <1>1, <1>2, PastSame DEF Service!Fetch, CurrentSnapshot, Rows
<1> QED
  BY <1>1, <1>3 DEF Service!Next

LEMMA ServiceStep ==
  /\ TypeOK /\ TypeOK' /\ PlacesInv /\ SnapInv /\ RowsInv /\ FeedInv
  /\ [Next]_vars
  => [Service!Next]_Service!vars
<1> SUFFICES ASSUME TypeOK, TypeOK', PlacesInv, SnapInv, RowsInv, FeedInv, [Next]_vars
             PROVE  [Service!Next]_Service!vars
  OBVIOUS
<1> USE TaskType, UpdateType
<1>1. ASSUME NEW p \in Board, NEW reading \in Readings, ProcessBoardPayload(p, reading)
      PROVE  [Service!Next]_Service!vars
  <2>1. /\ pc[p] = "idle" /\ ApplyBoardUpdate(reading)
        /\ UNCHANGED <<view, journal, feed, fetched>>
    BY <1>1 DEF ProcessBoardPayload, clientVars
  <2>2. CASE Changed(reading) = {}
    <3>1. CurrentSnapshot' = CurrentSnapshot
      BY <2>1, <2>2, UnchangedPayload
    <3> QED
      BY <1>1, <2>1, <2>2, <3>1, Unseen DEF ProcessBoardPayload
  <2>3. CASE Changed(reading) # {}
    BY <1>1, <2>1, <2>3, SeenChange DEF ProcessBoardPayload, Update
  <2> QED
    BY <2>2, <2>3
<1>2. ASSUME NEW p \in Act, NEW value \in {"on", "off"}, ProcessActPayload(p, value)
      PROVE  [Service!Next]_Service!vars
  <2>1. /\ pc[p] = "idle" /\ ApplyActUpdate(value)
        /\ UNCHANGED <<view, journal, feed, fetched>>
    BY <1>2 DEF ProcessActPayload, clientVars
  <2>2. CASE act = value
    <3>1. CurrentSnapshot' = CurrentSnapshot
      BY <2>1, <2>2 DEF ApplyActUpdate, CurrentSnapshot
    <3> QED
      BY <1>2, <2>1, <2>2, <3>1, Unseen DEF ProcessActPayload
  <2>3. CASE act # value
    BY <1>2, <2>1, <2>3, SeenChange DEF ProcessActPayload, Update
  <2> QED
    BY <2>2, <2>3
<1>3. ASSUME NEW p \in Task, CommitEntry(p) PROVE [Service!Next]_Service!vars
  BY <1>3, SeenRecord
<1>4. ASSUME NEW p \in Task, NEW c \in Client, Send(p, c)
      PROVE  [Service!Next]_Service!vars
  BY <1>4, SeenSend
<1>5. ASSUME NEW p \in Task,
             AppendEvent(p) \/ RefreshEntry(p) \/ DatabaseFails(p) \/ EndBroadcast(p)
      PROVE  [Service!Next]_Service!vars
  <2>1. UNCHANGED <<channels, act, snap, view, journal, feed, fetched>>
    BY <1>5 DEF AppendEvent, RefreshEntry, DatabaseFails, EndBroadcast, storeVars, clientVars
  <2> QED
    BY <2>1, Unseen DEF CurrentSnapshot
<1>6. ASSUME NEW c \in Client, Join(c) PROVE [Service!Next]_Service!vars
  <2>1. /\ c \in StateClients /\ view' = [view EXCEPT ![c] = CurrentSnapshot]
        /\ UNCHANGED <<channels, act, snap, journal, feed, fetched>>
    BY <1>6 DEF Join, storeVars, taskVars
  <2>2. CurrentSnapshot \in Past
    BY DEF SnapInv
  <2> QED
    BY <2>1, <2>2, SeenShow DEF CurrentSnapshot
<1>7. ASSUME NEW c \in Client, FetchJournal(c) PROVE [Service!Next]_Service!vars
  BY <1>7, SeenFetch
<1>8. ASSUME NEW c \in Client,
             Enter(c) \/ Crash(c) \/ Subscribe(c) \/ Cut(c) \/ Leave(c)
      PROVE  [Service!Next]_Service!vars
  <2>1. UNCHANGED <<channels, act, snap, view, journal, feed, fetched>>
    BY <1>8 DEF Enter, Crash, Subscribe, Cut, Leave, storeVars, taskVars
  <2> QED
    BY <2>1, Unseen DEF CurrentSnapshot
<1>9. CASE UNCHANGED vars
  <2>1. UNCHANGED <<channels, act, snap, view, journal, feed, fetched>>
    BY <1>9 DEF vars, storeVars, taskVars, clientVars
  <2> QED
    BY <2>1, Unseen DEF CurrentSnapshot
<1> QED
  BY <1>1, <1>2, <1>3, <1>4, <1>5, <1>6, <1>7, <1>8, <1>9 DEF Next, TaskStep, Connection

\* Whatever tasks, failures and connections do, the people in front of the
\* panels see a behaviour of MonitorService.
THEOREM Implements == Spec => ImplementsService
<1> DEFINE Inv == TypeOK /\ PlacesInv /\ SnapInv /\ RowsInv /\ FeedInv
<1>1. Init => Inv
  BY InitType, PlacesInit, SnapInit, RowsInit, FeedInit
<1>2. Inv /\ [Next]_vars => Inv'
  BY NextType, PlacesStep, SnapStep, RowsStep, FeedStep
<1>3. Inv /\ Inv' /\ [Next]_vars => [Service!Next]_Service!vars
  BY ServiceStep
<1> QED
  BY <1>1, <1>2, <1>3, ServiceInit, PTL DEF Spec, ImplementsService, Service!Spec

=============================================================================
