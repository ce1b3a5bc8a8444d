------------------------- MODULE BridgeRuntimeProofs -------------------------
(***************************************************************************)
(* Proofs about BridgeRuntime, for any number of tasks, clients and        *)
(* channels.                                                               *)
(***************************************************************************)
EXTENDS BridgeRuntime, SequenceTheorems, FiniteSetTheorems, TLAPS

-----------------------------------------------------------------------------
(* Lemmas about the operators *)

\* Decoding gives a channel state.
LEMMA DecodedType == ASSUME NEW t \in Triplet PROVE Decoded(t) \in Channel
<1>1. FaultTypeOf(t) \in FaultType
  BY DEF FaultTypeOf, FaultType
<1>2. DecodeChannelState(t).status \in Status
  BY <1>1 DEF DecodeChannelState, Status, FaultType
<1>3. DecodeChannelState(t).fault \in BOOLEAN
  BY DEF DecodeChannelState
<1> QED
  BY <1>2, <1>3 DEF Decoded, Channel

LEMMA InactiveType == Inactive \in Channel
  BY DEF Inactive, Channel, Triplet, Bit, Status

\* A payload is a total reading of the mapped channels.
LEMMA ReadingType ==
  ASSUME NEW reading \in Readings
  PROVE  /\ DOMAIN reading = Mapped
         /\ \A c \in Mapped : c \in Channels /\ Decoded(reading[c]) \in Channel
  BY DecodedType, MappedAssumption, SamplesAssumption DEF Readings

\* apply_board_update keeps the store typed.
LEMMA BoardUpdateType ==
  ASSUME StoreTypeOK, NEW reading \in Readings, ApplyBoardUpdate(reading)
  PROVE  StoreTypeOK'
<1>1. channels' \in [Channels -> Channel]
  BY ReadingType DEF StoreTypeOK, ApplyBoardUpdate
<1>2. module' \in Modules
  BY ReadingType DEF ApplyBoardUpdate, IsFirst, Modules
<1> QED
  BY <1>1, <1>2 DEF StoreTypeOK, ApplyBoardUpdate

\* ... and the rows it asks for are journal entries.
LEMMA ChangeRowsType ==
  ASSUME StoreTypeOK, NEW p \in Task, NEW reading \in Readings
  PROVE  ChangeRows(p, reading) \in SUBSET Entry
<1> SUFFICES ASSUME NEW c \in Changed(reading)
             PROVE  [by |-> p, item |-> c, previous |-> channels[c].status,
                     new |-> Decoded(reading[c]).status] \in Entry
  BY DEF ChangeRows
<1>1. c \in Channels /\ Decoded(reading[c]) \in Channel
  BY ReadingType DEF Changed
<1>2. channels[c] \in Channel
  BY <1>1 DEF StoreTypeOK
<1> QED
  BY <1>1, <1>2 DEF Entry, Channel

\* The rows of a log that grew by one.
LEMMA RowsAppend ==
  ASSUME NEW S, NEW log \in Seq(S), NEW e \in S
  PROVE  Rows(Append(log, e)) = Rows(log) \cup {e}
<1>1. /\ Len(Append(log, e)) = Len(log) + 1
      /\ Append(log, e)[Len(log) + 1] = e
      /\ \A i \in 1 .. Len(log) : Append(log, e)[i] = log[i]
      /\ Len(log) \in Nat
  BY AppendProperties, LenProperties
<1>2. 1 .. Len(log) + 1 = (1 .. Len(log)) \cup {Len(log) + 1}
  BY <1>1
<1> QED
  BY <1>1, <1>2 DEF Rows

LEMMA RowsType ==
  ASSUME NEW S, NEW log \in Seq(S) PROVE Rows(log) \subseteq S
  BY LenProperties, ElementOfSeq DEF Rows

-----------------------------------------------------------------------------
(* Type correctness *)

LEMMA InitType == Init => TypeOK
<1> SUFFICES ASSUME Init PROVE TypeOK
  OBVIOUS
<1>1. StoreTypeOK
  BY InactiveType DEF Init, StoreInit, StoreTypeOK, Tifon
<1>2. /\ journal \in Seq(Entry)
      /\ feed \in [Client -> Seq(Entry)]
  BY EmptySeq DEF Init
<1>3. clean \in BOOLEAN
  BY Zenon DEF Init
<1> QED
  BY <1>1, <1>2, <1>3 DEF Init, TypeOK, Place, Link

LEMMA TaskType == Board \subseteq Task /\ Act \subseteq Task /\ Event \subseteq Task
  BY DEF Task

LEMMA StateStepType ==
  ASSUME TypeOK PROVE CurrentSnapshot \in Snapshot
  BY DEF TypeOK, StoreTypeOK, CurrentSnapshot, Snapshot

LEMMA StartType ==
  ASSUME TypeOK, NEW p \in Task
  PROVE  /\ StartPublish(p) => pc' \in [Task -> Place] /\ targets' \in [Task -> SUBSET Client]
         /\ StartAppend(p) => pc' \in [Task -> Place] /\ targets' \in [Task -> SUBSET Client]
         /\ Finish(p) => pc' \in [Task -> Place] /\ targets' \in [Task -> SUBSET Client]
<1>1. "publish" \in Place /\ "append" \in Place /\ "done" \in Place
  BY DEF Place
<1>2. pc \in [Task -> Place] /\ targets \in [Task -> SUBSET Client]
  BY DEF TypeOK
<1>3. registered \cap StateClients \in SUBSET Client /\ registered \cap JournalClients \in SUBSET Client
  BY DEF TypeOK
<1> QED
  BY <1>1, <1>2, <1>3 DEF StartPublish, StartAppend, Finish

LEMMA PlaceType ==
  ASSUME TypeOK, NEW p \in Task, NEW to \in Place, pc' = [pc EXCEPT ![p] = to]
  PROVE  pc' \in [Task -> Place]
  BY DEF TypeOK

\* Every variable of BridgeRuntime keeps its type.
LEMMA NextType == TypeOK /\ [Next]_vars => TypeOK'
<1> SUFFICES ASSUME TypeOK, [Next]_vars PROVE TypeOK'
  OBVIOUS
<1> USE TaskType
<1>1. ASSUME NEW p \in Board, NEW reading \in Readings, ProcessBoardPayload(p, reading)
      PROVE  TypeOK'
  <2>1. StoreTypeOK'
    BY <1>1, BoardUpdateType DEF ProcessBoardPayload, TypeOK
  <2>2. CurrentSnapshot' \in Snapshot
    BY <2>1 DEF StoreTypeOK, CurrentSnapshot, Snapshot
  <2>3. ChangeRows(p, reading) \in SUBSET Entry
    BY <1>1, ChangeRowsType DEF TypeOK
  <2>4. clean' \in BOOLEAN
    BY <1>1 DEF ProcessBoardPayload, NoteUpdate, TypeOK
  <2>5. /\ pc' \in [Task -> Place]
        /\ todo' \in [Task -> SUBSET Entry]
        /\ snap' \in [Task -> Snapshot \cup {NoSnapshot}]
    <3> "done" \in Place /\ "commit" \in Place
      BY DEF Place
    <3>1. CASE Changed(reading) = {}
      <4>1. pc' = [pc EXCEPT ![p] = "done"] /\ UNCHANGED <<todo, snap>>
        BY <1>1, <3>1 DEF ProcessBoardPayload
      <4> QED
        BY <4>1, PlaceType DEF TypeOK
    <3>2. CASE Changed(reading) # {}
      <4>1. /\ pc' = [pc EXCEPT ![p] = "commit"]
            /\ todo' = [todo EXCEPT ![p] = ChangeRows(p, reading)]
            /\ snap' = [snap EXCEPT ![p] = CurrentSnapshot']
        BY <1>1, <3>2 DEF ProcessBoardPayload
      <4> QED
        BY <4>1, <2>2, <2>3, PlaceType DEF TypeOK
    <3> QED
      BY <3>1, <3>2
  <2> QED
    BY <1>1, <2>1, <2>4, <2>5 DEF ProcessBoardPayload, TypeOK, clientVars
<1>2. ASSUME NEW p \in Act, NEW value \in {"on", "off"}, ProcessActPayload(p, value)
      PROVE  TypeOK'
  <2>1. StoreTypeOK'
    BY <1>2 DEF ProcessActPayload, ApplyActUpdate, TypeOK, StoreTypeOK, Tifon
  <2>2. CurrentSnapshot' \in Snapshot
    BY <2>1 DEF StoreTypeOK, CurrentSnapshot, Snapshot
  <2>4. clean' \in BOOLEAN
    BY <1>2 DEF ProcessActPayload, NoteUpdate, TypeOK
  <2>5. /\ pc' \in [Task -> Place]
        /\ targets' \in [Task -> SUBSET Client]
        /\ snap' \in [Task -> Snapshot \cup {NoSnapshot}]
    <3>1. CASE act = value
      BY <1>2, <3>1, StartType DEF ProcessActPayload, TypeOK
    <3>2. CASE act # value
      <4>1. StartPublish(p) /\ snap' = [snap EXCEPT ![p] = CurrentSnapshot']
        BY <1>2, <3>2 DEF ProcessActPayload
      <4>2. p \in Task
        BY <1>2, TaskType
      <4>3. pc' \in [Task -> Place] /\ targets' \in [Task -> SUBSET Client]
        BY <4>1, <4>2, StartType
      <4> QED
        BY <2>2, <4>1, <4>3 DEF TypeOK
    <3> QED
      BY <3>1, <3>2
  <2> QED
    BY <1>2, <2>1, <2>4, <2>5 DEF ProcessActPayload, TypeOK, clientVars
<1>3. ASSUME NEW p \in Event, AppendEvent(p) PROVE TypeOK'
  <2>1. [by |-> p, item |-> 0, previous |-> "none", new |-> "info"] \in Entry
    BY DEF Entry
  <2>2. /\ pc' \in [Task -> Place]
        /\ todo' \in [Task -> SUBSET Entry]
    BY <1>3, <2>1, PlaceType DEF AppendEvent, TypeOK, Place
  <2> QED
    BY <1>3, <2>2 DEF AppendEvent, TypeOK, StoreTypeOK, storeVars, clientVars, Modules
<1>4. ASSUME NEW p \in Task, CommitEntry(p) PROVE TypeOK'
  <2>1. PICK e \in todo[p] : /\ journal' = Append(journal, e)
                             /\ todo' = [todo EXCEPT ![p] = @ \ {e}]
                             /\ untold' = [untold EXCEPT ![p] = @ \cup {e}]
    BY <1>4 DEF CommitEntry
  <2>2. e \in Entry
    BY DEF TypeOK
  <2>3. journal' \in Seq(Entry)
    BY <2>1, <2>2, AppendProperties DEF TypeOK
  <2> QED
    BY <1>4, <2>1, <2>2, <2>3 DEF CommitEntry, TypeOK, Place, StoreTypeOK, storeVars, clientVars, Modules
<1>5. ASSUME NEW p \in Task, RefreshEntry(p) PROVE TypeOK'
  <2>1. /\ pc' \in [Task -> Place]
        /\ targets' \in [Task -> SUBSET Client]
    <3>1. CASE todo[p] # {}
      BY <1>5, <3>1, PlaceType DEF RefreshEntry, TypeOK, Place
    <3>2. CASE todo[p] = {} /\ p \in Board
      BY <1>5, <3>2, StartType DEF RefreshEntry
    <3>3. CASE todo[p] = {} /\ p \notin Board
      BY <1>5, <3>3, StartType DEF RefreshEntry
    <3> QED
      BY <3>1, <3>2, <3>3
  <2> QED
    BY <1>5, <2>1 DEF RefreshEntry, TypeOK, StoreTypeOK, storeVars, clientVars, Modules
<1>6. ASSUME NEW p \in Task, DatabaseFails(p) PROVE TypeOK'
  <2>1. clean' \in BOOLEAN
    BY <1>6, Zenon DEF DatabaseFails
  <2> QED
    BY <1>6, <2>1 DEF DatabaseFails, TypeOK, Place, StoreTypeOK, storeVars, clientVars, Modules
<1>7. ASSUME NEW p \in Task, NEW c \in Client, Send(p, c) PROVE TypeOK'
  <2>1. /\ view' \in [StateClients -> Snapshot \cup {NoSnapshot}]
        /\ feed' \in [Client -> Seq(Entry)]
    <3>1. CASE Deliver(p, c)
      <4>1. CASE pc[p] = "publish"
        BY <3>1, <4>1 DEF Deliver, TypeOK
      <4>2. CASE pc[p] # "publish"
        <5>1. PICK e \in untold[p] : feed' = [feed EXCEPT ![c] = Append(@, e)]
          BY <3>1, <4>2 DEF Deliver
        <5>2. Append(feed[c], e) \in Seq(Entry)
          BY AppendProperties DEF TypeOK
        <5> QED
          BY <3>1, <4>2, <5>1, <5>2 DEF Deliver, TypeOK
      <4> QED
        BY <4>1, <4>2
    <3>2. CASE UNCHANGED <<view, feed>>
      BY <3>2 DEF TypeOK
    <3> QED
      BY <1>7, <3>1, <3>2 DEF Send
  <2>2. targets' \in [Task -> SUBSET Client]
    BY <1>7 DEF Send, TypeOK
  <2>3. stale' \in [Task -> SUBSET Client]
    <3>1. CASE stale' = [stale EXCEPT ![p] = @ \cup {c}]
      BY <3>1 DEF TypeOK
    <3>2. CASE UNCHANGED stale
      BY <3>2 DEF TypeOK
    <3> QED
      BY <1>7, <3>1, <3>2 DEF Send
  <2>4. UNCHANGED <<channels, act, module, pc, todo, untold, snap, journal,
                    registered, link, guarded, fetched, clean>>
    BY <1>7 DEF Send, storeVars
  <2> QED
    BY <2>1, <2>2, <2>3, <2>4 DEF TypeOK, StoreTypeOK, Modules
<1>8. ASSUME NEW p \in Task, EndBroadcast(p) PROVE TypeOK'
  <2>1. StillUntold(p) \in SUBSET Entry
    BY DEF StillUntold, TypeOK
  <2>2. pc' \in [Task -> Place] /\ targets' \in [Task -> SUBSET Client]
    BY <1>8, StartType DEF EndBroadcast
  <2> QED
    BY <1>8, <2>1, <2>2 DEF EndBroadcast, TypeOK, StoreTypeOK, storeVars, Modules
<1>9. ASSUME NEW c \in Client, Connection(c)
      PROVE  TypeOK'
  <2>1. /\ link' \in [Client -> Link]
        /\ registered' \in SUBSET Client
        /\ guarded' \in SUBSET Client
    BY <1>9 DEF Connection, Join, Enter, Crash, Subscribe, Cut, Leave, TypeOK, Link
  <2>2. view' \in [StateClients -> Snapshot \cup {NoSnapshot}]
    BY <1>9, StateStepType DEF Connection, Join, Enter, Crash, Subscribe, Cut, Leave, TypeOK
  <2>3. UNCHANGED <<storeVars, taskVars, journal, feed, fetched, clean>>
    BY <1>9 DEF Connection, Join, Enter, Crash, Subscribe, Cut, Leave
  <2> QED
    BY <2>1, <2>2, <2>3 DEF TypeOK, StoreTypeOK, storeVars, taskVars, Modules
<1>10. ASSUME NEW c \in Client, FetchJournal(c) PROVE TypeOK'
  <2>1. Rows(journal) \in SUBSET Entry
    BY RowsType DEF TypeOK
  <2> QED
    BY <1>10, <2>1 DEF FetchJournal, TypeOK, StoreTypeOK, storeVars, taskVars, Modules
<1>11. CASE UNCHANGED vars
  BY <1>11 DEF vars, storeVars, taskVars, clientVars, TypeOK, StoreTypeOK, Modules
<1> QED
  BY <1>1, <1>2, <1>3, <1>4, <1>5, <1>6, <1>7, <1>8, <1>9, <1>10, <1>11
     DEF Next, TaskStep

\* The type invariant of BridgeRuntime.
THEOREM TypeCorrect == Spec => []TypeOK
  BY InitType, NextType, PTL DEF Spec

-----------------------------------------------------------------------------
(* The registries and the connections *)

\* What keeps the registries right: a broadcast only ever holds clients that
\* had connected, and gives up only on those whose peer or handler is gone for
\* good; the handler of a journal page has no steps outside its try block.
Gone == {"cut", "closed", "crashed"}

RegistryInv ==
    /\ RegistryMatchesLinks
    /\ \A p \in Task : \A c \in targets[p] : link[c] # "out"
    /\ \A p \in Task : \A c \in stale[p] : link[c] \in Gone
    /\ \A c \in JournalClients : link[c] \in {"open", "cut"} => c \in guarded

LEMMA RegistryInit == Init => RegistryInv
  BY DEF Init, RegistryInv, RegistryMatchesLinks, Client

LEMMA CopyOfRegistry ==
  ASSUME TypeOK, RegistryInv, NEW p \in Task,
         StartPublish(p) \/ StartAppend(p) \/ UNCHANGED targets,
         UNCHANGED link
  PROVE  \A q \in Task : \A c \in targets'[q] : link'[c] # "out"
<1>1. \A c \in registered : link[c] # "out"
  BY DEF TypeOK, RegistryInv, RegistryMatchesLinks
<1>2. ASSUME NEW q \in Task PROVE targets'[q] \subseteq targets[q] \cup registered
  <2>1. targets \in [Task -> SUBSET Client]
    BY DEF TypeOK
  <2>2. \/ targets' = [targets EXCEPT ![p] = registered \cap StateClients]
        \/ targets' = [targets EXCEPT ![p] = registered \cap JournalClients]
        \/ targets' = targets
    BY DEF StartPublish, StartAppend
  <2> QED
    BY <2>1, <2>2
<1> QED
  BY <1>1, <1>2 DEF RegistryInv

LEMMA RegistryStep == TypeOK /\ RegistryInv /\ [Next]_vars => RegistryInv'
<1> SUFFICES ASSUME TypeOK, RegistryInv, [Next]_vars PROVE RegistryInv'
  OBVIOUS
<1> USE TaskType
<1>1. ASSUME NEW p \in Board, NEW reading \in Readings, ProcessBoardPayload(p, reading)
      PROVE  RegistryInv'
  BY <1>1 DEF ProcessBoardPayload, clientVars, RegistryInv, RegistryMatchesLinks
<1>2. ASSUME NEW p \in Act, NEW value \in {"on", "off"}, ProcessActPayload(p, value)
      PROVE  RegistryInv'
  <2>1. UNCHANGED <<stale, registered, link, guarded>>
    BY <1>2 DEF ProcessActPayload, clientVars
  <2>2. StartPublish(p) \/ UNCHANGED targets
    BY <1>2 DEF ProcessActPayload, Finish
  <2> QED
    BY <2>1, <2>2, CopyOfRegistry DEF RegistryInv, RegistryMatchesLinks
<1>3. ASSUME NEW p \in Task, AppendEvent(p) \/ CommitEntry(p) \/ DatabaseFails(p)
      PROVE  RegistryInv'
  BY <1>3 DEF AppendEvent, CommitEntry, DatabaseFails, clientVars, RegistryInv,
              RegistryMatchesLinks
<1>4. ASSUME NEW p \in Task, RefreshEntry(p) PROVE RegistryInv'
  <2>1. UNCHANGED <<stale, registered, link, guarded>>
    BY <1>4 DEF RefreshEntry, clientVars
  <2>2. StartPublish(p) \/ StartAppend(p) \/ UNCHANGED targets
    BY <1>4 DEF RefreshEntry
  <2> QED
    BY <2>1, <2>2, CopyOfRegistry DEF RegistryInv, RegistryMatchesLinks
<1>5. ASSUME NEW p \in Task, NEW c \in Client, Send(p, c) PROVE RegistryInv'
  <2>1. UNCHANGED <<registered, link, guarded>> /\ targets' = [targets EXCEPT ![p] = @ \ {c}]
    BY <1>5 DEF Send
  <2>2. \A q \in Task : \A d \in targets'[q] : link'[d] # "out"
    BY <2>1 DEF TypeOK, RegistryInv
  <2>3. \A q \in Task : \A d \in stale'[q] : link'[d] \in Gone
    <3>1. CASE link[c] # "open" /\ stale' = [stale EXCEPT ![p] = @ \cup {c}]
      <4>1. link[c] # "out"
        BY <1>5 DEF Send, RegistryInv
      <4>2. link[c] \in Gone
        BY <3>1, <4>1 DEF TypeOK, Link, Gone
      <4> QED
        BY <2>1, <3>1, <4>2 DEF TypeOK, RegistryInv
    <3>2. CASE UNCHANGED stale
      BY <2>1, <3>2 DEF RegistryInv
    <3> QED
      BY <1>5, <3>1, <3>2 DEF Send
  <2> QED
    BY <2>1, <2>2, <2>3 DEF RegistryInv, RegistryMatchesLinks
<1>6. ASSUME NEW p \in Task, EndBroadcast(p) PROVE RegistryInv'
  <2>1. /\ registered' = registered \ stale[p]
        /\ stale' = [stale EXCEPT ![p] = {}]
        /\ UNCHANGED <<link, guarded>>
        /\ StartAppend(p) \/ UNCHANGED targets
    BY <1>6 DEF EndBroadcast, Finish
  <2>2. RegistryMatchesLinks'
    <3>1. \A c \in stale[p] : link[c] # "open"
      BY DEF RegistryInv, Gone
    <3> QED
      BY <2>1, <3>1 DEF RegistryInv, RegistryMatchesLinks
  <2>3. \A q \in Task : \A c \in stale'[q] : link'[c] \in Gone
    BY <2>1 DEF TypeOK, RegistryInv
  <2> QED
    BY <2>1, <2>2, <2>3, CopyOfRegistry DEF RegistryInv
<1>7. ASSUME NEW c \in Client, Join(c) \/ Subscribe(c) PROVE RegistryInv'
  <2>1. /\ link[c] = "out" /\ link' = [link EXCEPT ![c] = "open"]
        /\ registered' = registered \cup {c}
        /\ UNCHANGED <<targets, stale>>
        /\ guarded \subseteq guarded'
        /\ c \in JournalClients => c \in guarded'
    BY <1>7, ClientsAssumption DEF Join, Subscribe, taskVars
  <2>2. \A d \in Client : link'[d] = IF d = c THEN "open" ELSE link[d]
    BY <2>1 DEF TypeOK
  <2>3. \A q \in Task : targets[q] \subseteq Client /\ stale[q] \subseteq Client
    BY DEF TypeOK
  <2>4. RegistryMatchesLinks'
    BY <2>1, <2>2 DEF RegistryInv, RegistryMatchesLinks
  <2>5. \A d \in JournalClients : link'[d] \in {"open", "cut"} => d \in guarded'
    BY <2>1, <2>2 DEF RegistryInv, Client
  <2> QED
    BY <2>1, <2>2, <2>3, <2>4, <2>5 DEF RegistryInv, Gone
<1>8. ASSUME NEW c \in Client, Cut(c) \/ Crash(c) \/ Leave(c) PROVE RegistryInv'
  <2>1. \/ /\ link[c] = "open" /\ link' = [link EXCEPT ![c] = "cut"]
           /\ UNCHANGED <<registered, guarded, targets, stale>>
        \/ /\ link[c] \in {"open", "cut"} /\ link' = [link EXCEPT ![c] = "crashed"]
           /\ c \notin guarded
           /\ UNCHANGED <<registered, guarded, targets, stale>>
        \/ /\ link[c] = "cut" /\ link' = [link EXCEPT ![c] = "closed"]
           /\ registered' = registered \ {c} /\ guarded' = guarded \ {c}
           /\ UNCHANGED <<targets, stale>>
    BY <1>8 DEF Cut, Crash, Unguarded, Leave, taskVars
  <2>2. \A d \in Client : /\ d # c => link'[d] = link[d]
                          /\ d = c => link[d] \in {"open", "cut"} /\ link'[d] \in Gone
    BY <2>1 DEF TypeOK, Gone
  <2>3. \A q \in Task : targets[q] \subseteq Client /\ stale[q] \subseteq Client
    BY DEF TypeOK
  <2>4. \A d \in JournalClients : link'[d] \in {"open", "cut"} => d \in guarded'
    BY <2>1, <2>2 DEF RegistryInv, Client, TypeOK
  <2>5. RegistryMatchesLinks'
    <3>1. c \in JournalClients => c \in guarded
      BY <2>1 DEF RegistryInv
    <3> QED
      BY <2>1, <2>2, <3>1 DEF TypeOK, RegistryInv, RegistryMatchesLinks, Client
  <2> QED
    BY <2>2, <2>3, <2>4, <2>5, <2>1 DEF RegistryInv, Gone
<1>a. ASSUME NEW c \in Client, Enter(c) PROVE RegistryInv'
  BY <1>a DEF Enter, taskVars, RegistryInv, RegistryMatchesLinks
<1>9. ASSUME NEW c \in Client, FetchJournal(c) PROVE RegistryInv'
  BY <1>9 DEF FetchJournal, taskVars, RegistryInv, RegistryMatchesLinks
<1>10. CASE UNCHANGED vars
  BY <1>10 DEF vars, taskVars, clientVars, RegistryInv, RegistryMatchesLinks
<1> QED
  BY <1>1, <1>2, <1>3, <1>4, <1>5, <1>6, <1>7, <1>8, <1>9, <1>a, <1>10
     DEF Next, TaskStep, Connection

\* No broadcast, however late or broken, drops a live client from a registry,
\* and only a handler that crashed before its try block leaves a dead one there.
THEOREM RegistryCorrect == Spec => []RegistryMatchesLinks
<1>1. RegistryInv => RegistryMatchesLinks
  BY DEF RegistryInv
<1> QED
  BY <1>1, RegistryInit, RegistryStep, TypeCorrect, PTL DEF Spec

-----------------------------------------------------------------------------
(* What the displays show *)

\* Update p has still to send its snapshot to c.
Reaching(p, c) ==
    /\ p \in Update
    /\ pc[p] \in {"commit", "refresh"} \/ (pc[p] = "publish" /\ c \in targets[p])

\* Which tasks can be where.
PlacesInv ==
    /\ \A p \in Task : pc[p] = "publish" => p \in Update
    /\ \A p \in Act : pc[p] \notin {"commit", "refresh"}

\* While nothing has overlapped or failed there is at most one update under
\* way, it carries the present state, and whoever does not show that state yet
\* is going to get it.
HealInv ==
    clean =>
      /\ \A p, q \in Task : Announcing(p) /\ Announcing(q) => p = q
      /\ \A p \in Task : Announcing(p) => snap[p] = CurrentSnapshot
      /\ \A c \in StateClients :
            link[c] = "open" => view[c] = CurrentSnapshot \/ \E p \in Task : Reaching(p, c)

LEMMA PlacesInit == Init => PlacesInv
  BY TaskType DEF Init, PlacesInv

LEMMA PlacesStep == TypeOK /\ PlacesInv /\ [Next]_vars => PlacesInv'
<1> SUFFICES ASSUME TypeOK, PlacesInv, [Next]_vars PROVE PlacesInv'
  OBVIOUS
<1> USE TaskType, TasksAssumption DEF PlacesInv, Update
<1>0. pc \in [Task -> Place]
  BY DEF TypeOK
<1>1. ASSUME NEW p \in Board, NEW reading \in Readings, ProcessBoardPayload(p, reading)
      PROVE  PlacesInv'
  <2>1. pc' = [pc EXCEPT ![p] = "done"] \/ pc' = [pc EXCEPT ![p] = "commit"]
    BY <1>1 DEF ProcessBoardPayload
  <2> QED
    BY <1>0, <2>1
<1>2. ASSUME NEW p \in Act, NEW value \in {"on", "off"}, ProcessActPayload(p, value)
      PROVE  PlacesInv'
  <2>1. pc' = [pc EXCEPT ![p] = "done"] \/ pc' = [pc EXCEPT ![p] = "publish"]
    BY <1>2 DEF ProcessActPayload, Finish, StartPublish
  <2> QED
    BY <1>0, <2>1
<1>3. ASSUME NEW p \in Event, AppendEvent(p) PROVE PlacesInv'
  BY <1>0, <1>3 DEF AppendEvent
<1>4. ASSUME NEW p \in Task, CommitEntry(p) PROVE PlacesInv'
  BY <1>0, <1>4 DEF CommitEntry
<1>5. ASSUME NEW p \in Task, RefreshEntry(p) PROVE PlacesInv'
  <2>1. /\ pc[p] = "refresh"
        /\ \/ pc' = [pc EXCEPT ![p] = "commit"]
           \/ p \in Board /\ pc' = [pc EXCEPT ![p] = "publish"]
           \/ pc' = [pc EXCEPT ![p] = "append"]
    BY <1>5 DEF RefreshEntry, StartPublish, StartAppend
  <2> QED
    BY <1>0, <2>1
<1>6. ASSUME NEW p \in Task, DatabaseFails(p) PROVE PlacesInv'
  BY <1>0, <1>6 DEF DatabaseFails
<1>7. ASSUME NEW p \in Task, NEW c \in Client, Send(p, c) PROVE PlacesInv'
  BY <1>7 DEF Send
<1>8. ASSUME NEW p \in Task, EndBroadcast(p) PROVE PlacesInv'
  <2>1. pc' = [pc EXCEPT ![p] = "done"] \/ pc' = [pc EXCEPT ![p] = "append"]
    BY <1>8 DEF EndBroadcast, Finish, StartAppend
  <2> QED
    BY <1>0, <2>1
<1>9. ASSUME NEW c \in Client,
             Connection(c) \/ FetchJournal(c)
      PROVE  PlacesInv'
  BY <1>9 DEF Connection, Join, Enter, Crash, Subscribe, FetchJournal, Cut, Leave, taskVars
<1>10. CASE UNCHANGED vars
  BY <1>10 DEF vars, taskVars
<1> QED
  BY <1>1, <1>2, <1>3, <1>4, <1>5, <1>6, <1>7, <1>8, <1>9, <1>10 DEF Next, TaskStep

LEMMA HealInit == Init => HealInv
<1> SUFFICES ASSUME Init PROVE HealInv
  OBVIOUS
<1>1. \A p \in Task : ~Announcing(p)
  BY TaskType DEF Init, Announcing
<1>2. \A c \in StateClients : link[c] # "open"
  BY DEF Init, Client
<1> QED
  BY <1>1, <1>2 DEF HealInv

\* A payload that changes nothing leaves the snapshot as it was.
LEMMA UnchangedPayload ==
  ASSUME TypeOK, NEW reading \in Readings, ApplyBoardUpdate(reading), Changed(reading) = {}
  PROVE  CurrentSnapshot' = CurrentSnapshot
<1>1. \A c \in DOMAIN reading : channels[c] = Decoded(reading[c])
  BY DEF Changed
<1>2. channels' = channels
  BY <1>1, ReadingType DEF ApplyBoardUpdate, TypeOK, StoreTypeOK
<1> QED
  BY <1>2 DEF ApplyBoardUpdate, CurrentSnapshot

\* The step of an update that changes the store: afterwards it is the only one
\* under way, or clean is FALSE.
LEMMA LoneStart ==
  ASSUME TypeOK, RegistryInv, NEW p \in Update, ~Announcing(p), NoteUpdate,
         snap' = [snap EXCEPT ![p] = CurrentSnapshot'],
         UNCHANGED <<registered, link, view>>,
         \/ p \in Board /\ pc' = [pc EXCEPT ![p] = "commit"] /\ UNCHANGED targets
         \/ StartPublish(p)
  PROVE  HealInv'
<1> SUFFICES ASSUME clean' PROVE HealInv'
  BY DEF HealInv
<1> USE DEF Update, Task
<1>1. \A q \in Update : ~Announcing(q)
  BY DEF NoteUpdate
<1>2. pc \in [Task -> Place] /\ snap \in [Task -> Snapshot \cup {NoSnapshot}]
      /\ targets \in [Task -> SUBSET Client]
  BY DEF TypeOK
<1>3. \A q \in Task : q # p => pc'[q] = pc[q]
  BY <1>2 DEF StartPublish
<1>4. \A q \in Task : Announcing(q)' => q = p
  BY <1>1, <1>3 DEF Announcing
<1>5. snap'[p] = CurrentSnapshot'
  BY <1>2
<1>6. ASSUME NEW c \in StateClients, link'[c] = "open" PROVE Reaching(p, c)'
  <2>1. c \in registered
    BY <1>6 DEF RegistryInv, RegistryMatchesLinks, Client
  <2> QED
    BY <1>2, <2>1 DEF Reaching, StartPublish
<1> QED
  BY <1>4, <1>5, <1>6 DEF HealInv

\* What a step does to the displays is judged one client at a time: the updates
\* under way stay the same or become fewer, they keep their snapshots, and a
\* client that was promised the present state has it or is still promised it.
LEMMA HealKept ==
  ASSUME HealInv, clean' => clean, UNCHANGED <<storeVars, snap>>,
         \A q \in Task : Announcing(q)' => Announcing(q),
         clean' => \A d \in StateClients : link'[d] = "open" =>
                      view'[d] = CurrentSnapshot' \/ \E q \in Task : Reaching(q, d)'
  PROVE  HealInv'
<1> SUFFICES ASSUME clean' PROVE HealInv'
  BY DEF HealInv
<1>1. CurrentSnapshot' = CurrentSnapshot
  BY DEF storeVars, CurrentSnapshot
<1>2. \A q \in Task : Announcing(q)' => snap'[q] = CurrentSnapshot'
  BY <1>1 DEF HealInv
<1>3. \A q, r \in Task : Announcing(q)' /\ Announcing(r)' => q = r
  BY DEF HealInv
<1> QED
  BY <1>2, <1>3, Zenon DEF HealInv

LEMMA HealStep ==
  TypeOK /\ RegistryInv /\ PlacesInv /\ HealInv /\ [Next]_vars => HealInv'
<1> SUFFICES ASSUME TypeOK, RegistryInv, PlacesInv, HealInv, [Next]_vars PROVE HealInv'
  OBVIOUS
<1> USE TaskType
<1>0. /\ pc \in [Task -> Place]
      /\ targets \in [Task -> SUBSET Client]
      /\ view \in [StateClients -> Snapshot \cup {NoSnapshot}]
      /\ link \in [Client -> Link]
      /\ StateClients \subseteq Client
  BY DEF TypeOK, Client
<1>1. ASSUME NEW p \in Board, NEW reading \in Readings, ProcessBoardPayload(p, reading)
      PROVE  HealInv'
  <2>1. p \in Update /\ ~Announcing(p)
    BY <1>1 DEF ProcessBoardPayload, Update, Announcing
  <2>2. UNCHANGED <<targets, registered, link, view>> /\ ApplyBoardUpdate(reading)
    BY <1>1 DEF ProcessBoardPayload, clientVars
  <2>3. CASE Changed(reading) = {}
    <3>1. pc' = [pc EXCEPT ![p] = "done"] /\ UNCHANGED <<snap, clean>>
      BY <1>1, <2>3 DEF ProcessBoardPayload
    <3>2. CurrentSnapshot' = CurrentSnapshot
      BY <2>2, <2>3, UnchangedPayload
    <3>3. \A q \in Task : Announcing(q)' <=> Announcing(q)
      BY <1>0, <1>1, <3>1 DEF Announcing, ProcessBoardPayload
    <3>4. \A q \in Task, d \in StateClients : Reaching(q, d) => Reaching(q, d)'
      BY <1>0, <1>1, <2>2, <3>1 DEF Reaching, ProcessBoardPayload
    <3> QED
      BY <2>2, <3>1, <3>2, <3>3, <3>4 DEF HealInv
  <2>4. CASE Changed(reading) # {}
    BY <1>1, <2>1, <2>2, <2>4, LoneStart DEF ProcessBoardPayload
  <2> QED
    BY <2>3, <2>4
<1>2. ASSUME NEW p \in Act, NEW value \in {"on", "off"}, ProcessActPayload(p, value)
      PROVE  HealInv'
  <2>1. p \in Update /\ ~Announcing(p)
    BY <1>2 DEF ProcessActPayload, Update, Announcing
  <2>2. UNCHANGED <<registered, link, view>> /\ ApplyActUpdate(value)
    BY <1>2 DEF ProcessActPayload, clientVars
  <2>3. CASE act = value
    <3>1. pc' = [pc EXCEPT ![p] = "done"] /\ UNCHANGED <<targets, snap, clean>>
      BY <1>2, <2>3 DEF ProcessActPayload, Finish
    <3>2. UNCHANGED storeVars
      BY <2>2, <2>3 DEF ApplyActUpdate, storeVars
    <3>3. \A q \in Task : Announcing(q)' => Announcing(q)
      BY <1>0, <3>1 DEF Announcing
    <3>4. \A q \in Task, d \in StateClients : Reaching(q, d) => Reaching(q, d)'
      BY <1>0, <1>2, <3>1 DEF Reaching, ProcessActPayload
    <3>5. CurrentSnapshot' = CurrentSnapshot
      BY <3>2 DEF storeVars, CurrentSnapshot
    <3> QED
      BY <2>2, <3>1, <3>2, <3>3, <3>4, <3>5, HealKept DEF HealInv
  <2>4. CASE act # value
    BY <1>2, <2>1, <2>2, <2>4, LoneStart DEF ProcessActPayload
  <2> QED
    BY <2>3, <2>4
<1>3. ASSUME NEW p \in Event, AppendEvent(p) PROVE HealInv'
  <2>1. p \notin Update
    BY TasksAssumption DEF Update
  <2>2. pc' = [pc EXCEPT ![p] = "commit"] /\ UNCHANGED <<storeVars, snap, targets, link, view, clean>>
    BY <1>3 DEF AppendEvent, clientVars
  <2>3. \A q \in Task : Announcing(q)' <=> Announcing(q)
    BY <1>0, <2>1, <2>2 DEF Announcing
  <2>4. \A q \in Task, d \in StateClients : Reaching(q, d) => Reaching(q, d)'
    BY <1>0, <2>1, <2>2 DEF Reaching
  <2>5. CurrentSnapshot' = CurrentSnapshot
    BY <2>2 DEF storeVars, CurrentSnapshot
  <2> QED
    BY <2>2, <2>3, <2>4, <2>5, HealKept DEF HealInv
<1>4. ASSUME NEW p \in Task, CommitEntry(p) PROVE HealInv'
  <2>2. /\ pc[p] = "commit" /\ pc' = [pc EXCEPT ![p] = "refresh"]
        /\ UNCHANGED <<storeVars, snap, targets, link, view, clean>>
    BY <1>4 DEF CommitEntry, clientVars
  <2>3. \A q \in Task : Announcing(q)' <=> Announcing(q)
    BY <1>0, <2>2 DEF Announcing
  <2>4. \A q \in Task, d \in StateClients : Reaching(q, d) => Reaching(q, d)'
    BY <1>0, <2>2 DEF Reaching
  <2>5. CurrentSnapshot' = CurrentSnapshot
    BY <2>2 DEF storeVars, CurrentSnapshot
  <2> QED
    BY <2>2, <2>3, <2>4, <2>5, HealKept DEF HealInv
<1>5. ASSUME NEW p \in Task, RefreshEntry(p) PROVE HealInv'
  <2>1. /\ pc[p] = "refresh"
        /\ UNCHANGED <<storeVars, snap, registered, link, view, clean>>
    BY <1>5 DEF RefreshEntry, clientVars
  <2>2. \/ pc' = [pc EXCEPT ![p] = "commit"] /\ UNCHANGED targets
        \/ p \in Board /\ StartPublish(p)
        \/ p \notin Board /\ StartAppend(p)
    BY <1>5 DEF RefreshEntry
  <2>3. \A q \in Task : Announcing(q)' => Announcing(q)
    BY <1>0, <2>1, <2>2 DEF Announcing, StartPublish, StartAppend
  <2>4. ASSUME NEW q \in Task, NEW d \in StateClients, link[d] = "open", Reaching(q, d)
        PROVE  Reaching(q, d)'
    <3>1. CASE q # p
      <4>1. pc'[q] = pc[q] /\ targets'[q] = targets[q]
        BY <1>0, <2>2, <3>1 DEF StartPublish, StartAppend
      <4> QED
        BY <2>4, <4>1 DEF Reaching
    <3>2. CASE q = p
      <4>1. p \in Board
        BY <2>1, <2>4, <3>2 DEF PlacesInv, Reaching, Update
      <4>2. d \in registered
        BY <2>4 DEF RegistryInv, RegistryMatchesLinks, Client
      <4> QED
        BY <1>0, <2>2, <3>2, <4>1, <4>2 DEF Reaching, StartPublish, Update
    <3> QED
      BY <3>1, <3>2
  <2>5. CurrentSnapshot' = CurrentSnapshot
    BY <2>1 DEF storeVars, CurrentSnapshot
  <2> QED
    BY <2>1, <2>3, <2>4, <2>5, HealKept DEF HealInv
<1>6. ASSUME NEW p \in Task, DatabaseFails(p) PROVE HealInv'
  <2>1. CASE p \in Update
    BY <1>6, <2>1 DEF DatabaseFails, HealInv
  <2>2. CASE p \notin Update
    <3>1. /\ pc' = [pc EXCEPT ![p] = "failed"]
          /\ clean' => clean
          /\ UNCHANGED <<storeVars, snap, targets, link, view>>
      BY <1>6 DEF DatabaseFails, clientVars
    <3>2. \A q \in Task : Announcing(q)' => Announcing(q)
      BY <1>0, <3>1 DEF Announcing
    <3>3. \A q \in Task, d \in StateClients : Reaching(q, d) => Reaching(q, d)'
      BY <1>0, <2>2, <3>1 DEF Reaching
    <3>4. CurrentSnapshot' = CurrentSnapshot
      BY <3>1 DEF storeVars, CurrentSnapshot
    <3> QED
      BY <3>1, <3>2, <3>3, <3>4, HealKept DEF HealInv
  <2> QED
    BY <2>1, <2>2
<1>7. ASSUME NEW p \in Task, NEW c \in Client, Send(p, c) PROVE HealInv'
  <2>1. /\ targets' = [targets EXCEPT ![p] = @ \ {c}]
        /\ UNCHANGED <<storeVars, pc, snap, link, clean>>
    BY <1>7 DEF Send
  <2>2. \A q \in Task : Announcing(q)' <=> Announcing(q)
    BY <2>1 DEF Announcing
  <2>3. CurrentSnapshot' = CurrentSnapshot
    BY <2>1 DEF storeVars, CurrentSnapshot
  <2>4. ASSUME NEW q \in Task, NEW d \in StateClients, Reaching(q, d), d # c \/ q # p
        PROVE  Reaching(q, d)'
    BY <1>0, <2>1, <2>4 DEF Reaching
  <2>5. ASSUME clean, NEW d \in StateClients, link[d] = "open"
        PROVE  view'[d] = CurrentSnapshot' \/ \E q \in Task : Reaching(q, d)'
    <3>1. CASE link[c] = "open" /\ pc[p] = "publish"
      <4>1. view' = [view EXCEPT ![c] = snap[p]]
        BY <1>7, <3>1 DEF Send, Deliver
      <4>2. snap[p] = CurrentSnapshot
        BY <2>5, <3>1 DEF HealInv, PlacesInv, Announcing
      <4> QED
        BY <1>0, <2>3, <2>4, <2>5, <4>1, <4>2 DEF HealInv
    <3>2. CASE link[c] = "open" /\ pc[p] # "publish"
      <4>1. UNCHANGED view
        BY <1>7, <3>2 DEF Send, Deliver
      <4>2. \A q \in Task : Reaching(q, d) => Reaching(q, d)'
        BY <1>0, <1>7, <2>1, <3>2 DEF Reaching, Send
      <4> QED
        BY <2>3, <2>5, <4>1, <4>2 DEF HealInv
    <3>3. CASE link[c] # "open"
      <4>1. UNCHANGED view /\ d # c
        BY <1>7, <2>5, <3>3 DEF Send
      <4> QED
        BY <2>3, <2>4, <2>5, <4>1 DEF HealInv
    <3> QED
      BY <3>1, <3>2, <3>3
  <2> QED
    BY <2>1, <2>2, <2>5, HealKept
<1>8. ASSUME NEW p \in Task, EndBroadcast(p) PROVE HealInv'
  <2>1. /\ targets[p] = {} /\ pc[p] \in {"publish", "append"}
        /\ UNCHANGED <<storeVars, snap, link, view, clean>>
        /\ StartAppend(p) \/ Finish(p)
    BY <1>8 DEF EndBroadcast
  <2>2. \A q \in Task : Announcing(q)' => Announcing(q)
    BY <1>0, <2>1 DEF Announcing, StartAppend, Finish
  <2>3. ASSUME NEW q \in Task, NEW d \in StateClients, Reaching(q, d)
        PROVE  Reaching(q, d)'
    <3>1. q # p
      BY <2>1, <2>3 DEF Reaching
    <3>2. pc'[q] = pc[q] /\ targets'[q] = targets[q]
      BY <1>0, <2>1, <3>1 DEF StartAppend, Finish
    <3> QED
      BY <2>3, <3>2 DEF Reaching
  <2>4. CurrentSnapshot' = CurrentSnapshot
    BY <2>1 DEF storeVars, CurrentSnapshot
  <2> QED
    BY <2>1, <2>2, <2>3, <2>4, HealKept DEF HealInv
<1>9. ASSUME NEW c \in Client,
             Connection(c) \/ FetchJournal(c)
      PROVE  HealInv'
  <2>1. UNCHANGED <<storeVars, pc, snap, targets, clean>>
    BY <1>9 DEF Connection, Join, Enter, Crash, Subscribe, FetchJournal, Cut, Leave, taskVars
  <2>2. \A q \in Task : Announcing(q)' <=> Announcing(q)
    BY <2>1 DEF Announcing
  <2>3. \A q \in Task, d \in StateClients : Reaching(q, d)' <=> Reaching(q, d)
    BY <2>1 DEF Reaching
  <2>4. CurrentSnapshot' = CurrentSnapshot
    BY <2>1 DEF storeVars, CurrentSnapshot
  <2>5. ASSUME NEW d \in StateClients, link'[d] = "open"
        PROVE  \/ view'[d] = CurrentSnapshot
               \/ view'[d] = view[d] /\ link[d] = "open"
    <3>1. CASE Join(c)
      BY <1>0, <2>5, <3>1 DEF Join
    <3>2. CASE Subscribe(c)
      <4>1. d # c
        BY <3>2, ClientsAssumption DEF Subscribe
      <4> QED
        BY <1>0, <2>5, <3>2, <4>1 DEF Subscribe
    <3>3. CASE Enter(c) \/ Crash(c) \/ FetchJournal(c) \/ Cut(c) \/ Leave(c)
      BY <1>0, <2>5, <3>3 DEF Enter, Crash, FetchJournal, Cut, Leave
    <3> QED
      BY <1>9, <3>1, <3>2, <3>3 DEF Connection
  <2> QED
    BY <2>1, <2>2, <2>3, <2>4, <2>5, HealKept DEF HealInv
<1>10. CASE UNCHANGED vars
  <2>1. UNCHANGED <<storeVars, pc, snap, targets, clean, link, view>>
    BY <1>10 DEF vars, taskVars, clientVars
  <2>2. \A q \in Task : Announcing(q)' <=> Announcing(q)
    BY <2>1 DEF Announcing
  <2>3. \A q \in Task, d \in StateClients : Reaching(q, d)' <=> Reaching(q, d)
    BY <2>1 DEF Reaching
  <2>4. CurrentSnapshot' = CurrentSnapshot
    BY <2>1 DEF storeVars, CurrentSnapshot
  <2> QED
    BY <2>1, <2>2, <2>3, <2>4, HealKept DEF HealInv
<1> QED
  BY <1>1, <1>2, <1>3, <1>4, <1>5, <1>6, <1>7, <1>8, <1>9, <1>10 DEF Next, TaskStep

\* One update that starts alone and ends leaves every open state client with
\* the present state, whatever went wrong before it.
THEOREM ViewsHeal == Spec => []LoneUpdateHealsViews
<1>1. HealInv => LoneUpdateHealsViews
  BY TaskType DEF HealInv, LoneUpdateHealsViews, Settled, Reaching, Announcing, Update
<1> QED
  BY <1>1, TypeCorrect, RegistryInit, RegistryStep, InitType, NextType,
     PlacesInit, PlacesStep, HealInit, HealStep, PTL DEF Spec

-----------------------------------------------------------------------------
(***************************************************************************)
(* The journal: where its rows are, what the live feed of a client is,     *)
(* that listening first and fetching afterwards leaves no row out, and     *)
(* that its rows account for the state.                                    *)
(***************************************************************************)

\* The rows in the hands of task p.
Held(p) == todo[p] \cup untold[p]

\* Where rows are: a task holds only its own, one per item; those it has still
\* to write are not in the journal, those it has still to tell are; and a task
\* that has not begun wrote none.
RowsInv ==
    /\ \A p \in Task : \A e \in Held(p) : e.by = p
    /\ \A p \in Task : \A e, f \in Held(p) : e.item = f.item => e = f
    /\ \A p \in Task : \A e \in todo[p] : e \notin Rows(journal)
    /\ \A p \in Task : \A e \in untold[p] : e \in Rows(journal)
    /\ \A e \in Rows(journal) : pc[e.by] # "idle"

LEMMA RowsInit == Init => RowsInv
<1> SUFFICES ASSUME Init PROVE RowsInv
  OBVIOUS
<1>1. Rows(journal) = {}
  BY DEF Init, Rows
<1> QED
  BY <1>1 DEF Init, RowsInv, Held

\* A step of task p that writes nothing and leaves it with some of the rows it
\* had, or gives it its first ones.
LEMMA RowsKept ==
  ASSUME TypeOK, RowsInv, NEW p \in Task, UNCHANGED journal,
         \A q \in Task : q # p => /\ todo'[q] = todo[q] /\ untold'[q] = untold[q]
                                  /\ pc'[q] = pc[q],
         pc'[p] # "idle",
         untold'[p] \subseteq untold[p],
         \/ todo'[p] \subseteq todo[p]
         \/ /\ pc[p] = "idle"
            /\ \A e \in todo'[p] : e.by = p
            /\ \A e, f \in todo'[p] : e.item = f.item => e = f
  PROVE  RowsInv'
<1>1. \A e \in Rows(journal) : e.by \in Task
  <2>1. Rows(journal) \subseteq Entry
    BY RowsType DEF TypeOK
  <2> QED
    BY <2>1 DEF Entry
<1>2. \A e \in Rows(journal)' : e \in Rows(journal) /\ pc'[e.by] # "idle"
  BY <1>1 DEF RowsInv, Rows
<1>3. \A e \in Rows(journal) : e \in Rows(journal)'
  BY DEF Rows
<1>4. CASE todo'[p] \subseteq todo[p]
  <2>1. \A q \in Task : Held(q)' \subseteq Held(q) /\ todo'[q] \subseteq todo[q]
                        /\ untold'[q] \subseteq untold[q]
    BY <1>4 DEF Held
  <2>2. \A q \in Task : \A e \in Held(q)' : e \in Held(q)
    BY <2>1
  <2>3. \A q \in Task : \A e \in todo'[q] : e \notin Rows(journal)'
    BY <1>2, <2>1 DEF RowsInv
  <2>4. \A q \in Task : \A e \in untold'[q] : e \in Rows(journal)'
    BY <1>3, <2>1 DEF RowsInv
  <2> QED
    BY <1>2, <2>2, <2>3, <2>4 DEF RowsInv
<1>5. CASE /\ pc[p] = "idle"
           /\ \A e \in todo'[p] : e.by = p
           /\ \A e, f \in todo'[p] : e.item = f.item => e = f
  <2>1. untold[p] = {}
    BY <1>5 DEF RowsInv, Held
  <2>2. Held(p)' = todo'[p] /\ untold'[p] = {}
    BY <2>1 DEF Held
  <2>3. \A e \in todo'[p] : e \notin Rows(journal)
    BY <1>5 DEF RowsInv
  <2>4. \A q \in Task : q # p => Held(q)' = Held(q)
    BY DEF Held
  <2> QED
    BY <1>2, <1>3, <1>5, <2>2, <2>3, <2>4 DEF RowsInv
<1> QED
  BY <1>4, <1>5

LEMMA RowsSame ==
  ASSUME RowsInv, UNCHANGED <<pc, todo, untold, journal>> PROVE RowsInv'
  BY DEF RowsInv, Held, Rows

\* The rows of one payload are about different channels.
LEMMA ChangeRowsDiffer ==
  ASSUME NEW p, NEW reading
  PROVE  /\ \A e \in ChangeRows(p, reading) : e.by = p
         /\ \A e, f \in ChangeRows(p, reading) : e.item = f.item => e = f
  BY DEF ChangeRows

LEMMA RowsStep == TypeOK /\ RowsInv /\ [Next]_vars => RowsInv'
<1> SUFFICES ASSUME TypeOK, RowsInv, [Next]_vars PROVE RowsInv'
  OBVIOUS
<1> USE TaskType
<1>0. /\ pc \in [Task -> Place]
      /\ todo \in [Task -> SUBSET Entry]
      /\ untold \in [Task -> SUBSET Entry]
  BY DEF TypeOK
<1>1. ASSUME NEW p \in Board, NEW reading \in Readings, ProcessBoardPayload(p, reading)
      PROVE  RowsInv'
  <2>1. /\ pc[p] = "idle" /\ UNCHANGED <<untold, journal>>
        /\ \/ pc' = [pc EXCEPT ![p] = "done"] /\ UNCHANGED todo
           \/ pc' = [pc EXCEPT ![p] = "commit"]
              /\ todo' = [todo EXCEPT ![p] = ChangeRows(p, reading)]
    BY <1>1 DEF ProcessBoardPayload
  <2>2. CASE pc' = [pc EXCEPT ![p] = "done"] /\ UNCHANGED todo
    BY <1>0, <2>1, <2>2, RowsKept
  <2>3. CASE /\ pc' = [pc EXCEPT ![p] = "commit"]
             /\ todo' = [todo EXCEPT ![p] = ChangeRows(p, reading)]
    <3>1. todo'[p] = ChangeRows(p, reading)
      BY <1>0, <2>3
    <3>2. /\ \A e \in todo'[p] : e.by = p
          /\ \A e, f \in todo'[p] : e.item = f.item => e = f
      BY <3>1, ChangeRowsDiffer
    <3> QED
      BY <1>0, <2>1, <2>3, <3>2, RowsKept
  <2> QED
    BY <2>1, <2>2, <2>3
<1>2. ASSUME NEW p \in Act, NEW value \in {"on", "off"}, ProcessActPayload(p, value)
      PROVE  RowsInv'
  <2>1. /\ UNCHANGED <<todo, untold, journal>>
        /\ pc' = [pc EXCEPT ![p] = "done"] \/ pc' = [pc EXCEPT ![p] = "publish"]
    BY <1>2 DEF ProcessActPayload, Finish, StartPublish
  <2> QED
    BY <1>0, <2>1, RowsKept
<1>3. ASSUME NEW p \in Event, AppendEvent(p) PROVE RowsInv'
  <2>1. /\ pc[p] = "idle" /\ UNCHANGED <<untold, journal>>
        /\ pc' = [pc EXCEPT ![p] = "commit"]
        /\ todo' = [todo EXCEPT ![p] =
              {[by |-> p, item |-> 0, previous |-> "none", new |-> "info"]}]
    BY <1>3 DEF AppendEvent
  <2> QED
    BY <1>0, <2>1, RowsKept
<1>4. ASSUME NEW p \in Task, CommitEntry(p) PROVE RowsInv'
  <2>1. PICK e \in todo[p] : /\ journal' = Append(journal, e)
                             /\ todo' = [todo EXCEPT ![p] = @ \ {e}]
                             /\ untold' = [untold EXCEPT ![p] = @ \cup {e}]
    BY <1>4 DEF CommitEntry
  <2>2. e \in Entry /\ e.by = p /\ e \in Held(p)
    BY <1>0 DEF RowsInv, Held
  <2>3. Rows(journal)' = Rows(journal) \cup {e}
    <3>1. Rows(Append(journal, e)) = Rows(journal) \cup {e}
      BY <2>2, RowsAppend DEF TypeOK
    <3> QED
      BY <2>1, <3>1 DEF Rows
  <2>4. pc' = [pc EXCEPT ![p] = "refresh"] /\ pc[p] = "commit"
    BY <1>4 DEF CommitEntry
  <2>5. \A q \in Task : Held(q)' = Held(q)
    BY <1>0, <2>1 DEF Held
  <2>6. \A q \in Task : \A f \in todo'[q] : f # e /\ f \in todo[q]
    BY <1>0, <2>1, <2>2 DEF RowsInv, Held
  <2>7. \A q \in Task : \A f \in untold'[q] : f = e \/ f \in untold[q]
    BY <1>0, <2>1
  <2>8. \A f \in Rows(journal)' : pc'[f.by] # "idle"
    BY <1>0, <2>2, <2>3, <2>4 DEF RowsInv
  <2> QED
    BY <2>3, <2>5, <2>6, <2>7, <2>8 DEF RowsInv
<1>5. ASSUME NEW p \in Task, RefreshEntry(p) PROVE RowsInv'
  <2>1. /\ UNCHANGED <<todo, untold, journal>>
        /\ \/ pc' = [pc EXCEPT ![p] = "commit"]
           \/ pc' = [pc EXCEPT ![p] = "publish"]
           \/ pc' = [pc EXCEPT ![p] = "append"]
    BY <1>5 DEF RefreshEntry, StartPublish, StartAppend
  <2> QED
    BY <1>0, <2>1, RowsKept
<1>6. ASSUME NEW p \in Task, DatabaseFails(p) PROVE RowsInv'
  BY <1>0, <1>6, RowsKept DEF DatabaseFails
<1>7. ASSUME NEW p \in Task, NEW c \in Client, Send(p, c) PROVE RowsInv'
  BY <1>7, RowsSame DEF Send
<1>8. ASSUME NEW p \in Task, EndBroadcast(p) PROVE RowsInv'
  <2>1. /\ UNCHANGED <<todo, journal>>
        /\ untold' = [untold EXCEPT ![p] = StillUntold(p)]
        /\ pc' = [pc EXCEPT ![p] = "done"] \/ pc' = [pc EXCEPT ![p] = "append"]
    BY <1>8 DEF EndBroadcast, Finish, StartAppend
  <2>2. StillUntold(p) \subseteq untold[p]
    BY DEF StillUntold
  <2> QED
    BY <1>0, <2>1, <2>2, RowsKept
<1>9. ASSUME NEW c \in Client,
             Connection(c) \/ FetchJournal(c)
      PROVE  RowsInv'
  BY <1>9, RowsSame DEF Connection, Join, Enter, Crash, Subscribe, FetchJournal, Cut, Leave, taskVars
<1>10. CASE UNCHANGED vars
  BY <1>10, RowsSame DEF vars, taskVars
<1> QED
  BY <1>1, <1>2, <1>3, <1>4, <1>5, <1>6, <1>7, <1>8, <1>9, <1>10 DEF Next, TaskStep

-----------------------------------------------------------------------------
(* The live feed *)

\* Of the rows task p has still to tell, c has been sent at most the next one,
\* and then the broadcast in progress is done with c.
ToldUpTo(p, c) ==
    \A e \in Rows(feed[c]), f \in untold[p] :
        e.by = p => \/ e.item < f.item
                    \/ /\ pc[p] = "append"
                       /\ c \notin targets[p]
                       /\ IsNext(f, untold[p])

\* A feed is told in channel order: any two rows of one task.
FeedOrdered(c) ==
    \A i, j \in 1 .. Len(feed[c]) :
        i < j /\ feed[c][i].by = feed[c][j].by => feed[c][i].item < feed[c][j].item

\* What is in a feed was committed and told by a task that has begun to tell;
\* and whatever the task has still to tell comes behind it.
FeedInv ==
    /\ \A c \in Client : \A e \in Rows(feed[c]) :
          e \in Rows(journal) /\ pc[e.by] \in {"append", "done"}
    /\ \A c \in Client, p \in Task : ToldUpTo(p, c)
    /\ \A c \in Client : FeedOrdered(c)

LEMMA FeedInit == Init => FeedInv
<1> SUFFICES ASSUME Init PROVE FeedInv
  OBVIOUS
<1>1. \A c \in Client : feed[c] = <<>>
  BY DEF Init
<1>2. \A c \in Client : Len(feed[c]) = 0 /\ 1 .. Len(feed[c]) = {}
  BY <1>1
<1>3. \A c \in Client : Rows(feed[c]) = {}
  BY <1>2 DEF Rows
<1> QED
  BY <1>2, <1>3 DEF FeedInv, ToldUpTo, FeedOrdered

LEMMA ItemType == \A e \in Entry : e.item \in Nat
<1>1. \A e \in Entry : e.item \in Channels \cup {0}
  BY DEF Entry
<1>2. Channels \cup {0} \subseteq Nat
  BY ChannelsAssumption
<1> QED
  BY <1>1, <1>2

\* Adding a row behind all others of its task keeps a feed ordered.
LEMMA OrderedAppend ==
  ASSUME NEW log \in Seq(Entry), NEW e \in Entry,
         \A i, j \in 1 .. Len(log) :
             i < j /\ log[i].by = log[j].by => log[i].item < log[j].item,
         \A f \in Rows(log) : f.by = e.by => f.item < e.item,
         NEW i \in 1 .. Len(Append(log, e)), NEW j \in 1 .. Len(Append(log, e)),
         i < j, Append(log, e)[i].by = Append(log, e)[j].by
  PROVE  Append(log, e)[i].item < Append(log, e)[j].item
<1>1. /\ Len(Append(log, e)) = Len(log) + 1
      /\ Append(log, e)[Len(log) + 1] = e
      /\ \A k \in 1 .. Len(log) : Append(log, e)[k] = log[k]
      /\ Len(log) \in Nat
  BY AppendProperties, LenProperties
<1>2. i \in 1 .. Len(log)
  BY <1>1
<1>3. CASE j \in 1 .. Len(log)
  BY <1>1, <1>2, <1>3
<1>4. CASE j = Len(log) + 1
  <2>1. log[i] \in Rows(log)
    BY <1>2 DEF Rows
  <2> QED
    BY <1>1, <1>2, <1>4, <2>1
<1> QED
  BY <1>1, <1>3, <1>4

\* A step that sends no row, seen from one task: its rows to tell are as they
\* were or fewer, and it is where it was or was not telling yet.
LEMMA ToldKept ==
  ASSUME RowsInv, FeedInv, NEW c \in Client, NEW q \in Task, UNCHANGED feed,
         \/ UNCHANGED <<pc, untold, targets>>
         \/ pc'[q] = pc[q] /\ untold'[q] = untold[q] /\ targets'[q] \subseteq targets[q]
         \/ pc[q] \notin {"append", "done"}
         \/ untold'[q] = {}
  PROVE  ToldUpTo(q, c)'
<1>1. Rows(feed[c])' = Rows(feed[c])
  BY DEF Rows
<1>2. CASE UNCHANGED <<pc, untold, targets>>
  BY <1>1, <1>2 DEF FeedInv, ToldUpTo, IsNext
<1>3. CASE pc'[q] = pc[q] /\ untold'[q] = untold[q] /\ targets'[q] \subseteq targets[q]
  BY <1>1, <1>3 DEF FeedInv, ToldUpTo, IsNext
<1>4. CASE pc[q] \notin {"append", "done"}
  <2>1. \A e \in Rows(feed[c]) : e.by # q
    BY <1>4 DEF FeedInv
  <2> QED
    BY <1>1, <2>1 DEF ToldUpTo
<1>5. CASE untold'[q] = {}
  BY <1>5 DEF ToldUpTo
<1> QED
  BY <1>2, <1>3, <1>4, <1>5

\* The same for the whole invariant: a step of task p that sends no row.
LEMMA FeedKept ==
  ASSUME TypeOK, RowsInv, FeedInv, NEW p \in Task, UNCHANGED feed,
         \A e \in Rows(journal) : e \in Rows(journal)',
         \A q \in Task : q # p => /\ untold'[q] = untold[q] /\ pc'[q] = pc[q]
                                  /\ targets'[q] = targets[q],
         pc[p] \notin {"append", "done"} \/ pc'[p] \in {"append", "done"},
         \A c \in Client : ToldUpTo(p, c)'
  PROVE  FeedInv'
<1>1. \A c \in Client : Rows(feed[c])' = Rows(feed[c])
  BY DEF Rows
<1>2. ASSUME NEW c \in Client, NEW e \in Rows(feed[c])
      PROVE  e \in Rows(journal)' /\ pc'[e.by] \in {"append", "done"}
  <2>1. e.by \in Task
    <3>1. Rows(journal) \subseteq Entry
      BY RowsType DEF TypeOK
    <3> QED
      BY <3>1, <1>2 DEF FeedInv, Entry
  <2> QED
    BY <1>2, <2>1 DEF FeedInv
<1>3. ASSUME NEW c \in Client, NEW q \in Task PROVE ToldUpTo(q, c)'
  <2>1. CASE q = p
    BY <2>1
  <2>2. CASE q # p
    BY <2>2, ToldKept
  <2> QED
    BY <2>1, <2>2
<1>4. \A c \in Client : FeedOrdered(c)'
  BY DEF FeedInv, FeedOrdered
<1> QED
  BY <1>1, <1>2, <1>3, <1>4 DEF FeedInv

LEMMA FeedSame ==
  ASSUME FeedInv, UNCHANGED <<pc, untold, targets, journal, feed>> PROVE FeedInv'
  BY DEF FeedInv, ToldUpTo, FeedOrdered, IsNext, Rows

\* One send: the row goes to the end of c's feed, behind the rows told before
\* and not behind any other the task has still to tell.
LEMMA FeedSend ==
  ASSUME TypeOK, RowsInv, FeedInv, NEW p \in Task, NEW c \in Client,
         pc[p] = "append", c \in targets[p],
         NEW e \in untold[p], IsNext(e, untold[p]),
         feed' = [feed EXCEPT ![c] = Append(@, e)],
         targets' = [targets EXCEPT ![p] = @ \ {c}],
         UNCHANGED <<pc, untold, journal>>
  PROVE  FeedInv'
<1>0. /\ feed \in [Client -> Seq(Entry)]
      /\ untold \in [Task -> SUBSET Entry]
      /\ targets \in [Task -> SUBSET Client]
  BY DEF TypeOK
<1>1. e \in Entry /\ e.by = p /\ e \in Rows(journal)
  BY <1>0 DEF RowsInv, Held
<1>2. ASSUME NEW d \in Client, d # c PROVE feed'[d] = feed[d]
  BY <1>0, <1>2
<1>3. feed'[c] = Append(feed[c], e)
  BY <1>0
<1>4. Rows(feed[c])' = Rows(feed[c]) \cup {e}
  <2>1. Rows(Append(feed[c], e)) = Rows(feed[c]) \cup {e}
    BY <1>0, <1>1, RowsAppend
  <2> QED
    BY <1>3, <2>1 DEF Rows
<1>5. \A f \in Rows(feed[c]) : f.by = e.by => f.item < e.item
  BY <1>1 DEF FeedInv, ToldUpTo
<1>6. ASSUME NEW d \in Client, NEW f \in Rows(feed[d])'
      PROVE  f \in Rows(journal)' /\ pc'[f.by] \in {"append", "done"}
  <2>1. f \in Rows(feed[d]) \/ f = e
    BY <1>2, <1>4, <1>6 DEF Rows
  <2>2. f \in Rows(journal) /\ pc[f.by] \in {"append", "done"}
    BY <1>1, <2>1 DEF FeedInv
  <2> QED
    BY <2>2 DEF Rows
<1>7. ASSUME NEW d \in Client, NEW q \in Task PROVE ToldUpTo(q, d)'
  <2> SUFFICES ASSUME NEW g \in Rows(feed[d])', NEW f \in untold[q], g.by = q
               PROVE  \/ g.item < f.item
                      \/ pc[q] = "append" /\ d \notin targets'[q] /\ IsNext(f, untold[q])
    BY DEF ToldUpTo, IsNext
  <2>1. CASE g \in Rows(feed[d])
    <3>1. targets'[q] \subseteq targets[q]
      BY <1>0
    <3> QED
      BY <2>1, <3>1 DEF FeedInv, ToldUpTo
  <2>2. CASE g \notin Rows(feed[d])
    <3>1. d = c /\ g = e
      BY <1>2, <1>4, <2>2 DEF Rows
    <3>2. q = p /\ c \notin targets'[p]
      BY <1>0, <1>1, <3>1
    <3>3. e.item <= f.item /\ e.item \in Nat /\ f.item \in Nat
      <4>1. e \in Entry /\ f \in Entry
        BY <1>0, <1>1
      <4>2. e.item \in Nat /\ f.item \in Nat
        BY <4>1, ItemType
      <4> QED
        BY <3>2, <4>2 DEF IsNext
    <3>4. CASE e.item = f.item
      <4>1. IsNext(f, untold[p])
        BY <3>2, <3>4 DEF IsNext
      <4> QED
        BY <3>1, <3>2, <4>1
    <3> QED
      BY <3>1, <3>3, <3>4
  <2> QED
    BY <2>1, <2>2
<1>8. ASSUME NEW d \in Client PROVE FeedOrdered(d)'
  <2>1. CASE d # c
    BY <1>2, <2>1 DEF FeedInv, FeedOrdered
  <2>2. CASE d = c
    <3> DEFINE log == feed[c]
    <3>1. log \in Seq(Entry)
      BY <1>0
    <3>2. \A i, j \in 1 .. Len(log) :
              i < j /\ log[i].by = log[j].by => log[i].item < log[j].item
      BY DEF FeedInv, FeedOrdered
    <3>3. \A f \in Rows(log) : f.by = e.by => f.item < e.item
      BY <1>5
    <3> DEFINE longer == Append(log, e)
    <3> HIDE DEF log
    <3>4. \A i, j \in 1 .. Len(longer) :
              i < j /\ longer[i].by = longer[j].by => longer[i].item < longer[j].item
      BY <1>1, <3>1, <3>2, <3>3, OrderedAppend
    <3>5. feed'[d] = longer
      BY <1>3, <2>2 DEF log
    <3> HIDE DEF longer
    <3> QED
      BY <3>4, <3>5 DEF FeedOrdered
  <2> QED
    BY <2>1, <2>2
<1> QED
  BY <1>6, <1>7, <1>8 DEF FeedInv

LEMMA FeedStep == TypeOK /\ RowsInv /\ FeedInv /\ [Next]_vars => FeedInv'
<1> SUFFICES ASSUME TypeOK, RowsInv, FeedInv, [Next]_vars PROVE FeedInv'
  OBVIOUS
<1> USE TaskType
<1>0. /\ pc \in [Task -> Place]
      /\ untold \in [Task -> SUBSET Entry]
      /\ targets \in [Task -> SUBSET Client]
  BY DEF TypeOK
<1>1. ASSUME NEW p \in Board, NEW reading \in Readings, ProcessBoardPayload(p, reading)
      PROVE  FeedInv'
  <2>1. /\ pc[p] = "idle" /\ UNCHANGED <<untold, targets, journal, feed>>
        /\ \/ pc' = [pc EXCEPT ![p] = "done"]
           \/ pc' = [pc EXCEPT ![p] = "commit"]
    BY <1>1 DEF ProcessBoardPayload, clientVars
  <2>2. \A c \in Client : ToldUpTo(p, c)'
    BY <2>1, ToldKept
  <2> QED
    BY <1>0, <2>1, <2>2, FeedKept DEF Rows
<1>2. ASSUME NEW p \in Act, NEW value \in {"on", "off"}, ProcessActPayload(p, value)
      PROVE  FeedInv'
  <2>1. /\ pc[p] = "idle" /\ UNCHANGED <<untold, journal, feed>>
        /\ \/ pc' = [pc EXCEPT ![p] = "done"] /\ UNCHANGED targets
           \/ StartPublish(p)
    BY <1>2 DEF ProcessActPayload, Finish, clientVars
  <2>2. \A c \in Client : ToldUpTo(p, c)'
    BY <2>1, ToldKept
  <2> QED
    BY <1>0, <2>1, <2>2, FeedKept DEF Rows, StartPublish
<1>3. ASSUME NEW p \in Event, AppendEvent(p) PROVE FeedInv'
  <2>1. /\ pc[p] = "idle" /\ UNCHANGED <<untold, targets, journal, feed>>
        /\ pc' = [pc EXCEPT ![p] = "commit"]
    BY <1>3 DEF AppendEvent, clientVars
  <2>2. \A c \in Client : ToldUpTo(p, c)'
    BY <2>1, ToldKept
  <2> QED
    BY <1>0, <2>1, <2>2, FeedKept DEF Rows
<1>4. ASSUME NEW p \in Task, CommitEntry(p) PROVE FeedInv'
  <2>1. PICK e \in todo[p] : /\ journal' = Append(journal, e)
                             /\ untold' = [untold EXCEPT ![p] = @ \cup {e}]
    BY <1>4 DEF CommitEntry
  <2>2. /\ pc[p] = "commit" /\ pc' = [pc EXCEPT ![p] = "refresh"]
        /\ UNCHANGED <<targets, feed>>
    BY <1>4 DEF CommitEntry, clientVars
  <2>3. Rows(Append(journal, e)) = Rows(journal) \cup {e}
    BY RowsAppend DEF TypeOK
  <2>4. \A f \in Rows(journal) : f \in Rows(journal)'
    BY <2>1, <2>3 DEF Rows
  <2>5. \A c \in Client : ToldUpTo(p, c)'
    BY <2>2, ToldKept
  <2> QED
    BY <1>0, <2>1, <2>2, <2>4, <2>5, FeedKept
<1>5. ASSUME NEW p \in Task, RefreshEntry(p) PROVE FeedInv'
  <2>1. /\ pc[p] = "refresh" /\ UNCHANGED <<untold, journal, feed>>
        /\ \/ pc' = [pc EXCEPT ![p] = "commit"] /\ UNCHANGED targets
           \/ StartPublish(p)
           \/ StartAppend(p)
    BY <1>5 DEF RefreshEntry, clientVars
  <2>2. \A c \in Client : ToldUpTo(p, c)'
    BY <2>1, ToldKept
  <2> QED
    BY <1>0, <2>1, <2>2, FeedKept DEF Rows, StartPublish, StartAppend
<1>6. ASSUME NEW p \in Task, DatabaseFails(p) PROVE FeedInv'
  <2>1. /\ pc[p] \notin {"append", "done"} /\ UNCHANGED <<targets, journal, feed>>
        /\ pc' = [pc EXCEPT ![p] = "failed"] /\ untold' = [untold EXCEPT ![p] = {}]
    BY <1>6 DEF DatabaseFails, clientVars
  <2>2. \A c \in Client : ToldUpTo(p, c)'
    BY <2>1, ToldKept
  <2> QED
    BY <1>0, <2>1, <2>2, FeedKept DEF Rows
<1>7. ASSUME NEW p \in Task, NEW c \in Client, Send(p, c) PROVE FeedInv'
  <2>1. /\ c \in targets[p] /\ pc[p] \in {"publish", "append"}
        /\ targets' = [targets EXCEPT ![p] = @ \ {c}]
        /\ UNCHANGED <<pc, untold, journal>>
    BY <1>7 DEF Send
  <2>2. CASE UNCHANGED feed
    <3>1. targets'[p] \subseteq targets[p] /\ pc'[p] = pc[p] /\ untold'[p] = untold[p]
      BY <1>0, <2>1
    <3>2. \A d \in Client : ToldUpTo(p, d)'
      BY <2>2, <3>1, ToldKept
    <3> QED
      BY <1>0, <2>1, <2>2, <3>2, FeedKept DEF Rows
  <2>3. CASE ~UNCHANGED feed
    <3>1. Deliver(p, c) /\ pc[p] # "publish"
      BY <1>7, <2>3 DEF Send, Deliver
    <3>2. PICK e \in untold[p] : /\ IsNext(e, untold[p])
                                 /\ feed' = [feed EXCEPT ![c] = Append(@, e)]
      BY <3>1 DEF Deliver
    <3> QED
      BY <2>1, <3>1, <3>2, FeedSend
  <2> QED
    BY <2>2, <2>3
<1>8. ASSUME NEW p \in Task, EndBroadcast(p) PROVE FeedInv'
  <2>1. /\ pc[p] \in {"publish", "append"}
        /\ untold' = [untold EXCEPT ![p] = StillUntold(p)]
        /\ UNCHANGED <<journal, feed>>
        /\ \/ pc' = [pc EXCEPT ![p] = "done"] /\ UNCHANGED targets
           \/ StartAppend(p)
    BY <1>8 DEF EndBroadcast, Finish
  <2>2. ASSUME NEW c \in Client PROVE ToldUpTo(p, c)'
    <3>1. CASE pc[p] = "publish"
      BY <2>1, <3>1, ToldKept
    <3>2. CASE pc[p] = "append"
      <4>1. untold'[p] = {e \in untold[p] : ~IsNext(e, untold[p])}
        BY <1>0, <2>1, <3>2 DEF StillUntold
      <4>2. Rows(feed[c])' = Rows(feed[c])
        BY <2>1 DEF Rows
      <4> QED
        BY <4>1, <4>2 DEF FeedInv, ToldUpTo
    <3> QED
      BY <2>1, <3>1, <3>2
  <2> QED
    BY <1>0, <2>1, <2>2, FeedKept DEF Rows, StartAppend
<1>9. ASSUME NEW c \in Client,
             Connection(c) \/ FetchJournal(c)
      PROVE  FeedInv'
  BY <1>9, FeedSame DEF Connection, Join, Enter, Crash, Subscribe, FetchJournal, Cut, Leave, taskVars
<1>10. CASE UNCHANGED vars
  BY <1>10, FeedSame DEF vars, taskVars, clientVars
<1> QED
  BY <1>1, <1>2, <1>3, <1>4, <1>5, <1>6, <1>7, <1>8, <1>9, <1>10 DEF Next, TaskStep

\* No client hears a row that is not in the journal, hears one twice, or hears
\* the rows of one payload out of channel order.
THEOREM FeedIsJournal == Spec => []FeedFollowsJournal
<1>1. FeedInv => FeedFollowsJournal
  BY DEF FeedInv, FeedOrdered, FeedFollowsJournal
<1> QED
  BY <1>1, InitType, NextType, RowsInit, RowsStep, FeedInit, FeedStep, PTL DEF Spec

-----------------------------------------------------------------------------
(* Listening first and fetching afterwards *)

\* Row e is accounted for at client c.
Covered(e, c) ==
    \/ e \in fetched[c].rows \cup Rows(feed[c])
    \/ StillToTell(e, c)
    \/ pc[e.by] = "failed"

\* A client that has not connected has fetched nothing.
GapInv ==
    /\ NoJournalGap
    /\ \A c \in JournalClients : link[c] = "out" => ~fetched[c].done

LEMMA GapInit == Init => GapInv
  BY DEF Init, GapInv, NoJournalGap, Client

\* A step of task p, seen from the rows: those of other tasks are accounted for
\* as before, so only p's own have to be looked at.
LEMMA GapKept ==
  ASSUME TypeOK, GapInv, NEW p \in Task, UNCHANGED <<fetched, link>>,
         \A q \in Task : q # p => /\ untold'[q] = untold[q] /\ pc'[q] = pc[q]
                                  /\ targets'[q] = targets[q],
         pc[p] # "failed",
         \A c \in Client : Rows(feed[c]) \subseteq Rows(feed[c])',
         \A e \in Rows(journal)' :
            e \in Rows(journal) \/ \A c \in JournalClients : Covered(e, c)',
         \A e \in Rows(journal), c \in JournalClients :
            link[c] = "open" /\ e.by = p /\ StillToTell(e, c) => Covered(e, c)'
  PROVE  GapInv'
<1>1. ASSUME NEW c \in JournalClients, link[c] = "open", fetched[c].done,
             NEW e \in Rows(journal)'
      PROVE  Covered(e, c)'
  <2>0. c \in Client
    BY DEF Client
  <2>1. CASE e \notin Rows(journal)
    BY <2>1
  <2>2. CASE e \in Rows(journal)
    <3>1. Covered(e, c)
      BY <1>1, <2>2 DEF GapInv, NoJournalGap, Covered
    <3>2. CASE e \in fetched[c].rows \cup Rows(feed[c])
      BY <2>0, <3>2 DEF Covered
    <3>3. CASE e.by = p
      BY <1>1, <2>2, <3>1, <3>2, <3>3 DEF Covered
    <3>4. CASE e.by # p
      <4>1. e.by \in Task
        <5>1. Rows(journal) \subseteq Entry
          BY RowsType DEF TypeOK
        <5> QED
          BY <2>2, <5>1 DEF Entry
      <4>2. /\ untold'[e.by] = untold[e.by] /\ pc'[e.by] = pc[e.by]
            /\ targets'[e.by] = targets[e.by]
        BY <3>4, <4>1
      <4>3. StillToTell(e, c) => StillToTell(e, c)'
        BY <4>2 DEF StillToTell, IsNext
      <4> QED
        BY <3>1, <3>2, <4>2, <4>3 DEF Covered
    <3> QED
      BY <3>3, <3>4
  <2> QED
    BY <2>1, <2>2
<1> QED
  BY <1>1 DEF GapInv, NoJournalGap, Covered

LEMMA GapStep ==
  TypeOK /\ RegistryInv /\ RegistryInv' /\ RowsInv /\ GapInv /\ [Next]_vars => GapInv'
<1> SUFFICES ASSUME TypeOK, RegistryInv, RegistryInv', RowsInv, GapInv, [Next]_vars
             PROVE  GapInv'
  OBVIOUS
<1> USE TaskType
<1>0. /\ pc \in [Task -> Place]
      /\ untold \in [Task -> SUBSET Entry]
      /\ targets \in [Task -> SUBSET Client]
      /\ feed \in [Client -> Seq(Entry)]
      /\ link \in [Client -> Link]
      /\ JournalClients \subseteq Client
  BY DEF TypeOK, Client
<1>a. \A c \in JournalClients : link[c] = "open" => c \in registered
  BY <1>0 DEF RegistryInv, RegistryMatchesLinks
<1>1. ASSUME NEW p \in Task, pc[p] = "idle",
             \A q \in Task : q # p => pc'[q] = pc[q] /\ targets'[q] = targets[q],
             UNCHANGED <<untold, journal, link, feed, fetched>>
      PROVE  GapInv'
  <2>1. \A e \in Rows(journal), c \in JournalClients : e.by = p => ~StillToTell(e, c)
    BY <1>1 DEF StillToTell
  <2> QED
    BY <1>1, <2>1, GapKept DEF Rows
<1>2. ASSUME NEW p \in Board, NEW reading \in Readings, ProcessBoardPayload(p, reading)
      PROVE  GapInv'
  BY <1>0, <1>1, <1>2 DEF ProcessBoardPayload, clientVars
<1>3. ASSUME NEW p \in Act, NEW value \in {"on", "off"}, ProcessActPayload(p, value)
      PROVE  GapInv'
  BY <1>0, <1>1, <1>3 DEF ProcessActPayload, StartPublish, Finish, clientVars
<1>4. ASSUME NEW p \in Event, AppendEvent(p) PROVE GapInv'
  BY <1>0, <1>1, <1>4 DEF AppendEvent, clientVars
<1>5. ASSUME NEW p \in Task, CommitEntry(p) PROVE GapInv'
  <2>1. PICK e \in todo[p] : /\ journal' = Append(journal, e)
                             /\ untold' = [untold EXCEPT ![p] = @ \cup {e}]
    BY <1>5 DEF CommitEntry
  <2>2. /\ pc[p] = "commit" /\ pc' = [pc EXCEPT ![p] = "refresh"]
        /\ UNCHANGED <<targets, link, feed, fetched>>
    BY <1>5 DEF CommitEntry, clientVars
  <2>3. Rows(journal)' = Rows(journal) \cup {e}
    <3>1. Rows(Append(journal, e)) = Rows(journal) \cup {e}
      BY RowsAppend DEF TypeOK
    <3> QED
      BY <2>1, <3>1 DEF Rows
  <2>4. pc'[p] = "refresh" /\ untold'[p] = untold[p] \cup {e}
    BY <1>0, <2>1, <2>2
  <2>5. ASSUME NEW f, NEW c \in JournalClients, f.by = p, f \in untold[p] \cup {e}
        PROVE  Covered(f, c)'
    BY <2>4, <2>5 DEF Covered, StillToTell
  <2>6. e.by = p
    BY DEF RowsInv, Held
  <2>7. \A f \in Rows(journal), c \in JournalClients :
           f.by = p /\ StillToTell(f, c) => Covered(f, c)'
    BY <2>5 DEF StillToTell
  <2> QED
    BY <1>0, <2>1, <2>2, <2>3, <2>5, <2>6, <2>7, GapKept DEF Rows
<1>6. ASSUME NEW p \in Task, RefreshEntry(p) PROVE GapInv'
  <2>1. /\ pc[p] = "refresh" /\ UNCHANGED <<untold, journal, registered, link, feed, fetched>>
        /\ \/ pc' = [pc EXCEPT ![p] = "commit"] /\ UNCHANGED targets
           \/ StartPublish(p)
           \/ StartAppend(p)
    BY <1>6 DEF RefreshEntry, clientVars
  <2>2. ASSUME NEW e, NEW c \in JournalClients, link[c] = "open", e.by = p, StillToTell(e, c)
        PROVE  Covered(e, c)'
    <3>1. pc'[p] \in {"commit", "publish", "append"}
      BY <1>0, <2>1 DEF StartPublish, StartAppend
    <3>2. pc'[p] = "append" => c \in targets'[p]
      BY <1>0, <1>a, <2>1, <2>2 DEF StartPublish, StartAppend
    <3> QED
      BY <2>1, <2>2, <3>1, <3>2 DEF Covered, StillToTell
  <2> QED
    BY <1>0, <2>1, <2>2, GapKept DEF Rows, StartPublish, StartAppend
<1>7. ASSUME NEW p \in Task, DatabaseFails(p) PROVE GapInv'
  <2>1. /\ pc[p] \in {"commit", "refresh"} /\ pc' = [pc EXCEPT ![p] = "failed"]
        /\ untold' = [untold EXCEPT ![p] = {}]
        /\ UNCHANGED <<targets, journal, link, feed, fetched>>
    BY <1>7 DEF DatabaseFails, clientVars
  <2>2. \A e, c : e.by = p => Covered(e, c)'
    BY <1>0, <2>1 DEF Covered
  <2> QED
    BY <1>0, <2>1, <2>2, GapKept DEF Rows
<1>8. ASSUME NEW p \in Task, NEW d \in Client, Send(p, d) PROVE GapInv'
  <2>1. /\ pc[p] \in {"publish", "append"} /\ d \in targets[p]
        /\ targets' = [targets EXCEPT ![p] = @ \ {d}]
        /\ UNCHANGED <<pc, untold, journal, link, fetched>>
    BY <1>8 DEF Send
  <2>2. ASSUME NEW c \in Client PROVE Rows(feed[c]) \subseteq Rows(feed[c])'
    <3>1. CASE feed'[c] = feed[c]
      BY <3>1 DEF Rows
    <3>2. CASE feed'[c] # feed[c]
      <4>1. PICK e \in untold[p] : feed' = [feed EXCEPT ![d] = Append(@, e)]
        BY <1>8, <3>2 DEF Send, Deliver
      <4>2. feed'[c] = Append(feed[c], e)
        BY <1>0, <3>2, <4>1
      <4>3. Rows(Append(feed[c], e)) = Rows(feed[c]) \cup {e}
        BY <1>0, RowsAppend
      <4> QED
        BY <4>2, <4>3 DEF Rows
    <3> QED
      BY <3>1, <3>2
  <2>3. ASSUME NEW e, NEW c \in JournalClients, link[c] = "open", e.by = p, StillToTell(e, c)
        PROVE  Covered(e, c)'
    <3>1. CASE c # d \/ ~(pc[p] = "append" /\ IsNext(e, untold[p]))
      <4>1. c # d => (c \in targets[p] => c \in targets'[p])
        BY <1>0, <2>1
      <4> QED
        BY <2>1, <2>3, <3>1, <4>1 DEF Covered, StillToTell, IsNext
    <3>2. CASE c = d /\ pc[p] = "append" /\ IsNext(e, untold[p])
      <4>1. PICK f \in untold[p] : /\ IsNext(f, untold[p])
                                   /\ feed' = [feed EXCEPT ![d] = Append(@, f)]
        BY <1>8, <2>3, <3>2 DEF Send, Deliver
      <4>2. e = f
        <5>1. e \in Entry /\ f \in Entry /\ e \in untold[p]
          BY <1>0, <3>2 DEF IsNext
        <5>2. e.item \in Nat /\ f.item \in Nat
          BY <5>1, ItemType
        <5>3. e.item <= f.item /\ f.item <= e.item
          BY <3>2, <4>1, <5>1 DEF IsNext
        <5> QED
          BY <5>1, <5>2, <5>3 DEF RowsInv, Held
      <4>3. feed'[c] = Append(feed[c], e)
        BY <1>0, <3>2, <4>1, <4>2
      <4>4. Rows(Append(feed[c], e)) = Rows(feed[c]) \cup {e}
        BY <1>0, <4>1, <4>2, RowsAppend
      <4> QED
        BY <4>3, <4>4 DEF Covered, Rows
    <3> QED
      BY <3>1, <3>2
  <2> QED
    BY <1>0, <2>1, <2>2, <2>3, GapKept DEF Rows
<1>9. ASSUME NEW p \in Task, EndBroadcast(p) PROVE GapInv'
  <2>1. /\ pc[p] \in {"publish", "append"} /\ targets[p] = {}
        /\ untold' = [untold EXCEPT ![p] = StillUntold(p)]
        /\ IF StillUntold(p) = {} THEN Finish(p) ELSE StartAppend(p)
        /\ UNCHANGED <<journal, link, feed, fetched>>
    BY <1>9 DEF EndBroadcast
  <2>2. ASSUME NEW e, NEW c \in JournalClients, link[c] = "open", e.by = p, StillToTell(e, c)
        PROVE  Covered(e, c)'
    <3>1. e \in StillUntold(p)
      BY <2>1, <2>2 DEF StillToTell, StillUntold
    <3>2. StartAppend(p) /\ e \in untold'[p]
      BY <1>0, <2>1, <3>1
    <3>3. c \in registered
      BY <1>a, <2>2
    <3>4. pc'[p] = "append" /\ c \in targets'[p]
      BY <1>0, <3>2, <3>3 DEF StartAppend
    <3> QED
      BY <2>2, <3>2, <3>4 DEF Covered, StillToTell
  <2>3. \A q \in Task : q # p => pc'[q] = pc[q] /\ targets'[q] = targets[q]
    BY <1>0, <2>1 DEF Finish, StartAppend
  <2> QED
    BY <1>0, <2>1, <2>2, <2>3, GapKept DEF Rows
<1>10. ASSUME NEW c \in Client, Connection(c)
       PROVE  GapInv'
  <2>1. UNCHANGED <<pc, untold, targets, journal, feed, fetched>>
    BY <1>10 DEF Connection, Join, Enter, Crash, Subscribe, Cut, Leave, taskVars
  <2>2. \A d \in JournalClients :
           /\ link'[d] = "open" => link[d] \in {"open", "out"}
           /\ link'[d] = "out" => link[d] = "out"
    BY <1>0, <1>10 DEF Connection, Join, Enter, Crash, Subscribe, Cut, Leave
  <2> QED
    BY <2>1, <2>2 DEF GapInv, NoJournalGap, StillToTell, IsNext, Rows
<1>11. ASSUME NEW c \in Client, FetchJournal(c) PROVE GapInv'
  <2>1. /\ c \in JournalClients /\ link[c] = "open"
        /\ fetched' = [fetched EXCEPT ![c] = [done |-> TRUE, rows |-> Rows(journal)]]
        /\ UNCHANGED <<pc, untold, targets, journal, feed, link>>
    BY <1>11 DEF FetchJournal, taskVars
  <2>2. fetched'[c].rows = Rows(journal) /\ \A d \in JournalClients : d # c => fetched'[d] = fetched[d]
    BY <2>1 DEF TypeOK
  <2> QED
    BY <2>1, <2>2 DEF GapInv, NoJournalGap, StillToTell, IsNext, Rows
<1>12. CASE UNCHANGED vars
  BY <1>12 DEF vars, taskVars, clientVars, GapInv, NoJournalGap, StillToTell, IsNext, Rows
<1> QED
  BY <1>2, <1>3, <1>4, <1>5, <1>6, <1>7, <1>8, <1>9, <1>10, <1>11, <1>12
     DEF Next, TaskStep

\* A client that listens first and fetches afterwards misses no row, except of
\* tasks whose database call failed.
THEOREM ListenThenFetch == Spec => []NoJournalGap
<1>1. GapInv => NoJournalGap
  BY DEF GapInv
<1> QED
  BY <1>1, InitType, NextType, RegistryInit, RegistryStep, RowsInit, RowsStep,
     GapInit, GapStep, PTL DEF Spec

-----------------------------------------------------------------------------
(* The journal and the store *)

\* R has the rows of a walk from "inactive" to st: what is entered is left
\* again, except for where the walk begins and ends.
Entering(R, s) == {e \in R : e.new = s}
Leaving(R, s)  == {e \in R : e.previous = s}
Balanced(R, st) ==
    \A s \in Status :
        Cardinality(Entering(R, s)) + (IF s = "inactive" THEN 1 ELSE 0)
        = Cardinality(Leaving(R, s)) + (IF s = st THEN 1 ELSE 0)

\* The rows about a channel, written or about to be, are such a walk to the
\* status the store holds; and there are finitely many, however many tasks.
AccountsInv ==
    NoFailure =>
        \A c \in Channels :
            /\ IsFiniteSet(RowsAbout(c))
            /\ Balanced(RowsAbout(c), channels[c].status)

\* A task that has not begun has nothing to write.
IdleInv == \A p \in Task : pc[p] = "idle" => todo[p] = {}

LEMMA IdleStep == TypeOK /\ IdleInv /\ [Next]_vars => IdleInv'
<1> SUFFICES ASSUME TypeOK, IdleInv, [Next]_vars, NEW p \in Task, pc'[p] = "idle"
             PROVE  todo'[p] = {}
  BY DEF IdleInv
<1> USE TaskType
<1>0. /\ pc \in [Task -> Place]
      /\ todo \in [Task -> SUBSET Entry]
      /\ pc[p] = "idle" => todo[p] = {}
  BY DEF TypeOK, IdleInv
<1>1. ASSUME NEW q \in Board, NEW reading \in Readings, ProcessBoardPayload(q, reading)
      PROVE  todo'[p] = {}
  BY <1>0, <1>1 DEF ProcessBoardPayload
<1>2. ASSUME NEW q \in Act, NEW value \in {"on", "off"}, ProcessActPayload(q, value)
      PROVE  todo'[p] = {}
  BY <1>0, <1>2 DEF ProcessActPayload, Finish, StartPublish
<1>3. ASSUME NEW q \in Event, AppendEvent(q) PROVE todo'[p] = {}
  BY <1>0, <1>3 DEF AppendEvent
<1>4. ASSUME NEW q \in Task, CommitEntry(q) PROVE todo'[p] = {}
  BY <1>0, <1>4 DEF CommitEntry
<1>5. ASSUME NEW q \in Task, RefreshEntry(q) PROVE todo'[p] = {}
  BY <1>0, <1>5 DEF RefreshEntry, StartPublish, StartAppend
<1>6. ASSUME NEW q \in Task, DatabaseFails(q) PROVE todo'[p] = {}
  BY <1>0, <1>6 DEF DatabaseFails
<1>7. ASSUME NEW q \in Task, NEW c \in Client, Send(q, c) PROVE todo'[p] = {}
  BY <1>0, <1>7 DEF Send
<1>8. ASSUME NEW q \in Task, EndBroadcast(q) PROVE todo'[p] = {}
  BY <1>0, <1>8 DEF EndBroadcast, Finish, StartAppend
<1>9. ASSUME NEW c \in Client,
             Connection(c) \/ FetchJournal(c)
      PROVE  todo'[p] = {}
  BY <1>0, <1>9 DEF Connection, Join, Enter, Crash, Subscribe, FetchJournal, Cut, Leave, taskVars
<1>10. CASE UNCHANGED vars
  BY <1>0, <1>10 DEF vars, taskVars
<1> QED
  BY <1>1, <1>2, <1>3, <1>4, <1>5, <1>6, <1>7, <1>8, <1>9, <1>10 DEF Next, TaskStep

\* One more row counts where it enters and where it leaves.
LEMMA CountAdd ==
  ASSUME NEW R, IsFiniteSet(R), NEW e, e \notin R, NEW s
  PROVE  /\ Cardinality(Entering(R \cup {e}, s)) \in Nat
         /\ Cardinality(Entering(R, s)) \in Nat
         /\ Cardinality(Entering(R \cup {e}, s))
              = Cardinality(Entering(R, s)) + (IF e.new = s THEN 1 ELSE 0)
         /\ Cardinality(Leaving(R \cup {e}, s)) \in Nat
         /\ Cardinality(Leaving(R, s)) \in Nat
         /\ Cardinality(Leaving(R \cup {e}, s))
              = Cardinality(Leaving(R, s)) + (IF e.previous = s THEN 1 ELSE 0)
<1>1. PICK N, P, N2, P2 :
         /\ N = Entering(R, s) /\ N2 = Entering(R \cup {e}, s)
         /\ P = Leaving(R, s) /\ P2 = Leaving(R \cup {e}, s)
  OBVIOUS
<1>2. IsFiniteSet(N) /\ IsFiniteSet(P) /\ e \notin N /\ e \notin P
  BY <1>1, FS_Subset DEF Entering, Leaving
<1>3. /\ N2 = IF e.new = s THEN N \cup {e} ELSE N
      /\ P2 = IF e.previous = s THEN P \cup {e} ELSE P
  BY <1>1 DEF Entering, Leaving
<1>4. /\ IsFiniteSet(N \cup {e}) /\ Cardinality(N \cup {e}) = Cardinality(N) + 1
      /\ IsFiniteSet(P \cup {e}) /\ Cardinality(P \cup {e}) = Cardinality(P) + 1
  BY <1>2, FS_AddElement
<1>5. /\ Cardinality(N) \in Nat /\ Cardinality(N \cup {e}) \in Nat
      /\ Cardinality(P) \in Nat /\ Cardinality(P \cup {e}) \in Nat
  BY <1>2, <1>4, FS_CardinalityType
<1>6. /\ Cardinality(N2) = Cardinality(N) + (IF e.new = s THEN 1 ELSE 0)
      /\ Cardinality(P2) = Cardinality(P) + (IF e.previous = s THEN 1 ELSE 0)
      /\ Cardinality(N2) \in Nat /\ Cardinality(P2) \in Nat
  BY <1>3, <1>4, <1>5
<1> QED
  BY <1>1, <1>5, <1>6

\* The walk goes on from where it is.
LEMMA BalancedAdd ==
  ASSUME NEW R, IsFiniteSet(R), NEW st, Balanced(R, st),
         NEW e, e \notin R, e.previous = st
  PROVE  IsFiniteSet(R \cup {e}) /\ Balanced(R \cup {e}, e.new)
<1>1. IsFiniteSet(R \cup {e})
  BY FS_AddElement
<1>2. ASSUME NEW s \in Status
      PROVE  Cardinality(Entering(R \cup {e}, s)) + (IF s = "inactive" THEN 1 ELSE 0)
             = Cardinality(Leaving(R \cup {e}, s)) + (IF s = e.new THEN 1 ELSE 0)
  <2>1. Cardinality(Entering(R, s)) + (IF s = "inactive" THEN 1 ELSE 0)
        = Cardinality(Leaving(R, s)) + (IF s = st THEN 1 ELSE 0)
    BY DEF Balanced
  <2>2. /\ Cardinality(Entering(R, s)) \in Nat
        /\ Cardinality(Entering(R \cup {e}, s))
             = Cardinality(Entering(R, s)) + (IF e.new = s THEN 1 ELSE 0)
        /\ Cardinality(Leaving(R, s)) \in Nat
        /\ Cardinality(Leaving(R \cup {e}, s))
             = Cardinality(Leaving(R, s)) + (IF e.previous = s THEN 1 ELSE 0)
    BY CountAdd
  <2> QED
    BY <2>1, <2>2
<1> QED
  BY <1>1, <1>2 DEF Balanced

\* A step that writes no row of a channel and leaves the channels as they are.
LEMMA AccountsKept ==
  ASSUME AccountsInv, NoFailure, UNCHANGED channels,
         \A c \in Channels : RowsAbout(c)' = RowsAbout(c)
  PROVE  AccountsInv'
  BY DEF AccountsInv

LEMMA AboutSame ==
  ASSUME UNCHANGED <<todo, journal>>
  PROVE  \A c \in Channels : RowsAbout(c)' = RowsAbout(c)
  BY DEF RowsAbout, Rows

\* A task that failed stays failed.
LEMMA FailureLasts == TypeOK /\ [Next]_vars /\ NoFailure' => NoFailure
<1> SUFFICES ASSUME TypeOK, [Next]_vars, NEW p \in Task, pc[p] = "failed"
             PROVE  pc'[p] = "failed"
  BY DEF NoFailure
<1> USE TaskType
<1>0. pc \in [Task -> Place]
  BY DEF TypeOK
<1>1. ASSUME NEW q \in Board, NEW reading \in Readings, ProcessBoardPayload(q, reading)
      PROVE  pc'[p] = "failed"
  BY <1>0, <1>1 DEF ProcessBoardPayload
<1>2. ASSUME NEW q \in Act, NEW value \in {"on", "off"}, ProcessActPayload(q, value)
      PROVE  pc'[p] = "failed"
  BY <1>0, <1>2 DEF ProcessActPayload, Finish, StartPublish
<1>3. ASSUME NEW q \in Event, AppendEvent(q) PROVE pc'[p] = "failed"
  BY <1>0, <1>3 DEF AppendEvent
<1>4. ASSUME NEW q \in Task, CommitEntry(q) \/ RefreshEntry(q) PROVE pc'[p] = "failed"
  BY <1>0, <1>4 DEF CommitEntry, RefreshEntry, StartPublish, StartAppend
<1>5. ASSUME NEW q \in Task, DatabaseFails(q) PROVE pc'[p] = "failed"
  BY <1>0, <1>5 DEF DatabaseFails
<1>6. ASSUME NEW q \in Task, NEW c \in Client, Send(q, c) PROVE pc'[p] = "failed"
  BY <1>0, <1>6 DEF Send
<1>7. ASSUME NEW q \in Task, EndBroadcast(q) PROVE pc'[p] = "failed"
  BY <1>0, <1>7 DEF EndBroadcast, Finish, StartAppend
<1>8. ASSUME NEW c \in Client,
             Connection(c) \/ FetchJournal(c)
      PROVE  pc'[p] = "failed"
  BY <1>0, <1>8 DEF Connection, Join, Enter, Crash, Subscribe, FetchJournal, Cut, Leave, taskVars
<1>9. CASE UNCHANGED vars
  BY <1>0, <1>9 DEF vars, taskVars
<1> QED
  BY <1>1, <1>2, <1>3, <1>4, <1>5, <1>6, <1>7, <1>8, <1>9 DEF Next, TaskStep

\* A payload that changes something adds one row about each changed channel,
\* from the status the store held to the one it holds now.
LEMMA AccountsPayload ==
  ASSUME TypeOK, RowsInv, IdleInv, AccountsInv, NoFailure,
         NEW p \in Board, NEW reading \in Readings, ProcessBoardPayload(p, reading),
         NEW c \in Channels
  PROVE  IsFiniteSet(RowsAbout(c))' /\ Balanced(RowsAbout(c), channels[c].status)'
<1> USE TaskType
<1>0. /\ todo \in [Task -> SUBSET Entry] /\ pc[p] = "idle" /\ todo[p] = {}
      /\ journal' = journal
  BY DEF TypeOK, IdleInv, ProcessBoardPayload
<1>1. IsFiniteSet(RowsAbout(c)) /\ Balanced(RowsAbout(c), channels[c].status)
  BY DEF AccountsInv
<1>2. PICK R : R = RowsAbout(c)
  OBVIOUS
<1>3. channels'[c] = IF c \in Mapped THEN Decoded(reading[c]) ELSE channels[c]
  BY ReadingType DEF ProcessBoardPayload, ApplyBoardUpdate
<1>4. CASE c \notin Changed(reading)
  <2>1. channels'[c] = channels[c]
    BY <1>3, <1>4, ReadingType DEF Changed
  <2>2. \A e \in ChangeRows(p, reading) : e.item # c
    BY <1>4 DEF ChangeRows
  <2>3. RowsAbout(c)' = R
    <3>1. /\ \A q \in Task : q # p => todo'[q] = todo[q]
          /\ \A e \in todo'[p] : e.item # c
      BY <1>0, <2>2 DEF ProcessBoardPayload
    <3>2. \A e : e.item = c => (\A q \in Task : e \in todo'[q] <=> e \in todo[q])
      BY <1>0, <3>1
    <3>3. Rows(journal)' = Rows(journal)
      BY <1>0 DEF Rows
    <3> QED
      BY <1>2, <3>2, <3>3 DEF RowsAbout
  <2> QED
    BY <1>1, <1>2, <2>1, <2>3
<1>5. CASE c \in Changed(reading)
  <2>1. PICK e : e = [by |-> p, item |-> c, previous |-> channels[c].status,
                      new |-> Decoded(reading[c]).status]
    OBVIOUS
  <2>2. /\ e.by = p /\ e.item = c /\ e.previous = channels[c].status
        /\ e.new = channels'[c].status
    <3>1. c \in Mapped
      BY <1>5, ReadingType DEF Changed
    <3> QED
      BY <1>3, <2>1, <3>1
  <2>3. todo' = [todo EXCEPT ![p] = ChangeRows(p, reading)]
    BY <1>5 DEF ProcessBoardPayload
  <2>4. \A f : f.item = c => (f \in ChangeRows(p, reading) <=> f = e)
    BY <1>5, <2>1 DEF ChangeRows
  <2>5. e \notin R
    <3>1. e \notin Rows(journal)
      BY <1>0, <2>2 DEF RowsInv
    <3>2. \A q \in Task : e \notin todo[q]
      BY <1>0, <2>2 DEF RowsInv, Held
    <3> QED
      BY <1>2, <3>1, <3>2 DEF RowsAbout
  <2>6. RowsAbout(c)' = R \cup {e}
    <3>1. /\ \A q \in Task : q # p => todo'[q] = todo[q]
          /\ todo'[p] = ChangeRows(p, reading)
      BY <1>0, <2>3
    <3>2. Rows(journal)' = Rows(journal)
      BY <1>0 DEF Rows
    <3>3. \A f : f \in RowsAbout(c)' <=>
                 f.item = c /\ (f \in Rows(journal) \/ \E q \in Task : f \in todo'[q])
      BY <3>2 DEF RowsAbout
    <3>4. \A f : f \in R <=>
                 f.item = c /\ (f \in Rows(journal) \/ \E q \in Task : f \in todo[q])
      BY <1>2 DEF RowsAbout
    <3>5. \A f : f.item = c =>
             ((\E q \in Task : f \in todo'[q]) <=> (f = e \/ \E q \in Task : f \in todo[q]))
      BY <1>0, <2>4, <3>1
    <3> QED
      BY <2>2, <3>3, <3>4, <3>5
  <2>7. IsFiniteSet(R \cup {e}) /\ Balanced(R \cup {e}, e.new)
    BY <1>1, <1>2, <2>2, <2>5, BalancedAdd
  <2> QED
    BY <2>2, <2>6, <2>7
<1> QED
  BY <1>4, <1>5

LEMMA AccountsStep ==
  TypeOK /\ RowsInv /\ IdleInv /\ AccountsInv /\ [Next]_vars => AccountsInv'
<1> SUFFICES ASSUME TypeOK, RowsInv, IdleInv, AccountsInv, [Next]_vars, NoFailure'
             PROVE  AccountsInv'
  BY DEF AccountsInv
<1> USE TaskType
<1>0. /\ pc \in [Task -> Place]
      /\ todo \in [Task -> SUBSET Entry]
      /\ NoFailure
  BY FailureLasts DEF TypeOK
<1>1. ASSUME NEW p \in Board, NEW reading \in Readings, ProcessBoardPayload(p, reading)
      PROVE  AccountsInv'
  BY <1>0, <1>1, AccountsPayload DEF AccountsInv
<1>2. ASSUME NEW p \in Act, NEW value \in {"on", "off"}, ProcessActPayload(p, value)
      PROVE  AccountsInv'
  BY <1>0, <1>2, AboutSame, AccountsKept DEF ProcessActPayload, ApplyActUpdate
<1>3. ASSUME NEW p \in Event, AppendEvent(p) PROVE AccountsInv'
  <2>1. ASSUME NEW c \in Channels PROVE RowsAbout(c)' = RowsAbout(c)
    <3>1. /\ \A q \in Task : q # p => todo'[q] = todo[q]
          /\ todo[p] = {} /\ \A e \in todo'[p] : e.item = 0
      BY <1>0, <1>3 DEF AppendEvent, IdleInv
    <3>2. c # 0
      BY ChannelsAssumption
    <3>3. \A e : e.item = c => (\A q \in Task : e \in todo'[q] <=> e \in todo[q])
      BY <3>1, <3>2
    <3>4. Rows(journal)' = Rows(journal)
      BY <1>3 DEF AppendEvent, Rows
    <3> QED
      BY <3>3, <3>4 DEF RowsAbout
  <2> QED
    BY <1>0, <1>3, <2>1, AccountsKept DEF AppendEvent, storeVars
<1>4. ASSUME NEW p \in Task, CommitEntry(p) PROVE AccountsInv'
  <2>1. PICK e \in todo[p] : /\ journal' = Append(journal, e)
                             /\ todo' = [todo EXCEPT ![p] = @ \ {e}]
    BY <1>4 DEF CommitEntry
  <2>2. Rows(journal)' = Rows(journal) \cup {e}
    <3>1. e \in Entry
      BY <1>0
    <3>2. Rows(Append(journal, e)) = Rows(journal) \cup {e}
      BY <3>1, RowsAppend DEF TypeOK
    <3> QED
      BY <2>1, <3>2 DEF Rows
  <2>3. \A f : (f \in Rows(journal) \cup {e} \/ \E q \in Task : f \in todo'[q])
               <=> (f \in Rows(journal) \/ \E q \in Task : f \in todo[q])
    BY <1>0, <2>1
  <2>4. \A c \in Channels : RowsAbout(c)' = RowsAbout(c)
    BY <2>2, <2>3 DEF RowsAbout
  <2> QED
    BY <1>0, <1>4, <2>4, AccountsKept DEF CommitEntry, storeVars
<1>5. ASSUME NEW p \in Task, RefreshEntry(p) PROVE AccountsInv'
  BY <1>0, <1>5, AboutSame, AccountsKept DEF RefreshEntry, storeVars
<1>6. ASSUME NEW p \in Task, DatabaseFails(p) PROVE AccountsInv'
  BY <1>0, <1>6 DEF DatabaseFails, NoFailure
<1>7. ASSUME NEW p \in Task, NEW c \in Client, Send(p, c) PROVE AccountsInv'
  BY <1>0, <1>7, AboutSame, AccountsKept DEF Send, storeVars
<1>8. ASSUME NEW p \in Task, EndBroadcast(p) PROVE AccountsInv'
  BY <1>0, <1>8, AboutSame, AccountsKept DEF EndBroadcast, storeVars
<1>9. ASSUME NEW c \in Client,
             Connection(c) \/ FetchJournal(c)
      PROVE  AccountsInv'
  BY <1>0, <1>9, AboutSame, AccountsKept
     DEF Connection, Join, Enter, Crash, Subscribe, FetchJournal, Cut, Leave, taskVars, storeVars
<1>10. CASE UNCHANGED vars
  BY <1>0, <1>10, AboutSame, AccountsKept DEF vars, taskVars, storeVars
<1> QED
  BY <1>1, <1>2, <1>3, <1>4, <1>5, <1>6, <1>7, <1>8, <1>9, <1>10 DEF Next, TaskStep

LEMMA AccountsInit == Init => IdleInv /\ AccountsInv
<1> SUFFICES ASSUME Init PROVE IdleInv /\ AccountsInv
  OBVIOUS
<1>1. IdleInv
  BY DEF Init, IdleInv
<1>2. \A c \in Channels : RowsAbout(c) = {} /\ channels[c].status = "inactive"
  <2>1. Rows(journal) = {} /\ \A p \in Task : todo[p] = {}
    BY DEF Init, Rows
  <2>2. \A c \in Channels : channels[c].status = "inactive"
    BY DEF Init, StoreInit, Inactive
  <2> QED
    BY <2>1, <2>2 DEF RowsAbout
<1>3. IsFiniteSet({}) /\ Balanced({}, "inactive")
  <2>1. \A s : Entering({}, s) = {} /\ Leaving({}, s) = {}
    BY DEF Entering, Leaving
  <2> QED
    BY <2>1, FS_EmptySet DEF Balanced
<1> QED
  BY <1>1, <1>2, <1>3 DEF AccountsInv

\* As long as the database never failed, the rows of a channel, in whatever
\* order their commits came, are a walk from "inactive" to the status the store
\* holds.
THEOREM JournalAccounts == Spec => []JournalAccountsForState
<1>1. AccountsInv => JournalAccountsForState
  BY DEF AccountsInv, JournalAccountsForState, Balanced, Entering, Leaving
<1> QED
  BY <1>1, InitType, NextType, RowsInit, RowsStep, AccountsInit, IdleStep,
     AccountsStep, PTL DEF Spec

=============================================================================
