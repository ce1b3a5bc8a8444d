---------------------------- MODULE BridgeRuntime ----------------------------
(***************************************************************************)
(* app/services/bridge_runtime.py with the parts it drives: the state      *)
(* store, the journal (journal.py) and the two websocket registries        *)
(* (broadcaster.py), and the clients that listen to them (main.py).        *)
(*                                                                         *)
(* Every telemetry message, horn command and system or login event is a    *)
(* coroutine of its own: a task.  Tasks share one event loop and interleave*)
(* where a coroutine really waits: at the commit and the refresh of a      *)
(* journal row, and at each websocket send.  Between two waits a task runs *)
(* alone.  (No asyncio lock of the program is held across a wait, so none  *)
(* is ever contended.)                                                     *)
(***************************************************************************)
EXTENDS StateStore, Sequences, FiniteSets

CONSTANTS
    Board,           \* tasks running process_board_payload
    Act,             \* tasks running process_act_payload
    Event,           \* tasks running append_system_event / append_auth_event
    StateClients,    \* connections to /ws/state
    JournalClients,  \* connections to /ws/journal
    Mapped,          \* the channels of the telemetry topic
    Samples          \* the triplets a channel of that topic may report

ASSUME TasksAssumption ==
    /\ Board \cap Act = {}
    /\ Board \cap Event = {}
    /\ Act \cap Event = {}

ASSUME ClientsAssumption == StateClients \cap JournalClients = {}

ASSUME MappedAssumption == Mapped \subseteq Channels

ASSUME SamplesAssumption == Samples \subseteq Triplet

Task   == Board \cup Act \cup Event
Update == Board \cup Act
Client == StateClients \cup JournalClients

Readings == [Mapped -> Samples]

\* A journal row: the task that wrote it, the channel it is about (0: the
\* system), and the status before and after.
Entry == [by       : Task,
          item     : Channels \cup {0},
          previous : Status \cup {"none"},
          new      : Status \cup {"info"}]

\* Where a task waits: for its commit, its refresh, the sends of a state
\* update or those of a journal row.
Place == {"idle", "commit", "refresh", "publish", "append", "done", "failed"}

Link == {"out", "open", "cut", "closed", "crashed"}

NoSnapshot == [channels |-> <<>>, act |-> "none"]

VARIABLES
    pc,         \* where each task is
    todo,       \* per task, the rows it has still to write
    untold,     \* per task, the rows written and not yet broadcast
    snap,       \* per task, the snapshot it took when it changed the store
    targets,    \* per task, the clients the current broadcast has not reached
    stale,      \* per task, the clients whose send has raised in it
    journal,    \* the rows committed, in order
    registered, \* the clients in the two WebSocketBroadcasters
    link,       \* per client: "out", "open", "cut" (peer gone), "closed" or
                \* "crashed" (by a handler that ended before its try block)
    guarded,    \* the clients whose handler is in its try block
    view,       \* per state client, the last snapshot it was shown
    feed,       \* per client, the journal_append messages it received
    fetched,    \* per journal client, the rows GET /api/journal returned
    clean       \* history: no update overlapped or failed since the last one
                \* that started alone

taskVars   == <<pc, todo, untold, snap, targets, stale>>
clientVars == <<registered, link, guarded, view, feed, fetched>>
vars == <<storeVars, taskVars, journal, clientVars, clean>>

TypeOK ==
    /\ StoreTypeOK
    /\ pc \in [Task -> Place]
    /\ todo \in [Task -> SUBSET Entry]
    /\ untold \in [Task -> SUBSET Entry]
    /\ snap \in [Task -> Snapshot \cup {NoSnapshot}]
    /\ targets \in [Task -> SUBSET Client]
    /\ stale \in [Task -> SUBSET Client]
    /\ journal \in Seq(Entry)
    /\ registered \in SUBSET Client
    /\ link \in [Client -> Link]
    /\ guarded \in SUBSET Client
    /\ view \in [StateClients -> Snapshot \cup {NoSnapshot}]
    /\ feed \in [Client -> Seq(Entry)]
    /\ fetched \in [JournalClients -> [done : BOOLEAN, rows : SUBSET Entry]]
    /\ clean \in BOOLEAN

Init ==
    /\ StoreInit
    /\ pc = [p \in Task |-> "idle"]
    /\ todo = [p \in Task |-> {}]
    /\ untold = [p \in Task |-> {}]
    /\ snap = [p \in Task |-> NoSnapshot]
    /\ targets = [p \in Task |-> {}]
    /\ stale = [p \in Task |-> {}]
    /\ journal = <<>>
    /\ registered = {}
    /\ link = [c \in Client |-> "out"]
    /\ guarded = {}
    /\ view = [c \in StateClients |-> NoSnapshot]
    /\ feed = [c \in Client |-> <<>>]
    /\ fetched = [c \in JournalClients |-> [done |-> FALSE, rows |-> {}]]
    /\ clean = TRUE

-----------------------------------------------------------------------------
(* Helpers *)

Running(p) == pc[p] \notin {"idle", "done", "failed"}

\* An update whose snapshot has still to reach somebody.
Announcing(p) == p \in Update /\ pc[p] \in {"commit", "refresh", "publish"}

\* (Mutant: the batch is handled backwards.)
IsNextReversed(e, S) == e \in S /\ \A f \in S : e.item >= f.item

\* Rows are written and broadcast in the order of the channel list.
IsNext(e, S) == e \in S /\ \A f \in S : e.item <= f.item

Rows(log) == {log[i] : i \in 1 .. Len(log)}

\* (Mutant: the previous status is read after the store took the new one.)
ChangeRowsLate(p, reading) ==
    {[by |-> p, item |-> c, previous |-> Decoded(reading[c]).status,
      new |-> Decoded(reading[c]).status] : c \in Changed(reading)}

\* _append_channel_journal's arguments: one row per changed channel, with the
\* status the store held before.
ChangeRows(p, reading) ==
    {[by |-> p, item |-> c, previous |-> channels[c].status,
      new |-> Decoded(reading[c]).status] : c \in Changed(reading)}

\* (Mutant: the update goes to the other broadcaster.)
StartPublishToJournal(p) ==
    /\ pc' = [pc EXCEPT ![p] = "publish"]
    /\ targets' = [targets EXCEPT ![p] = registered \cap JournalClients]

\* broadcast() copies the registry when it starts.
StartPublish(p) == /\ pc' = [pc EXCEPT ![p] = "publish"]
                   /\ targets' = [targets EXCEPT ![p] = registered \cap StateClients]

StartAppend(p) == /\ pc' = [pc EXCEPT ![p] = "append"]
                  /\ targets' = [targets EXCEPT ![p] = registered \cap JournalClients]

Finish(p) == pc' = [pc EXCEPT ![p] = "done"] /\ UNCHANGED targets

NoteUpdate == clean' = ~ \E q \in Update : Announcing(q)

-----------------------------------------------------------------------------
(* Tasks *)

\* process_board_payload up to its first wait: decode, store, compare; a
\* payload that changes nothing ends here.
ProcessBoardPayload(p, reading) ==
    /\ pc[p] = "idle"
    /\ ApplyBoardUpdate(reading)
    /\ IF Changed(reading) = {}
       THEN /\ pc' = [pc EXCEPT ![p] = "done"]
            /\ UNCHANGED <<todo, snap, clean>>
       ELSE /\ pc' = [pc EXCEPT ![p] = "commit"]
            /\ todo' = [todo EXCEPT ![p] = ChangeRows(p, reading)]
            /\ snap' = [snap EXCEPT ![p] = CurrentSnapshot']
            /\ NoteUpdate
    /\ UNCHANGED <<untold, targets, stale, journal, clientVars>>

\* (Mutant: the snapshot is read before the store takes the command.)
ProcessActPayloadEarly(p, value) ==
    /\ pc[p] = "idle"
    /\ ApplyActUpdate(value)
    /\ IF act = value
       THEN /\ Finish(p)
            /\ UNCHANGED <<snap, clean>>
       ELSE /\ StartPublish(p)
            /\ snap' = [snap EXCEPT ![p] = CurrentSnapshot]
            /\ NoteUpdate
    /\ UNCHANGED <<todo, untold, stale, journal, clientVars>>

\* process_act_payload: it has no row to write, so an actual change goes
\* straight to the broadcast.
ProcessActPayload(p, value) ==
    /\ pc[p] = "idle"
    /\ ApplyActUpdate(value)
    /\ IF act = value
       THEN /\ Finish(p)
            /\ UNCHANGED <<snap, clean>>
       ELSE /\ StartPublish(p)
            /\ snap' = [snap EXCEPT ![p] = CurrentSnapshot']
            /\ NoteUpdate
    /\ UNCHANGED <<todo, untold, stale, journal, clientVars>>

\* append_system_event and append_auth_event, and the same two calls made by
\* handle_connection_event and by the websocket handlers.
AppendEvent(p) ==
    /\ pc[p] = "idle"
    /\ pc' = [pc EXCEPT ![p] = "commit"]
    /\ todo' = [todo EXCEPT ![p] =
          {[by |-> p, item |-> 0, previous |-> "none", new |-> "info"]}]
    /\ UNCHANGED <<storeVars, untold, snap, targets, stale, journal, clientVars, clean>>

\* append_event: the row becomes visible to everyone.
CommitEntry(p) ==
    /\ pc[p] = "commit"
    /\ \E e \in todo[p] :
          /\ IsNext(e, todo[p])
          /\ journal' = Append(journal, e)
          /\ todo' = [todo EXCEPT ![p] = @ \ {e}]
          /\ untold' = [untold EXCEPT ![p] = @ \cup {e}]
    /\ pc' = [pc EXCEPT ![p] = "refresh"]
    /\ UNCHANGED <<storeVars, snap, targets, stale, clientVars, clean>>

\* append_event: the row is read back.  The next row follows, or the first
\* broadcast starts before the task waits again.
RefreshEntry(p) ==
    /\ pc[p] = "refresh"
    /\ IF todo[p] # {} THEN pc' = [pc EXCEPT ![p] = "commit"] /\ UNCHANGED targets
       ELSE IF p \in Board THEN StartPublish(p)
       ELSE StartAppend(p)
    /\ UNCHANGED <<storeVars, todo, untold, snap, stale, journal, clientVars, clean>>

\* The database raises in commit or refresh.  Nothing catches it below the
\* task's done callback: the rest of the rows and every broadcast are lost,
\* while the store keeps the change.
DatabaseFails(p) ==
    /\ pc[p] \in {"commit", "refresh"}
    /\ pc' = [pc EXCEPT ![p] = "failed"]
    /\ todo' = [todo EXCEPT ![p] = {}]
    /\ untold' = [untold EXCEPT ![p] = {}]
    /\ clean' = (clean /\ p \notin Update)
    /\ UNCHANGED <<storeVars, snap, targets, stale, journal, clientVars>>

\* What one send puts on an open connection.
Deliver(p, c) ==
    IF pc[p] = "publish"
    THEN view' = [view EXCEPT ![c] = snap[p]] /\ UNCHANGED feed
    ELSE /\ \E e \in untold[p] : /\ IsNext(e, untold[p])
                                 /\ feed' = [feed EXCEPT ![c] = Append(@, e)]
         /\ UNCHANGED view

\* (Mutant: no try in the loop, a send that raises ends the broadcast.)
SendFragile(p, c) ==
    /\ pc[p] \in {"publish", "append"}
    /\ c \in targets[p]
    /\ \/ /\ link[c] = "open"
          /\ Deliver(p, c)
          /\ targets' = [targets EXCEPT ![p] = @ \ {c}]
       \/ /\ link[c] # "open"
          /\ targets' = [targets EXCEPT ![p] = {}]
          /\ UNCHANGED <<view, feed>>
    /\ UNCHANGED <<storeVars, pc, todo, untold, snap, stale, journal,
                   registered, link, guarded, fetched, clean>>

\* broadcast: one send.  To a peer that is gone it may raise, or the bytes
\* may vanish in a socket nobody reads.
Send(p, c) ==
    /\ pc[p] \in {"publish", "append"}
    /\ c \in targets[p]
    /\ targets' = [targets EXCEPT ![p] = @ \ {c}]
    /\ \/ /\ link[c] = "open"
          /\ Deliver(p, c)
          /\ UNCHANGED stale
       \/ /\ link[c] # "open"
          /\ stale' = [stale EXCEPT ![p] = @ \cup {c}]
          /\ UNCHANGED <<view, feed>>
       \/ /\ link[c] = "cut"
          /\ UNCHANGED <<stale, view, feed>>
    /\ UNCHANGED <<storeVars, pc, todo, untold, snap, journal,
                   registered, link, guarded, fetched, clean>>

\* (Mutants: only the first row is told; a row told is not taken off.)
StillUntoldFirst(p) == IF pc[p] = "publish" THEN untold[p] ELSE {}
StillUntoldSame(p)  == untold[p]

\* The rows left to broadcast when the current broadcast returns.
StillUntold(p) ==
    IF pc[p] = "publish" THEN untold[p]
    ELSE {e \in untold[p] : ~IsNext(e, untold[p])}

\* broadcast returns: the clients that raised leave the registry, and the
\* next broadcast of the task, if any, starts at once.
EndBroadcast(p) ==
    /\ pc[p] \in {"publish", "append"}
    /\ targets[p] = {}
    /\ registered' = registered \ stale[p]
    /\ stale' = [stale EXCEPT ![p] = {}]
    /\ untold' = [untold EXCEPT ![p] = StillUntold(p)]
    /\ IF StillUntold(p) = {} THEN Finish(p) ELSE StartAppend(p)
    /\ UNCHANGED <<storeVars, todo, snap, journal, link, guarded, view, feed,
                   fetched, clean>>

-----------------------------------------------------------------------------
(* Clients *)

\* websocket_state up to its first wait: the handler registers the connection,
\* takes a snapshot and puts it on the connection without waiting in between.
Join(c) ==
    /\ c \in StateClients
    /\ link[c] = "out"
    /\ link' = [link EXCEPT ![c] = "open"]
    /\ registered' = registered \cup {c}
    /\ view' = [view EXCEPT ![c] = CurrentSnapshot]
    /\ UNCHANGED <<storeVars, taskVars, journal, guarded, feed, fetched, clean>>

\* The handler has yet to see its greeting off and to write the row "client
\* connected" (itself an Event task).
Unguarded(c) == link[c] \in {"open", "cut"} /\ c \notin guarded

\* Both are done: it goes into its try block.
Enter(c) ==
    /\ Unguarded(c)
    /\ guarded' = guarded \cup {c}
    /\ UNCHANGED <<storeVars, taskVars, journal, registered, link, view, feed, fetched, clean>>

\* The greeting or the row raises, outside the try block: the server closes the
\* connection, and nobody takes it out of the registry.
Crash(c) ==
    /\ Unguarded(c)
    /\ link' = [link EXCEPT ![c] = "crashed"]
    /\ UNCHANGED <<storeVars, taskVars, journal, registered, guarded, view, feed, fetched, clean>>

\* websocket_journal after the login check: nothing is sent or written, the try
\* block comes at once.
Subscribe(c) ==
    /\ c \in JournalClients
    /\ link[c] = "out"
    /\ link' = [link EXCEPT ![c] = "open"]
    /\ registered' = registered \cup {c}
    /\ guarded' = guarded \cup {c}
    /\ UNCHANGED <<storeVars, taskVars, journal, view, feed, fetched, clean>>

\* GET /api/journal of a client that is already listening, with a limit above
\* the number of rows.  Bound: a client fetches once, as when its page loads.
FetchJournal(c) ==
    /\ c \in JournalClients
    /\ link[c] = "open" /\ ~fetched[c].done
    /\ fetched' = [fetched EXCEPT ![c] = [done |-> TRUE, rows |-> Rows(journal)]]
    /\ UNCHANGED <<storeVars, taskVars, journal, registered, link, guarded, view, feed, clean>>

\* The peer goes away; the server has not noticed.
Cut(c) ==
    /\ link[c] = "open"
    /\ link' = [link EXCEPT ![c] = "cut"]
    /\ UNCHANGED <<storeVars, taskVars, journal, registered, guarded, view, feed, fetched, clean>>

\* (Mutant: no finally block, the handler ends without disconnecting.)
LeaveForgetful(c) ==
    /\ link[c] = "cut" /\ c \in guarded
    /\ link' = [link EXCEPT ![c] = "closed"]
    /\ guarded' = guarded \ {c}
    /\ UNCHANGED <<storeVars, taskVars, journal, registered, view, feed, fetched, clean>>

\* In the try block, receive() sees the disconnect or an answer raises: the
\* finally block disconnects.
Leave(c) ==
    /\ link[c] = "cut" /\ c \in guarded
    /\ link' = [link EXCEPT ![c] = "closed"]
    /\ guarded' = guarded \ {c}
    /\ registered' = registered \ {c}
    /\ UNCHANGED <<storeVars, taskVars, journal, view, feed, fetched, clean>>

-----------------------------------------------------------------------------

\* A websocket, from its handler's first step to its last.
Connection(c) ==
    Join(c) \/ Enter(c) \/ Crash(c) \/ Subscribe(c) \/ Cut(c) \/ Leave(c)

TaskStep(p) ==
    \/ CommitEntry(p)
    \/ RefreshEntry(p)
    \/ \E c \in Client : Send(p, c)
    \/ EndBroadcast(p)

Next ==
    \/ \E p \in Board, reading \in Readings : ProcessBoardPayload(p, reading)
    \/ \E p \in Act, value \in {"on", "off"} : ProcessActPayload(p, value)
    \/ \E p \in Event : AppendEvent(p)
    \/ \E p \in Task : TaskStep(p) \/ DatabaseFails(p)
    \/ \E c \in Client : Connection(c) \/ FetchJournal(c)

\* The event loop resumes every task it has: a commit ends, a refresh ends, a
\* send ends (the keepalive of the websocket server makes a stuck one raise).
\* Nothing makes a message arrive or a client connect.
Fairness == \A p \in Task : WF_vars(TaskStep(p))

Spec == Init /\ [][Next]_vars /\ Fairness

-----------------------------------------------------------------------------
(* Safety *)

NoFailure == \A p \in Task : pc[p] # "failed"

Settled == \A p \in Task : ~Announcing(p)

\* The registry of the broadcasters and the connections agree, but for handlers
\* that crash before their try block: a live client is never dropped from the
\* registry (by a broadcast that failed for somebody else, or by an old one);
\* one whose handler ended inside the try block is gone and never comes back;
\* only a display, never a journal page, can be registered without a handler.
RegistryMatchesLinks ==
    \A c \in Client :
        /\ link[c] = "open" => c \in registered
        /\ c \in registered => \/ link[c] \in {"open", "cut"}
                               \/ link[c] = "crashed" /\ c \in StateClients

\* Whatever stale snapshots overtaking broadcasts or a failed commit have left
\* on the displays, one update that starts alone and ends repairs them all:
\* once it has been sent, every open state client shows what the store holds,
\* however many clients joined or left and rows failed to be told meanwhile.
LoneUpdateHealsViews ==
    Settled /\ clean =>
        \A c \in StateClients : link[c] = "open" => view[c] = CurrentSnapshot

\* The rows about channel c, written or in the hands of a running task.
RowsAbout(c) == {e \in Rows(journal) \cup UNION {todo[p] : p \in Task} : e.item = c}

\* The journal explains the store.  Commits of two payloads may interleave, so
\* the rows of a channel need not form a chain in journal order; but they
\* always form a path from "inactive" to its present status: a status is
\* entered once more than it is left exactly when the channel is in it now.
JournalAccountsForState ==
    NoFailure =>
        \A c \in Channels, s \in Status :
            Cardinality({e \in RowsAbout(c) : e.new = s})
                + (IF s = "inactive" THEN 1 ELSE 0)
            = Cardinality({e \in RowsAbout(c) : e.previous = s})
                + (IF s = channels[c].status THEN 1 ELSE 0)

\* Row e is committed and its task has still to send it to c.
StillToTell(e, c) ==
    /\ pc[e.by] \in {"commit", "refresh", "publish", "append"}
    /\ e \in untold[e.by]
    /\ pc[e.by] = "append" /\ IsNext(e, untold[e.by]) => c \in targets[e.by]

\* A journal client that listens first and fetches afterwards misses nothing:
\* every committed row is in what it fetched, or has been sent to it, or is
\* about to be - unless the task that wrote the row died before telling.
NoJournalGap ==
    \A c \in JournalClients :
        link[c] = "open" /\ fetched[c].done =>
            \A e \in Rows(journal) :
                \/ e \in fetched[c].rows \cup Rows(feed[c])
                \/ StillToTell(e, c)
                \/ pc[e.by] = "failed"

\* The live feed never runs ahead of the database, repeats no row, and keeps
\* the rows of one payload in channel order, whatever broadcasts of other
\* tasks come in between.
FeedFollowsJournal ==
    \A c \in Client :
        /\ Rows(feed[c]) \subseteq Rows(journal)
        /\ \A i, j \in 1 .. Len(feed[c]) :
              i < j /\ feed[c][i].by = feed[c][j].by
                  => feed[c][i].item < feed[c][j].item

-----------------------------------------------------------------------------
(* Liveness *)

\* Every message, command and event that starts comes to an end: no client
\* that fails, leaves or joins can keep a broadcast going for ever.
EveryTaskEnds == \A p \in Task : Running(p) ~> ~Running(p)

\* A change of the store is shown, exactly as it was made, to every client that
\* was connected when it happened and stays, unless the database failed.
EveryUpdateIsShown ==
    \A p \in Update, c \in StateClients :
        link[c] = "open" /\ (pc[p] \in {"commit", "refresh"} \/ c \in targets[p])
            ~> (pc[p] = "failed" \/ link[c] # "open" \/ view[c] = snap[p])

-----------------------------------------------------------------------------
(* What README.md says, and the code does not keep *)

\* README.md:89, "state_update" on changes: when no update is under way, every
\* open client shows the present state.  (Without database failures.)
SettledViewsAgree ==
    Settled /\ NoFailure =>
        \A c \in StateClients : link[c] = "open" => view[c] = CurrentSnapshot

\* The same when the database may fail: the change is in the store, the
\* clients are never told.
ChangesAreAnnounced ==
    Settled => \A c \in StateClients : link[c] = "open" => view[c] = CurrentSnapshot

=============================================================================
