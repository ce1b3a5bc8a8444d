----------------------------- MODULE Lifecycle -----------------------------
(***************************************************************************)
(* Boot after boot of the process: lifespan (app/main.py), the database it *)
(* opens and closes (app/db/session.py), the first user (auth.py), the     *)
(* mock telemetry (mock_mode.py) with the rows it writes, and the ways a   *)
(* process ends.  docker-compose.yml restarts it ("unless-stopped").       *)
(*                                                                         *)
(* The database outlives the process, the store does not.  Of a payload's  *)
(* processing only the journal rows are kept as steps; its sends are one   *)
(* wait.  Outside the mock mode a task of the MQTT client writes one row;  *)
(* modules BridgeRuntime and MqttBridge have those tasks in detail.        *)
(***************************************************************************)
EXTENDS StateStore, Sequences

CONSTANTS
    MaxBoots,   \* bound: processes
    MaxRows     \* bound: rows when a payload or a task starts

ASSUME LifecycleBounds == MaxBoots \in Nat \ {0} /\ MaxRows \in Nat

\* The mock telemetry comes on the topic of the board wired as QL6C.
ASSUME LifecycleChannels == Channels \subseteq QL6CIndexes

Startup  == {"tables", "admin", "started", "mock_enabled"}
Shutdown == {"stop_heart", "stop_mock", "closing"}
Writer   == {"main", "mock", "job"}

Row == [boot     : 1 .. MaxBoots,
        kind     : {"started", "mock_enabled", "state_change", "event"},
        channel  : Channels \cup {0},
        previous : Status \cup {"none"},
        status   : Status \cup {"none"}]

VARIABLES
    mockMode,   \* MOCK_MODE of this deployment
    tables,     \* database: the tables exist
    admins,     \* database: users with the first admin's name
    rows,       \* database: journal_events in id order
    boot,       \* processes started so far
    phase,      \* where lifespan is; "down" without a process, "exiting" after it
    database,   \* an engine is open (_engine)
    writing,    \* per writer: "idle", or the await of append_event it is in
    loop,       \* the mock task: "none", "payload", "rows", "send", "sleep", ...
    step,       \* the next mock payload
    left,       \* the changed channels of its payload without a row
    before,     \* previous_states of its payload
    heart,      \* the heartbeat task: "none", "sleep", "send", "done"
    client,     \* the MQTT client: "none", "running", "stopped"
    cancelled   \* tasks whose cancel() was called and that have not ended

diskVars == <<tables, admins, rows>>
loopVars == <<loop, step, left, before, storeVars>>
vars == <<mockMode, diskVars, boot, phase, database, writing, loopVars, heart, client,
          cancelled>>

TypeOK ==
    /\ mockMode \in BOOLEAN
    /\ tables \in BOOLEAN /\ admins \in {0, 1} /\ rows \in Seq(Row)
    /\ boot \in 0 .. MaxBoots
    /\ phase \in {"down", "serving", "exiting"} \cup Startup \cup Shutdown
    /\ database \in BOOLEAN
    /\ writing \in [Writer -> {"idle", "commit", "refresh"}]
    /\ loop \in {"none", "payload", "rows", "send", "sleep", "failed", "done"}
    /\ step \in 1 .. 4 /\ left \in SUBSET Channels /\ before \in [Channels -> Status]
    /\ StoreTypeOK
    /\ heart \in {"none", "sleep", "send", "done"}
    /\ client \in {"none", "running", "stopped"}
    /\ cancelled \in SUBSET {"heart", "mock"}

Statuses == [c \in Channels |-> channels[c].status]

Init ==
    /\ mockMode \in BOOLEAN
    /\ tables = FALSE /\ admins = 0 /\ rows = <<>>
    /\ boot = 0 /\ phase = "down" /\ database = FALSE
    /\ writing = [w \in Writer |-> "idle"]
    /\ StoreInit
    /\ loop = "none" /\ step = 1 /\ left = {} /\ before = Statuses
    /\ heart = "none" /\ client = "none" /\ cancelled = {}

-----------------------------------------------------------------------------
(* Start *)

\* (Mutant: the store survives, as a module-level object would.)
BootKeepsStore ==
    /\ phase = "down" /\ boot < MaxBoots
    /\ boot' = boot + 1
    /\ phase' = "tables"
    /\ database' = TRUE
    /\ UNCHANGED <<mockMode, diskVars, writing, loopVars, heart, client, cancelled>>

\* A new process; init_database.  (The store is built a few lines later, before
\* anything can read it.)
Boot ==
    /\ phase = "down" /\ boot < MaxBoots
    /\ boot' = boot + 1
    /\ phase' = "tables"
    /\ database' = TRUE
    /\ channels' = [c \in Channels |-> Inactive]
    /\ act' = "none" /\ module' = "none"
    /\ step' = 1
    /\ UNCHANGED <<mockMode, diskVars, writing, loop, left, before, heart, client,
                   cancelled>>

\* (Mutant: the first admin is looked for only in a new database.)
CreateTablesSkipping ==
    /\ phase = "tables"
    /\ tables' = TRUE
    /\ phase' = IF tables THEN "started" ELSE "admin"
    /\ writing' = [writing EXCEPT !["main"] = IF tables THEN "commit" ELSE "idle"]
    /\ UNCHANGED <<mockMode, admins, rows, boot, database, loopVars, heart, client,
                   cancelled>>

CreateTables ==
    /\ phase = "tables"
    /\ tables' = TRUE
    /\ phase' = "admin"
    /\ UNCHANGED <<mockMode, admins, rows, boot, database, writing, loopVars, heart,
                   client, cancelled>>

\* (Mutants: the admin is added without looking; ...
EnsureFirstAdminBlind ==
    /\ phase = "admin"
    /\ admins' = admins + 1
    /\ phase' = "started"
    /\ writing' = [writing EXCEPT !["main"] = "commit"]
    /\ UNCHANGED <<mockMode, tables, rows, boot, database, loopVars, heart, client,
                   cancelled>>

\* ... the MQTT client starts before the process has announced itself.)
EnsureFirstAdminEarly ==
    /\ phase = "admin"
    /\ admins' = 1
    /\ phase' = "started"
    /\ writing' = [writing EXCEPT !["main"] = "commit"]
    /\ client' = IF mockMode THEN "none" ELSE "running"
    /\ UNCHANGED <<mockMode, tables, rows, boot, database, loopVars, heart, cancelled>>

\* ensure_first_admin: look, and add if there is none; then the first row is
\* begun.  (A refresh that raises after the commit is Dies in the next phase.)
EnsureFirstAdmin ==
    /\ phase = "admin"
    /\ admins' = IF admins = 0 THEN 1 ELSE admins
    /\ phase' = "started"
    /\ writing' = [writing EXCEPT !["main"] = "commit"]
    /\ UNCHANGED <<mockMode, tables, rows, boot, database, loopVars, heart, client,
                   cancelled>>

-----------------------------------------------------------------------------
(* Rows *)

Event(kind) ==
    [boot |-> boot, kind |-> kind, channel |-> 0, previous |-> "none", status |-> "none"]

StateChange(c) ==
    [boot |-> boot, kind |-> "state_change", channel |-> c, previous |-> before[c],
     status |-> channels[c].status]

NextRow(w) ==
    CASE w = "main" -> Event(phase)
      [] w = "mock" -> StateChange(CHOOSE c \in left : IsFirst(c, left))
      [] w = "job"  -> Event("event")

\* The database has the row.
Commit(w) ==
    /\ writing[w] = "commit"
    /\ w = "mock" => w \notin cancelled
    /\ rows' = Append(rows, NextRow(w))
    /\ writing' = [writing EXCEPT ![w] = "refresh"]
    /\ UNCHANGED <<mockMode, tables, admins, boot, phase, database, loopVars, heart,
                   client, cancelled>>

\* append_system_event returns: the services are started, or the app is up.
MainRowDone ==
    /\ writing["main"] = "refresh"
    /\ IF phase = "started" /\ mockMode
       THEN /\ phase' = "mock_enabled"
            /\ loop' = "payload"
            /\ writing' = [writing EXCEPT !["main"] = "commit"]
            /\ UNCHANGED <<client, heart>>
       ELSE /\ phase' = "serving"
            /\ client' = IF mockMode THEN "none" ELSE "running"
            /\ heart' = "sleep"
            /\ writing' = [writing EXCEPT !["main"] = "idle"]
            /\ UNCHANGED loop
    /\ UNCHANGED <<mockMode, diskVars, boot, database, step, left, before, storeVars,
                   cancelled>>

-----------------------------------------------------------------------------
(* The mock task: each payload is awaited to its end. *)

MockSteps ==
    <<[in |-> 0,   inversed |-> 255, out |-> 0],
      [in |-> 255, inversed |-> 255, out |-> 255],
      [in |-> 0,   inversed |-> 0,   out |-> 1],
      [in |-> 1,   inversed |-> 0,   out |-> 0]>>

LoopActs == loop \notin {"none", "failed", "done"} /\ "mock" \notin cancelled

MockPayload ==
    /\ LoopActs /\ loop = "payload" /\ Len(rows) <= MaxRows
    /\ LET reading == [c \in Channels |-> QL6CTriplet(c, MockSteps[step])]
       IN  /\ left' = Changed(reading)
           /\ before' = Statuses
           /\ ApplyBoardUpdate(reading)
    /\ loop' = IF left' = {} THEN "send" ELSE "rows"
    /\ writing' = [writing EXCEPT !["mock"] = IF left' = {} THEN "idle" ELSE "commit"]
    /\ UNCHANGED <<mockMode, diskVars, boot, phase, database, step, heart, client, cancelled>>

MockRowDone ==
    /\ LoopActs /\ writing["mock"] = "refresh"
    /\ \E c \in left : IsFirst(c, left) /\ left' = left \ {c}
    /\ loop' = IF left' = {} THEN "send" ELSE "rows"
    /\ writing' = [writing EXCEPT !["mock"] = IF left' = {} THEN "idle" ELSE "commit"]
    /\ UNCHANGED <<mockMode, diskVars, boot, phase, database, step, before, storeVars,
                   heart, client, cancelled>>

\* (Mutant: the loop catches the error and goes on with the next payload.)
MockRowFailsCaught ==
    /\ LoopActs /\ writing["mock"] # "idle"
    /\ loop' = "sleep"
    /\ left' = {}
    /\ writing' = [writing EXCEPT !["mock"] = "idle"]
    /\ step' = IF step = 4 THEN 1 ELSE step + 1
    /\ UNCHANGED <<mockMode, diskVars, boot, phase, database, before, storeVars, heart,
                   client, cancelled>>

\* The database raises, and nothing in the loop catches it.
MockRowFails ==
    /\ LoopActs /\ writing["mock"] # "idle"
    /\ loop' = "failed"
    /\ left' = {}
    /\ writing' = [writing EXCEPT !["mock"] = "idle"]
    /\ UNCHANGED <<mockMode, diskVars, boot, phase, database, step, before, storeVars,
                   heart, client, cancelled>>

MockSent ==
    /\ LoopActs /\ loop = "send"
    /\ loop' = "sleep"
    /\ step' = IF step = 4 THEN 1 ELSE step + 1
    /\ UNCHANGED <<mockMode, diskVars, boot, phase, database, writing, left, before,
                   storeVars, heart, client, cancelled>>

MockWakes ==
    /\ LoopActs /\ loop = "sleep"
    /\ loop' = "payload"
    /\ UNCHANGED <<mockMode, diskVars, boot, phase, database, writing, step, left, before,
                   storeVars, heart, client, cancelled>>

\* cancel() reaches the task, at whatever await it is.
MockCancelled ==
    /\ "mock" \in cancelled
    /\ loop' = "done"
    /\ left' = {}
    /\ writing' = [writing EXCEPT !["mock"] = "idle"]
    /\ cancelled' = cancelled \ {"mock"}
    /\ UNCHANGED <<mockMode, diskVars, boot, phase, database, step, before, storeVars,
                   heart, client>>

-----------------------------------------------------------------------------
(* Tasks of the MQTT client: they start and run on as long as the process. *)

JobStarts ==
    /\ client # "none" /\ writing["job"] = "idle" /\ Len(rows) <= MaxRows
    /\ writing' = [writing EXCEPT !["job"] = "commit"]
    /\ UNCHANGED <<mockMode, diskVars, boot, phase, database, loopVars, heart, client,
                   cancelled>>

\* It ends, or raises and is logged.
JobEnds ==
    /\ writing["job"] # "idle"
    /\ writing' = [writing EXCEPT !["job"] = "idle"]
    /\ UNCHANGED <<mockMode, diskVars, boot, phase, database, loopVars, heart, client,
                   cancelled>>

-----------------------------------------------------------------------------
(* The heartbeat task *)

HeartBeats ==
    /\ heart \in {"sleep", "send"} /\ "heart" \notin cancelled
    /\ heart' = IF heart = "sleep" THEN "send" ELSE "sleep"
    /\ UNCHANGED <<mockMode, diskVars, boot, phase, database, writing, loopVars, client,
                   cancelled>>

\* (Mutant: broadcast swallows the cancellation of a send.)
HeartCancelledSwallowed ==
    /\ "heart" \in cancelled
    /\ heart' = IF heart = "send" THEN "sleep" ELSE "done"
    /\ cancelled' = cancelled \ {"heart"}
    /\ UNCHANGED <<mockMode, diskVars, boot, phase, database, writing, loopVars, client>>

HeartCancelled ==
    /\ "heart" \in cancelled
    /\ heart' = "done"
    /\ cancelled' = cancelled \ {"heart"}
    /\ UNCHANGED <<mockMode, diskVars, boot, phase, database, writing, loopVars, client>>

-----------------------------------------------------------------------------
(* Stop *)

\* The server is told to stop: the finally block begins.
Stop ==
    /\ phase = "serving"
    /\ phase' = "stop_heart"
    /\ cancelled' = cancelled \cup {"heart"}
    /\ UNCHANGED <<mockMode, diskVars, boot, database, writing, loopVars, heart, client>>

\* The heartbeat is over: mock_service.stop() cancels its task, if that still
\* runs, or mqtt_client.stop() returns.
HeartAwaited ==
    /\ phase = "stop_heart" /\ heart = "done"
    /\ IF mockMode
       THEN /\ phase' = "stop_mock"
            /\ cancelled' = IF loop = "failed" THEN cancelled ELSE cancelled \cup {"mock"}
            /\ UNCHANGED client
       ELSE /\ phase' = "closing"
            /\ client' = "stopped"
            /\ UNCHANGED cancelled
    /\ UNCHANGED <<mockMode, diskVars, boot, database, writing, loopVars, heart>>

\* stop() awaits the task: an error the task ended with is raised here, and the
\* rest of the finally block is skipped.
MockAwaited ==
    /\ phase = "stop_mock" /\ loop \in {"failed", "done"}
    /\ phase' = IF loop = "done" THEN "closing" ELSE "exiting"
    /\ UNCHANGED <<mockMode, diskVars, boot, database, writing, loopVars, heart, client,
                   cancelled>>

\* close_database.  A session a task opens later gets a new connection from the
\* disposed engine, so it can still write.
CloseDatabase ==
    /\ phase = "closing"
    /\ database' = FALSE
    /\ phase' = "exiting"
    /\ UNCHANGED <<mockMode, diskVars, boot, writing, loopVars, heart, client, cancelled>>

\* No process any more: every task is gone, the disk stays.  It was killed, or
\* start-up raised (no finally block then), or the server has shut down.
Dies ==
    /\ phase # "down"
    /\ phase' = "down"
    /\ database' = FALSE
    /\ writing' = [w \in Writer |-> "idle"]
    /\ loop' = "none" /\ left' = {} /\ heart' = "none" /\ client' = "none"
    /\ cancelled' = {}
    /\ UNCHANGED <<mockMode, diskVars, boot, step, before, storeVars>>

-----------------------------------------------------------------------------

TaskStep ==
    \/ MockPayload \/ MockRowDone \/ MockSent \/ MockWakes
    \/ JobStarts \/ HeartBeats

StopStep ==
    \/ HeartCancelled \/ HeartAwaited \/ MockCancelled \/ MockAwaited \/ CloseDatabase

Next ==
    \/ Boot \/ CreateTables \/ EnsureFirstAdmin \/ MainRowDone
    \/ \E w \in Writer : Commit(w)
    \/ TaskStep \/ MockRowFails \/ JobEnds
    \/ Stop \/ StopStep \/ Dies

\* The event loop delivers a cancellation and resumes who waits for it.
Fairness == WF_vars(StopStep) /\ WF_vars(phase = "exiting" /\ Dies)

Spec == Init /\ [][Next]_vars /\ Fairness

-----------------------------------------------------------------------------

IsState(i, c) == rows[i].kind = "state_change" /\ rows[i].channel = c

\* Through kills at any step, failed starts, stops with tasks still running and
\* restarts, the rows of a process stay together in the journal, and they begin
\* with its one row "backend started": the mark a reader needs, because ...
BootsAreMarked ==
    \A i \in 1 .. Len(rows) :
        /\ rows[i].kind = "started" <=> (i = 1 \/ rows[i - 1].boot # rows[i].boot)
        /\ i > 1 => rows[i - 1].boot <= rows[i].boot

\* ... each process tells every channel's story from "inactive" again: a row's
\* previous state is the new state of the row before it of that channel in the
\* same process, even after a payload that could not be journalled to its end.
\* (Of the mock mode; BridgeRuntime shows what concurrent tasks do to it.)
RowsChainPerBoot ==
    \A i \in 1 .. Len(rows), c \in Channels :
        IsState(i, c) =>
            LET earlier == {j \in 1 .. i - 1 : IsState(j, c) /\ rows[j].boot = rows[i].boot}
            IN  rows[i].previous = IF earlier = {} THEN "inactive"
                                   ELSE rows[CHOOSE j \in earlier :
                                               \A k \in earlier : k <= j].status

\* What the journal says of a channel since the process started.
Told(c) ==
    LET mine == {j \in 1 .. Len(rows) : IsState(j, c) /\ rows[j].boot = boot}
    IN  IF mine = {} THEN "inactive"
        ELSE rows[CHOOSE j \in mine : \A k \in mine : k <= j].status

\* Between two payloads of a living mock task the journal, read from the last
\* start, tells the state of every channel; a crash between two rows of a payload
\* does not leave the next process with a different account.
JournalTellsStore ==
    loop \in {"payload", "sleep"} => \A c \in Channels : Told(c) = channels[c].status

\* Whatever start-up was killed or failed before, an application that serves has
\* an open database, its tables, exactly one first admin, and its start in the journal.
ServingIsReady ==
    phase = "serving" =>
        /\ database /\ tables /\ admins = 1
        /\ \E i \in 1 .. Len(rows) : rows[i] = [Event("started") EXCEPT !.boot = boot]

\* A shutdown ends, whatever its tasks are waiting for when it begins.
ShutdownCompletes == phase \in Shutdown ~> phase = "down"

=============================================================================
