# Verification of the UNIMAT monitoring bridge

The repository is a FastAPI process that receives telemetry of relay boards over
MQTT, decodes it into channel states, keeps those in memory, writes changes to a
database journal, and pushes both to browsers over two websockets. This directory
holds TLA+ models of it, TLC configurations, and proofs for TLAPS.

All paths below are under `src/`; line numbers are those of the modelled commit.

## 1. The system

### Parts, state and operations

| Part | State | Operations |
|---|---|---|
| Decoder (`app/services/decoder.py`, `app/utils/bits.py`) | signal map, QL6C descriptors (fixed at start) | `decode_board_payload`: topic to channels, bytes to bit triplets, triplets to status |
| State store (`state_store.py`) | channels by key, horn (`tifon`), module and metadata of the last payload | `apply_board_update`, `apply_act_update`, `get_snapshot` with module, page and summary aggregates |
| Journal (`journal.py`, `app/db`) | rows in the database | `append_event` (add, commit, refresh), `list_recent`, `list_for_export` |
| Broadcasters (`broadcaster.py`), one per websocket path | set of clients | `connect`, `disconnect`, `broadcast` (copy, send one by one, drop those that raised) |
| Bridge runtime (`bridge_runtime.py`) | last payload, MQTT flag, time of last data and of last realtime publish | `process_board_payload`, `process_act_payload`, `handle_connection_event`, `append_*_event`, `publish_tifon`, `heartbeat` |
| Connection status (`connection_status.py`) | none | five indicators from ages and counts, one diagnosis |
| Websocket handlers (`app/main.py`) | per connection | register, greet with a snapshot, loop on receive, unregister |
| MQTT client (`app/mqtt/client.py`) | connected flag shared with the network thread | callbacks schedule coroutines on the event loop; `publish_tifon` |
| Heartbeat loop, mock mode, lifecycle (`main.py`, `mock_mode.py`) | their tasks | periodic heartbeat, synthetic telemetry, start and stop |
| Authentication (`auth.py`, `auth_routes.py`, `deps.py`) | users in the database | login, token check, first administrator |

Every MQTT callback becomes a task of the one event loop
(`client.py:192-201`). The network thread of paho runs the callbacks, sets its own flag at
once and hands the rest over; the loop starts what it is handed in that order.
`process_board_payload` decodes, updates the store and
compares, then appends one journal row per changed channel, then broadcasts the
snapshot taken at the update, then broadcasts the rows. Nothing serialises tasks.

### Where tasks interleave

The program's asyncio locks are never held across an await, so they are never
contended and acquiring one does not suspend. A task really waits only

* in the commit and in the refresh of a journal row (either may raise; a refresh
  may raise although the row is stored),
* in each websocket send (may raise),
* in a websocket receive and in sleeps.

So `process_board_payload` runs alone from its start through
`_mark_data_exchange`; a websocket handler registers the client, takes the
snapshot and queues it without letting anybody in between; it then waits for the
greeting to leave and for its own row, and only after that is it in its `try`. Copying the
registry
and the first send of a broadcast are separate steps in the model, which is what
happens as soon as another client comes first in the set.

### What is hard

`PROJECT.json` lists the hazards with their lines. In short: the snapshot that is
broadcast was taken several waits earlier; the commits of two payloads
interleave; a failed commit ends a task that has already changed the store; the
registry changes while a broadcast works on a copy of it; the heartbeat marks a
time read before its sends; the diagnosis depends on the order of rules whose age
limits overlap; the board numbers two of its bytes in opposite directions; the
aggregates are merged from merged values; the connected flag lives on two threads;
a horn command comes back as its own echo; a handler can fail before its `try`; a
process can die between any two of its writes while the journal stays; rows are
stamped to the second, before their commit, and compared as text with microseconds.

### What makes each part correct

* Decoder: each wire of the board drives one bit of one channel.
* Store and aggregates: pages show the worst channel, the summary agrees with the counts.
* Runtime and broadcasters: displays end on the present state; nobody alive is
  dropped, and of the dead only a display whose handler ended before its `try` stays,
  until a send to it fails; every task ends; every change is shown.
* Journal: the rows account for the state; a client that listens and then fetches
  misses nothing; the feed follows the database.
* Connection status: an all-clear means live data; an alarm has a cause; silence never heals.
* MQTT client: the two flags converge; messages are handled in the session they came
  in; the horn shown is the horn commanded once nothing is under way.
* Lifecycle: a start recovers from any crash; a shutdown ends; the journal stays
  readable across processes.
* Journal over HTTP: a page is the newest of its window; consecutive exports
  tile, but for a row committed after the export of its second; a token has its row.

## 2. Modules

| Module | Models | State and actions against the code |
|---|---|---|
| `ChannelDecoder` | `decoder.py`, `bits.py`, pure | a payload is three bytes, a channel its three bits, status and fault flag (the fields the store compares) |
| `StateStore` | `state_store.py` | `channels`, `act`, `module`; one operator per method; `Changed` is the comparison at lines 60-66 |
| `StateSummary` | `_build_snapshot_locked` and `_merge_status` | aggregates as functions of the store |
| `BoardIngest` (with `MCBoardIngest`) | a telemetry message byte by byte through the decoder, the store and the aggregates | `Receive`; constants are the real signal and module maps; each deployment listens to one topic, chosen at the start |
| `BoardIngestProofs` | theorems about `BoardIngest`, with the decoder, the store and the aggregates it extends | |
| `BridgeRuntime` (with `MCBridgeRuntime`) | `bridge_runtime.py`, `journal.py`, `broadcaster.py`, the handlers of `main.py` | below |
| `BridgeRuntimeProofs` | theorems about `BridgeRuntime` | |
| `ConnectionStatus` | `connection_status.py`, pure | timestamps are replaced by ages |
| `ConnectionMonitor` | the bookkeeping in `bridge_runtime.py` and the heartbeat loop | `Tick`, the two halves of a heartbeat, one action per event that resets a mark |
| `ConnectionProofs` | theorems about `ConnectionMonitor` | |
| `MqttBridge` | `app/mqtt/client.py`, `publish_tifon` and `POST /api/act/tifon`, with broker, board and other panels as environment | below |
| `MqttBridgeProofs` | theorems about `MqttBridge` | |
| `WebSocketHub` | `websocket_state` in `main.py`, its rows and marks, `broadcaster.py`, the heartbeat's sends | one action per wait of the handler; `GreetingFails`, `RowFails` are its exits outside the `try`, `Leave` its `finally` |
| `WebSocketHubProofs` | theorems about `WebSocketHub` | |
| `Lifecycle` (with `MCLifecycle`) | `lifespan`, `session.py`, `ensure_first_admin`, `mock_mode.py`, process after process on one database | below |
| `LifecycleProofs` | theorems about `Lifecycle` | |
| `JournalApi` | login, logout, token check, `/api/journal`, `/api/journal/export`, `_parse_date`, `_build_query` | `Login`, `Logout`, `RuntimeAppends` begin an `append_event`; `Insert`, `Commit`, `Answer`, `Fails` are its waits; `GetJournal` is the page a request gets now; `ExportNext` an operator who exports piece by piece |
| `JournalApiProofs` | theorems about `JournalApi` | |
| `MonitorService` | no code: what the backend promises the people at the panels | `Change`, `Show`, `Record`, `Tell`, `Fetch` |
| `RuntimeRefinement`, `RuntimeRefinementProofs` | the mapping of `BridgeRuntime` to `MonitorService`, and its proof | |

`BridgeRuntime` extends `StateStore` and keeps, per task, where it waits (`pc`),
the rows it has to write (`todo`) and to broadcast (`untold`), its snapshot
(`snap`), the clients its broadcast has still to reach (`targets`) and those that
raised (`stale`). `journal` holds the committed rows. Per client there are the
connection (`link`), whether its handler has reached its `try` block (`guarded`), the
last snapshot shown (`view`), the journal messages received (`feed`) and what `GET
/api/journal` returned (`fetched`). Actions:

| Action | Code |
|---|---|
| `ProcessBoardPayload`, `ProcessActPayload`, `AppendEvent` | the entry points up to their first wait |
| `CommitEntry`, `RefreshEntry` | `journal.py:171` and `:172`, followed by whatever runs before the next wait (next row, or the copy of the registry) |
| `DatabaseFails` | either raises; the rest of the task is lost and `_log_task_error` logs it |
| `Send`, `EndBroadcast` | `broadcaster.py:35-46` |
| `Join`, `Enter`, `Crash` | `websocket_state` up to its first wait; the greeting and the row "client connected" done; or either raised, outside the `try` (`main.py:165-171`) |
| `Subscribe` | `websocket_journal`, which is in its `try` at once |
| `Leave` | the `try` block ends and its `finally` disconnects |
| `FetchJournal` | `GET /api/journal` |
| `Cut` | the peer goes away (environment) |

`clean` is a history variable: true from an update that starts while no other is
under way until two overlap or one fails. It guards nothing.

`MqttBridge` has the network thread as a small machine (`thread`, `inHand`,
`connected`), the queue to the loop (`inbox`), the session with packets in both
directions, and on the loop's side the runtime's flag, the horn and what the debug
pages remember:

| Action | Code |
|---|---|
| `OnConnect`, `Subscribe`, `Announce`, `OnRefused` | `_on_connect`: flag, subscriptions, event; with another code only the flag; the answer may also come while `stop()` waits |
| `OnDisconnect`, `Withdraw` | `_on_disconnect`: flag, event |
| `OnMessage`, `Dispatch` | `_on_message`: the raw text first, then parse, validate and hand over by topic, or drop |
| `RunTask` | the first stretch of the task the loop starts next |
| `PostTifon` | `publish_tifon` and the store update that follows an accepted packet |
| `Stop`, `ThreadEnds` | `stop()`: `loop_stop` blocks the loop until the thread has ended |
| `BrokerReceives`, `OtherPublishes`, `SessionEnds` | broker, board, other panels, network (environment) |

`Lifecycle` has a disk (`tables`, `admins`, `rows`) that outlives the process and a
process that is killed (`Dies`) at any step, or fails in start-up, or shuts down:

| Action | Code |
|---|---|
| `Boot`, `CreateTables`, `EnsureFirstAdmin`, `MainRowDone` | `lifespan` up to `yield` |
| `MockPayload`, `MockRowDone`, `MockSent`, `MockWakes`, `MockRowFails`, `MockCancelled` | the loop of `mock_mode.py` and the processing it awaits |
| `Commit` | the commit in `append_event`, for whoever awaits it |
| `JobStarts`, `JobEnds` | tasks of the MQTT client; they run on after `stop()` |
| `HeartBeats`, `HeartCancelled` | the heartbeat task |
| `Stop`, `HeartAwaited`, `MockAwaited`, `CloseDatabase` | the `finally` block, await by await |

How they compose: `StateStore` and `ChannelDecoder` are shared by `BoardIngest`,
`BridgeRuntime` and `Lifecycle`. `BridgeRuntime` takes tasks as they start;
`MqttBridge` says in which order and under which flag they do. `WebSocketHub` opens
up the handler's waits, of which `Enter` and `Crash` are the outcome there, with its rows
and the marks of the heartbeat. `ConnectionMonitor` relies on
`MessagesArriveConnected` (data only arrives while the broker counts as connected).

The snapshot broadcast is read by the browsers in the order sent, so `view` is
the content of the last message. The connection block in the same message is the
subject of `ConnectionMonitor`, not of `BridgeRuntime`.

## 3. What is checked

Passing runs:

| Run | Instance | States | Properties |
|---|---|---|---|
| `runtime_views` | 2 telemetry tasks on 1 lamp channel (off or on), 1 horn task, 1 system event, 1 display, database may fail | 2.18 million | `TypeOK`, `LoneUpdateHealsViews` |
| `runtime_journal` | 2 telemetry tasks on 2 channels (normal or broken), 1 journal client | 320 thousand | `JournalAccountsForState`, `NoJournalGap`, `FeedFollowsJournal`, `ImplementsService` |
| `runtime_liveness` | 1 telemetry task that switches a lamp on, 1 horn task, 2 displays, database may fail | 122 thousand | `RegistryMatchesLinks`, `EveryTaskEnds`, `EveryUpdateIsShown`, `ImplementsService` |
| `board_ingest` | real maps, 3 topics, the 4 mock payloads and all payloads one wire away | 297 | `TypeOK`, `EveryWireHasItsBit`, `PageShowsWorstChannel`, `SummaryMatchesCounts` |
| `connection` | clock step 5 s, heartbeat 15 s, sends that hang up to 20 s | 30 thousand | `TypeOK`, `AllClearMeansLive`, `InterfaceAlarmMeansStall`, `OnlyFourDiagnoses`, `SilenceNeverHeals` |
| `mqtt_bridge` | 2 different telemetry messages, one of junk, both horn commands, 1 packet each way, 3 tasks waiting | 625 thousand | `TypeOK`, `FlagsConverge`, `MessagesArriveConnected`, `HornAgreesWhenQuiet`, `DebugPagesAgree`, `FlagFollowsSession`, `StopCompletes` |
| `websocket_hub` | 2 connections | 11 thousand | `TypeOK`, `RegistryServesTheLiving`, `CrashedAreSwept`, `AlarmIsCorrected` |
| `lifecycle` | 3 processes, 2 channels, either deployment | 388 thousand | `TypeOK`, `BootsAreMarked`, `RowsChainPerBoot`, `JournalTellsStore`, `ServingIsReady`, `ShutdownCompletes` |
| `journal_api` | 1 user and the runtime, 3 rows, 2 days of 2 s, limit 2 | 186 thousand | `TypeOK`, `PagesAreNewest`, `ExportsTile`, `TokensAreJournalled` |

What they say:

* `RegistryMatchesLinks`: a broadcast that collected stale clients long ago drops
  no live one, and a client whose handler ended in its `try` never reappears. One whose
  handler ended before it stays registered, dead (`Crash`); such a client is a display,
  never a journal page. The liveness of a peer the server has not noticed is left open
  on purpose.
* `LoneUpdateHealsViews`: races and failures may leave stale displays (see the
  findings), but the next update that starts alone and ends repairs all of them.
  This is what the program really offers instead of "displays show the state".
* `JournalAccountsForState`: seen as edges from previous to new status, the rows of
  a channel form a path from "inactive" to its present status, in whatever order
  they were committed.
* `NoJournalGap`, `FeedFollowsJournal`: subscribe first and fetch second loses no
  row, except those of a task that died before telling; the feed never shows a row
  the database lacks, nor one twice, nor the rows of one payload out of order.
* `EveryTaskEnds`, `EveryUpdateIsShown`: while another update is broadcast and another
  display joins, crashes, breaks or leaves in the middle. A send that raised and was not
  caught would keep the update from the displays after it. The broadcasts of rows end in
  this run as well, but without a journal client to receive them.
* `EveryWireHasItsBit`: flipping n wires changes n bits of the channels shown. For
  the QL6C board these are all 24 wires; for another topic those with an entry.
* `OnlyFourDiagnoses`: "no data from Orange", "server unavailable" and "data stale"
  cannot be diagnosed by the running program.
* `InterfaceAlarmMeansStall`: marking the time before the sends never raises an
  alarm by itself; it takes more than 15 s of stalled sends in at most two heartbeats.
* `ImplementsService`: the runtime implements `MonitorService`. The mapping keeps the
  store's snapshot as the state, the initial snapshot and those taken by updates as
  the past, `view` as what displays show, `journal`, `feed` and `fetched` as the log,
  what was heard and what was read. A display shows only whole states that were
  reported, never a mixture; the journal only grows (`README.md:10` speaks of the last
  500, see below); no row is heard twice or early.
* `FlagsConverge`, `FlagFollowsSession`: events wait, so the flags differ at times, but
  what waits always brings the runtime's flag to the thread's.
* `HornAgreesWhenQuiet`: own commands, echoes and other panels may make the shown horn
  go back and forth, but it ends where the board was told, unless a QoS 0 packet was lost.
* `DebugPagesAgree`: raw text and telemetry of a message are two tasks; with two different
  messages under way, neither page may end on one and the other page on the other.
* `StopCompletes`: the thread owes the blocked loop an event and does not wait for it.
* `RegistryServesTheLiving`, `CrashedAreSwept`: a handler that fails before its `try`
  leaves its connection in the registry, counted as a listener, until a heartbeat fails
  on it. `AlarmIsCorrected`: the first client is greeted with an interface alarm, since
  nothing was published yet (`bridge_runtime.py:182`); a heartbeat takes it back.
* `BootsAreMarked`, `RowsChainPerBoot`, `JournalTellsStore`: each process tells every
  channel's story from "inactive" again, and "backend started" is where it begins.
* `ExportsTile`, `PagesAreNewest`: the text comparison of SQLite
  makes the lower bound of a window exclusive by the second, which is what lets
  consecutive exports share no row. A row is stamped when it is inserted and seen when it
  is committed, so one that was under way while its second was exported is in no export;
  `ExportsTile` says that this is the only way to be missed (`passed` records what was
  exported when a row was committed), and that an export misses one row at most.
    There is no offset; a row older than a page is reached by a window of its second,
  unless more than 1000 rows share it.

Runs that find a disagreement between the code and what the repository says:

| Run | Property | What happens |
|---|---|---|
| `stale_view` | `SettledViewsAgree` | a horn command overtakes a payload that waits for its commits; the older snapshot is sent last and stays |
| `silent_change` | `ChangesAreAnnounced` | the row of a change cannot be written; the displays are never told, and the same payload again is no change |
| `day_filter` | `DayFilterCoversDay` | `date_to=2024-05-01` means its midnight: `fromisoformat` reads plain dates, so the end-of-day branch (`routes.py:150-157`) is dead |

Other differences and surprises, seen while modelling:

* An operator who exports window after window never gets a row that was stamped in an
  exported second and committed after that export (`routes.py:107`, `journal.py:169-171`).
  No doc promises otherwise, so no run expects it to fail; `ExportsTile` has the case.
* A lamp switched on gives a `state_change` row "normal -> normal", since the store
  compares bits too (`state_store.py:60-66`); `README.md:10` speaks of changes of state.
* A shutdown leaves the database open when a failed commit had ended the mock loop:
  `stop()` raises its error again (`MockAwaited`). Tasks of the MQTT client may write
  after `close_database`, since a disposed engine reconnects.
* `JOURNAL_LIMIT` (`README.md:10` and `:50`) is read by no code; the journal only grows.
* Late data is always diagnosed as an unavailable board, because that rule comes first
  and shares the age limit; the test at `tests/test_connection_status.py:156-163` gets
  the other diagnosis from inputs the runtime cannot produce (`OnlyFourDiagnoses`).
* `README.md:90` lists `journal_append` under
  `/ws/state`; it goes to `/ws/journal` only
  (`bridge_runtime.py:353`, `main.py:48`).

### Bounds, and why they are enough

* Tasks: an anomaly needs one update waiting while another runs, and one more to repair
  it; two telemetry tasks plus a horn command give every pairwise overlap and three in a
  row. A task stands for one message, so a run covers at most three updates.
* Clients: `LoneUpdateHealsViews` speaks of one display at a time, so `runtime_views` has
  one and takes the tasks instead. `runtime_liveness` has two, so that one fails, crashes
  or leaves while the broadcasts are at the other. `runtime_journal` has a journal
  client, which has its own registry and broadcasts.
* Channels: a third channel (`QL6D`) exists and is never reported, as on a
    deployment whose topic lacks it. `runtime_views` and `runtime_liveness` need only one
  reported channel,
  because views are compared whole; `runtime_journal` needs two, to have batches of
  rows that interleave.
* Samples: off/on differ in bits only, off/break in status too. In `runtime_liveness` the
  one payload has the lamp on, which changes a channel that was inactive.
* A journal client fetches once (`FetchJournal`), as when the page loads. The limit
  of the request is above the number of rows.
* Clock: observed every 5 s. The limits 10, 30 and 90 are hit exactly and passed;
  what happens between two observations (age 11, say) is covered by the proofs,
  which hold for every step. Ages stop growing at 95, above every limit.
* `MaxStall` 20 s is long enough for the alarm to be raised; `MaxClients` is 1 because
  the indicators only ask whether there is one.
* MQTT: a callback starts only when fewer than 3 tasks wait (a running one may add two),
  and one packet is under way in each direction; the two telemetry messages differ, so that
  the debug pages can be on different ones. A command, its echo, a command of
  another panel and a broken session already overlap in every order.
* Hub: two clients, so that one fails while a heartbeat is at the other.
* Lifecycle: three processes, so that a start that failed half-way is followed by another
  failure and by a good one; 11 rows let the mock loop go round its payloads twice; one
  channel of those that break and one of those that short.
* Journal: rows meet in seconds, exports meet in seconds, days meet in seconds: four
    seconds in two days and three rows have every such case, rows committed too late for
  their export among them. `limit` is 1
  to 1000 in the code; windows hold none to three rows, so 2 is above and below.
* Symmetry: telemetry tasks are interchangeable in the runs that check safety only
  (`runtime_journal` checks the refinement with it, which is safety too: the service has
  no fairness); the liveness run uses none.
* `CHECK_DEADLOCK FALSE` in the runtime runs: all messages done and all clients gone
  is a legitimate end. Likewise an MQTT client that was
  stopped, the last process, and a full journal. The other models always have a next step.

### Fairness

`BridgeRuntime` assumes weak fairness of each task's own steps: a commit, a
refresh, a send, or the end of a broadcast. The event loop resumes every task
whose wait is over; the database answers or raises (the failure is an action that
also ends the wait); the keepalive of the websocket server makes a send to a stuck
peer raise in the end. No message, client, failure or disconnect is assumed to
happen. `ConnectionMonitor` and `JournalApi` are checked for safety only.

`MqttBridge`: the network thread goes on, the running loop starts what waits, and a
session that `disconnect()` was called on ends; brokers and peers owe nothing.
`WebSocketHub`: a handler goes on once its wait is over (a greeting is sent or raises,
a peer that left is noticed), and the heartbeat loop never stops, since its sends
raise at worst and `broadcast` catches that. `Lifecycle`: the loop delivers a
cancellation and resumes whoever awaits the cancelled task; a process that has
finished its `finally` block exits. No start, crash or payload is assumed.

## 4. What is proved

Every invariant and action property that a passing run checks, and the refinement, is
also a theorem; what is left to TLC alone is liveness. All proofs hold for every value
of the constants, the bounds of the runs included, under the named assumptions:

* kinds of tasks are disjoint, so are the two kinds of clients; mapped channels are
  channels; samples are triplets; channels are numbered from 1;
* `WireAssumption`: telemetry, horn commands and junk differ, and differ from "subscribe";
* `MonitorAssumption`, `ApiAssumption`, `LifecycleBounds`, `BoundsAssumption`: periods
  are positive, bounds are naturals, limits are those the route accepts, the runtime is no user;
* `LifecycleChannels`: the channels of the mock telemetry are those of the QL6C board;
* `IngestAssumption`: finitely many channels, with natural indexes; payloads are bytes;
* `WiringAssumption`: what `signal_map.json` says and the code relies on: a topic carries
  one module, no two of its channels share an index, straight indexes are below 8, and
  the topic of the QL6C board has its eight descriptors (built in `decoder.py:799-846`)
  and nothing else.

TLC evaluates each of them on the instance of a run. Each inductive invariant was checked
by TLC on the runs' instances before it was proved.

`BridgeRuntimeProofs`

* `TypeCorrect`: `TypeOK`. Lemmas: decoding yields a channel state, a payload keeps
  the store typed, its rows are entries, a log that grows by one.
* `RegistryCorrect`: `RegistryMatchesLinks`. It is not inductive: `EndBroadcast`
  removes `stale[p]`, so one must know that everybody in it is gone for good, and a
  client gets into it from `targets`, so nobody in `targets` may still be outside.
  `RegistryInv` adds both, and that a journal client's handler is in its `try` whenever it
  runs, which is why only displays crash.
* `ViewsHeal`: `LoneUpdateHealsViews`. `HealInv` says what holds before the update
  has ended: while `clean`, at most one update is under way, it carries the present
  state, and every open display shows that state or is still to be reached.
  `RegistryInv` is needed where the registry is copied (an open client is in the
  copy), and `PlacesInv` to know that only updates publish and that horn tasks
  never wait for the database. `LoneStart` and `HealKept` carry the two shapes of step.
* `FeedIsJournal`: `FeedFollowsJournal`. `RowsInv` says where rows are: a task holds only
  its own, one per channel; those to write are not in the journal, those to tell are.
  `FeedInv` adds that a client has been sent at most the next row of what a task has
  still to tell, and only if the broadcast in progress is done with it.
* `ListenThenFetch`: `NoJournalGap`, from `RowsInv` and `RegistryInv`: whenever a broadcast
  starts, an open client is in the registry it copies.
* `JournalAccounts`: `JournalAccountsForState`. `AccountsInv` is the property with the
  finiteness its counts need. A payload adds to the rows about a channel one row from
  the status the store had to the one it has now, which keeps the balance
  (`BalancedAdd`); a commit only moves a row from the task to the journal. That the row
  is a new one comes from `RowsInv` and `IdleInv`: a task that has not begun has none.

`RuntimeRefinementProofs`

* `Implements`: `Spec => ImplementsService`. `SnapInv` says that the present state is in
  the past and that an update has its snapshot as long as it has something to show; with
  `RowsInv` and `FeedInv` every step is one step of the service or none.

`BoardIngestProofs`, for any map and all 2^24 payloads (the run takes those near the mock's)

* `TypeCorrect`: `TypeOK`, from the decoder's lemmas: a bit of a byte is a bit, both
  wirings give triplets, a triplet decodes to a channel state. With `TripletsType` it is
  why `BridgeRuntime` may take a reading to be any triplets.
* `PagesAreHonest`: `PageShowsWorstChannel`. `MergeRanks` states `_merge_status` as a
  ranking; merging ranks twice loses nothing (`ModuleShowsWorst`, then the page).
* `SummaryIsHonest`: `SummaryMatchesCounts`. It is not inductive: another module may have
  had channels reported. `OneModuleLives` says that only channels of the topic, and so
  of the module last looked at, are ever reported. It uses `WiringAssumption`; with two
  modules on one topic the property is false.
* `WiresAreFaithful`: `EveryWireHasItsBit`, an action property. `WireBijects` gives the
  bijection from (channel, part) to wires, reversed for two bytes and direct for one;
  `WireCarries` says that decoding reads along it; `ShowsPayload` is the invariant that
  the channels show the last payload; differing along a bijection keeps the number
  of differences (`SameDistance`).

`MqttBridgeProofs`, for any payloads and bounds

* `TypeCorrect`; `FlagsAgree` and `MessagesConnected`. Both follow from `FlagInv`:
  `SessionInv` ties the thread's flag to the session and to the callback it is in;
  before every message waiting in the queue the flag will be up (`EachArrivesConnected`),
  which needs that the last news in front of it is "connected" (`FlagAfter`).
* `HornAgrees`: `HornAgreesWhenQuiet`. `HornInv` says it before things are quiet: while no
  packet was missed and no command is on its way to the broker, the horn the store will
  have, when all that is under way has been run, is the board's. `Coming` reads that off
  the incoming packets, the thread's hands, the queue and the store, the last word first.
* `PagesAgree`: `DebugPagesAgree`. `DebugInv` keeps the two tasks of a telemetry message
  next to each other, through the moment when the thread has handed over only the first.

`WebSocketHubProofs`

* `TypeCorrect`; `LivingAreServed`: `RegistryServesTheLiving`, from `HubInv`, which adds that
  a heartbeat only has clients to reach that had connected and only drops those gone.

`LifecycleProofs`, for any number of starts and any channels of the board

* `TypeCorrect`, with `PhaseInv`: which activities exist in which phase.
* `Ready` and `StartsAreMarked`: `ServingIsReady` and `BootsAreMarked`, from `MarkInv`: a
  process writes nothing before its mark, which it has in all phases after.
* `StoreIsTold` and `RowsChain`: `JournalTellsStore` and `RowsChainPerBoot`. `StoryInv`
  says what the journal tells while rows are being written: of a channel that has no row
  yet, the status before the payload. A row's previous status is then what was told.

`JournalApiProofs`, for any users, limits, days and bounds

* `TypeCorrect`, `Journalled` (`TokensAreJournalled`), `Tile` (`ExportsTile`), `Newest`
  (`PagesAreNewest`). `WriteInv` follows a token from before its row is stamped until
  the row is stored; `StampInv`: one writer at a time is between INSERT and COMMIT, so
  stamps grow with ids; `ExportInv`: an export ends in a second that is over, so what had
  been exported when a row was committed ends before the next row is stamped, and a row
  is taken by the export that passes its stamp unless it was late. For a page, the order
    by stamp and id is then the order of ids (`NewerIsHigher`), and `DownwardsExists`
  gives the list that `NewestFirst` chooses.

`ConnectionProofs`

* `TypeCorrect`; `AllClear`; `FourDiagnoses` (from `BoardIsStrictest`: the board
  indicator is at least as bad as the two built from the same age);
  `AlarmMeansStall`, whose invariant bounds the publish age by the time since the last
  heartbeat began plus the stalls, which needs `HeartbeatSec` and `stall`;
  `SilenceIsNoCure`, an action property: ages only grow and no indicator improves
  with age.

Where an argument needs a first or a last element (`FirstExists`, `LastExists`,
`DownwardsExists`), it takes the least of a set of naturals, by the library's theorems on
well-founded relations, since induction over data is not available.

Only model-checked, because fairness and ENABLED are outside the prover: `EveryTaskEnds`,
`EveryUpdateIsShown`, `FlagFollowsSession`, `StopCompletes`, `CrashedAreSwept`,
`AlarmIsCorrected`, `ShutdownCompletes`, and the absence of deadlock. The three runs that
expect a violation need no proof: their counterexample is one.

## 5. Not modelled

Texts of events and diagnoses, the debug report, the text of the export, configuration
parsing and pydantic validation, password hashing and the signing of tokens (a token is
a record of user and expiry). paho, the broker, SQLite and asyncio are external and
modelled from their use. The journal is read as on the default SQLite; another database
would compare timestamps, not text. The wall clock is assumed to go forward only:
`_age_seconds` clamps negative ages to 0 (`connection_status.py:314`), so after a step
back old data looks fresh. An entry of the signal map for QL6C outside "6" .. "D"
(0 .. 3 in the present file) is never decoded; the model leaves it out as the decoder
does. `_state_ws_clients` is written and read by nobody.

## 6. Plan

Done: all modules of section 2 and the proofs of section 4. Next, in this order:

1. A clock that is set back in `ConnectionMonitor`, and which diagnoses survive it. It is the
   one hazard in `PROJECT.json` whose property is missing for want of a model; for the other
   three without one (the greeting, the growing table, the lost command) the note there
   says why there is nothing to check.
2. An abstract specification of the MQTT side (a horn that is what was last commanded, a
   flag that follows the session), which `MqttBridge` implements by what `Coming` and
   `FlagAfter` compute, so that `BridgeRuntime` could be composed with it.
3. The safety half of the liveness properties, as measures that each step of a task, of a
   handler or of a shutdown decreases.
