# UrbanPulse IoT in TLA+

TLA+ models of the pipelines in this repository, the TLC runs that check them on
small instances, and machine-checked proofs about them. Paths below are
relative to the repository root.

## The system

Two pipelines carry records from files to browsers:

    Agent --MQTT--> Edge --MQTT--> Hub --HTTP--> Store API --WebSocket--> Map UI
    Sensors Agent --MQTT--> Sensors Edge --MQTT--> Sensors Hub --HTTP--> Store API --WebSocket--> Sensors UI

| Component | State it keeps | Operations | What makes it correct |
|---|---|---|---|
| Hub (`src/hub`) | asyncio queue, memory buffer, flush lock, `_running`; Redis list `hub:processed_agent_data` | `ingest`, MQTT callback, processor loop, periodic flush, `flush`, `stop`; gateway `save_batch` | no record is lost except with the memory of a dead process; order; duplicates only after faults; `stop()` ends |
| Sensors Hub (`src/sensors_hub`) | the same, under another key | the same | the same, up to the browser |
| Store API: POST and channels (`src/api/routes`, `ws_manager.py`) | table rows, the set of active WebSockets, counters | POST handlers, `broadcast`, the WebSocket endpoints | batches are atomic, 201 only for stored batches, subscribers see each stored record once and in order as long as the set of connections stays as it is |
| Store API: GET, PUT, DELETE (`src/repository`) | table rows | one transaction per request | what was answered took place, nothing deleted comes back, nobody waits for ever |
| Metrics and anomaly detector (`src/api/metrics.py`, `network_analytics.py`) | Prometheus counters, three EWMA series | middleware, `_tick`, start and stop in the lifespan | every request in one window; events are outliers; nothing after the engine is disposed of |
| Edge (`src/edge`) | `_connected`, two MQTT clients | connect, `on_message`, classification, stop | order, the worse axis decides, no thread left behind unless stopping is cut short |
| Sensors Edge (`src/sensors_edge`) | one MQTT client | `_on_message`, anomaly rules | flags follow the rules and keep the device's flags |
| Agent (`src/agent`) | up to three CSV readers | `read`, `_next_row`, `publish_loop` | rows are paired by position; nothing is left out at the end, and a damaged row costs no more than its batch |
| Sensors Agent (`src/sensors_agent`) | heads of four CSV files | `iter_readings`, `iter_time_slices`, `publish_stream` | the merge is sorted and complete; slices partition it by timestamp |
| Map UI, Sensors UI (`src/ui`) | points, latest readings | history request, WebSocket, reconnect, polling | what was sent to a connected page is shown; in the end the newest reading is shown |
| Generator (`src/synthetic`) | none at run time | payload factories, CSV files | files are sorted; most planned events set off their rule whatever the noise, and nothing sets off a rule before the first of them |
| Models, configuration, deployment | none | | constants of the models |

How they interact: the MQTT client thread of a hub hands records to its event
loop with `call_soon_threadsafe`; inside a hub three tasks share the buffer under
one `asyncio.Lock`; the hub and the Store talk through HTTP requests that may
time out after being served; the Store's handlers share the set of connections
with the WebSocket endpoints across their awaits; the browsers combine a REST
request with a channel.

The hard behaviours are: deletions by position after an await; exceptions,
cancellation and crashes between the two halves of a move (Redis and buffer,
Store and Redis); retries of requests that did succeed; shutdown while tasks are
anywhere; iteration over a set that other coroutines change; an error after a
commit; transactions that read a row and write it in another statement; readers
that run ahead of what is published; answers that overtake one another.
`PROJECT.json` lists each at its line with the properties that cover it.

## Modules

| Module | Models |
|---|---|
| `DeliveryContract` | what a store-and-forward stage promises about accepted records, without batches, locks or requests |
| `Hub` | `HubService` with its gateway, Redis and the Store as the gateway sees it; implements `DeliveryContract` |
| `StoreContract` | what a POST promises to the hub and to the subscribers |
| `StorePost` | the POST handlers, `ConnectionManager` and the WebSocket endpoints; implements `StoreContract` |
| `SensorsPipeline` | the sensors hub (`Hub`, extended) posting to a Store that broadcasts; as a whole implements `DeliveryContract` with the browser as the destination |
| `StoreCrud` | GET, PUT and DELETE as concurrent transactions |
| `FileDatasource` | the agent |
| `MqttSubscriber` | a paho client in `loop_forever`, shared by both edges |
| `RoadEdge` | the edge: its two adapters, the classification, `main()` |
| `RoadAcquisition` | agent, broker and edge together |
| `CsvSource` | the sensors agent: merge, time slices, publication |
| `AnomalyRules`, `SensorsEdge` | `detect_anomaly_flags` with the validators of the models; the process around it |
| `SensorsAcquisition` | the sensors agent and the sensors edge beside each other |
| `SyntheticData`, `SyntheticPayloads`, `SyntheticSensors` | the generator: the order of its rows; its payload factories with intervals for the random values; the same under names of its own, for the proofs |
| `NetworkAnomaly`, `EwmaSeries`, `LatencyQuantile` | the anomaly detector: the task beside requests and shutdown; one series in exact numbers; the quantile of a histogram |
| `NetworkAnalytics` | the three levels of the detector in one specification |
| `Sums` | sums, squares and powers as recursive functions |
| `RoadUi`, `SensorsUi` | the map page beside the Store (`StorePost`, extended); the sensors' tabs |
| `HubProofs`, `SensorsPipelineProofs`, `StorePostProofs`, `StoreCrudProofs`, `RoadAcquisitionProofs`, `SensorsAcquisitionProofs`, `NetworkAnalyticsProofs`, `RoadUiProofs` | proofs about the module they are named after |
| `MCHub`, `MCStorePost`, `MCSensorsPipeline`, `MCStoreCrud`, `MCRoad`, `MCSensors`, `MCNetworkAnalytics`, `MCPages`, `MCSyntheticPayloads` | small instances for TLC, and claims of the documentation the code does not keep |

### `Hub` and the code

One step of the model is the code between two awaits of one task; `pc[t]` says
at which await each of the three tasks is:

| `pc` | await |
|---|---|
| `get`, `sleep` | `queue.get()` of the processor; `asyncio.sleep` of the timer |
| `lock` | acquiring `_flush_lock`, in the order of arrival |
| `lrange`, `ltrim`, `rpush` | a Redis command |
| `postBacklog`, `postBuffer` | `gateway.save_batch`, called from `_flush_redis_backlog` or `_flush_memory_buffer` |
| `idle`, `join`, `cancelTimer`, `cancelProc`, `done` | `stop()` before it begins, in `queue.join()`, in the two `_cancel_task`, and after its end |
| `dead`, `down` | the task has been cancelled; the process does not run |

A request is split into its effect (`StoreCommits`, `RedisApplies`) and the return
to the task (`PostReturns`, `RedisReturns`), so that a timeout, a lost answer, a
cancellation or a crash falls between them. `StoreRefuses` is every answer but
201 and every `httpx.HTTPError` without an effect; `PostTimesOut` and `ReplyLost`
are failures after which the rows exist, or may come to exist (`LateCommit`).
`RedisRaises` is an exception of a Redis command, executed or not. `lrange`
changes nothing and is one step. `GoDown` is the end of the process, by a
crash, by an exception out of `stop()` or by its return; docker-compose restarts
it (`Restart`). `glitches` counts the faults after which the hub and a server
may disagree, including requests given up by a cancellation.

A record is the number it was accepted under. Its JSON form, MQTT connecting, and messages that
do not parse (logged and dropped before the hub accepts them) are left out, and
so is a start that fails before Redis is connected.

`CancelTask` is one step: after `task.cancel()` the task's only step is the delivery
of the cancellation (`Active` keeps it from doing anything else), and the
`async with` and `finally` blocks it runs do not wait.

### `StorePost` and the code

`rc[r]` is where the handler of request `r` waits (`insert` for `flush`, `commit`,
`send` for `send_text`), `it[r]` holds the locals of its two loops: the record `k`,
the connection being sent to, the connections that the iteration still has
ahead, the size of the set when the iteration began, and `dead`. The set of
active connections is live: `Register` and `Disconnected` change it during the
awaits of `broadcast`. CPython raises `RuntimeError` when an iterator of a set
finds that the size has changed (`Advance`). With the size unchanged, it goes on at
its place in the hash table, and what it finds there is a nondeterministic choice
(`Ahead`) once the table was changed under it (`moved`): by a new connection, which
may also rebuild the table, or by the end of another broadcast. There
`self._active -= dead` (`ws_manager.py:33`) runs with nothing to remove, too, and
CPython then rebuilds a table in which removed connections have left enough holes. How
many are enough is left open (`HasHoles`: at least one). The module is the sensors
channel; the road channel has no counter.

A client is one connection. A client that leaves stays in the set until its
endpoint sees `WebSocketDisconnect`; another exception ends the endpoint
without a discard (`EndpointRaises`). A send to a client that is gone raises or
is lost unnoticed. A `send_text` that returns without suspending is the same
step with nothing in between, so the model has all of its behaviours. An empty
batch is answered without a step of interest and is left out
(`StorePostAssumption`).

### The other modules and the code

`SensorsPipeline` takes every step of `Hub` through `HubStep`, except the one
that says "committed, but answered with an error" without a reason
(`ReplyLost`): here the handler goes on to `broadcast()` after the commit, and fails
when the set of connections has changed size. A task waits until its handler has
answered; a request that timed out goes on for nobody. `shown` are the records
sent to the Viewer, a browser that stays; `excused` are those during whose broadcast
another browser connected, or the end of another broadcast rebuilt the table of the
set (`HasHoles`): then the iteration may leave the Viewer out without an error. Both need visitors,
and only those records are excused.

`StoreCrud` has one step per statement: the SELECT of `get_by_id`, the UPDATE or
DELETE of `flush()`, the commit of `get_session`. `versions[i]` are the committed
versions of a row, `holder[i]` is the transaction that has its lock (READ
COMMITTED: a writer waits for it and then sees the committed row). SQLAlchemy's
unit of work sends only the columns that differ from what it has read
(`Changed`), raises `StaleDataError` when an UPDATE matches no row, and only warns
when a DELETE does not. A commit that raises may have taken place (`Fails`).

`FileDatasource` has a row number per reader, and `bad[f]` are the rows of a file that cannot
be parsed. `ReadRecord` is one pass of the loop of `read()`; at the end of a file, accelerometer and
gps are read together and the temperature after them (`EndOfFile`), which is why the readers may
end apart. A row with a missing or malformed cell raises `ValueError` or `TypeError` out of `read()` and
`publish_loop` (`Damaged`, `ReadRaises`), as does an empty file with looping.
`RoadAcquisition` gives the agent's messages to the broker, which may not have
them when `publish()` has an error, and may have lost them when it has none. A message
carries the number of its record and its rows for the properties only.

`MqttSubscriber` is the part of paho that both edges use: `loop_forever` dials again,
sessions are clean, QoS is 0, so the subscription and what waits in the broker end
with the connection. `RoadEdge` adds `_on_connect`, `on_message` with its three ways to drop a
message, the hub's client with a network thread of its own, and `main()`, whose
`finally` stops what had been started. Connecting to the hub is two steps: `loop_start()` starts the
thread (`HubConnect`), and then `_connected` is set (`HubConnected`). An interrupt may come
anywhere, also between the two and inside `stop()` (`StopInterrupted`); `cut` says that it came there.

`CsvSource`: `_next_row` reads one row ahead of each file, so a damaged row raises
when it is read ahead, before the slice in front of it is out (`Take`, `pc = "failed"`).
`min()` over the heads takes the first file of the smallest time (`IsMin`). All messages
of a slice get one new timestamp, `Stamp`: the clock, which counts in ticks of a fraction of a
second, cut to whole seconds. `sensors_delay` may be any number of ticks. The clock is assumed not to be set
back while the agent runs.

`SyntheticPayloads` keeps for every drifting value the least and the greatest that the
noise can lead to (each factory step is monotone in the values it starts from), in
thousandths; the steps of events and the phases are drawn from `Picks` values spread
over their ranges, the ends included. `reported` are the flags that both ends get.

`EwmaSeries` avoids fractions: with alpha 1/5 the mean after n values is a multiple of
1/5^(n-1), and comparisons are made on the multiples. `LatencyQuantile` is
`_histogram_quantile` with integer bounds and the quantile as a fraction; the cumulative counts of one label set
are what the Prometheus client keeps. `NetworkAnomaly` leaves open which values
are anomalous and keeps the awaits: after each event the requests go on and a
cancellation may come.

`RoadUi` extends `StorePost`: `POST /processed_agent_data/` and `/ws` are the same code as
`POST /sensor_readings/` and `/ws/sensors`. It adds `loadHistory().then(connectWS)` and the retry that
does not load again. Each WebSocket the page opens is a connection of its own among those of other
clients, and every step of the Store is one of `StorePost`, with the handlers interleaved, broadcasts cut off and
sets that change. `stirred` are the requests under whose broadcasts the set was changed.

`SensorsUi` has the polls that are not waited for. Its Store is reduced to rows, the newest-first page of the
filtered list, and broadcasts that reach the page in any order, and each of them twice, once or not
at all.

## Runs

| Run | Instance | Distinct states | Shows |
|---|---|---|---|
| `hub` | batches of 2, 4 records, 2 faults, 2 starts | 986,696 | all safety properties of the hub, and that it implements `DeliveryContract` |
| `hub_live` | 3 records, 1 fault, 2 starts | 64,917 | `stop()` ends, whatever the Store answers; every record is stored once the Store recovers |
| `store_post` | 2 POSTs of 2 records, 2 connections, 1 crash | 363,889 | subscribers are served while the set stays as it is, the counter stays between table and channel, the handler implements `StoreContract`, every POST is answered |
| `store_problems` | 2 POSTs, 2 connections, no database failure | | a claim of the documentation that the code does not keep |
| `pipeline` | 2 records, 3 faults, 2 starts, two visitors beside the Viewer, which may have come and gone before | 520,970 | the hub with the Store's broadcast behind it keeps the contract towards the browser; every record is shown once connections come to rest |
| `crud` | 3 requests for one row of 2 columns | 129,294 | locks, lost updates, deletes, and that every request is answered |
| `crud_torn` | 2 PUTs, no error | | a claim of the documentation that the code does not keep |
| `road` | 7 shapes of files, two with damaged rows, batches of 2, 1 loss | 1,792,908 | agent, broker and edge: pairing of files, damaged rows, order, classification, threads under interrupts, subscription |
| `sensors` | 2 files of up to 3 rows, one row damaged; delays of half a second and a second; readings on both sides of every threshold | 266,350 | merge, slices and their new timestamps; flags |
| `detector` | 3 requests and 3 windows; series of 6 values out of 4; 8 observations in 3 buckets and +Inf | 856,385 | windows, outliers, quantile, shutdown |
| `pages` | map: 2 POSTs of 1 record, 2 connections; tabs: 2 sensors, 2 requests under way, 2 readings, pages of 1 row | 425,565 | what a connected page is owed is shown, nothing twice; the newest reading wins |
| `generator` | 5 values of each drawn step, 192 steps (the default of a run) | 741,375 | planned events but overcrowded, unhealthy_pm25, high_no2 and high_o3 set off their rules, and nothing sets off a rule before the first event |

`sensors`, `detector` and `pages` hold components that share no state: a behaviour
of such a run has the steps of one of them, chosen in its first state, while the
others stand still. So the run checks each of them over all of its own
behaviours, and no claim is made about their combination.

Bounds. With batches of two, four records give a full batch in the buffer while
another is in Redis, a partial batch behind a full one, and a flush that loops;
two faults let a retry fail as well, and a second start finds a backlog it did not
write. Two POSTs interleave in one set of connections, of which one may have left a hole. In `pipeline` the first fault
is anything at all and the later ones are broadcasts that fail
(`OneFaultSpec`). Two writers and a third request of any kind give every order of two
writes and a read; a third writer would wait behind the second as that does behind the
first. The shapes of `road` have each file as the shortest, an empty one, ties, and ends of
files inside and at the end of a batch; its accelerations lie at the thresholds.
The rows of `sensors` have ties in a file and between files. A series of six values
has two beyond the warm-up of four. `MaxItems`, `MaxGlitches`, `MaxStarts`,
`MaxCrashes`, `MaxRecords`, `MaxLosses`, `MaxSent`, `MaxRequests`, `MaxWindows`,
`MaxSamples`, `MaxObservations`, `MaxPoints`, `MaxReadings` and `MaxTime` bound counters
only: the code has no such limits, and the proofs do not depend on
their values. Deadlock is not checked, because every one of these systems may stop for
good: a bound is reached, a request is over, a process has ended.

Fairness. `FairSpec` of the hub assumes that the event loop runs every callback
and resumes every task that can go on, that Redis answers, and that the
gateway's timeout of ten seconds ends every request (`StoreAnswers` may be a
refusal). It assumes nothing about arrivals, `stop()`, faults or crashes.
`StopTerminates` needs no more: `stop()` ends even if the Store refuses every
request. `EventuallyStored` has the premise that the Store does not refuse for ever
(`StoreRecovers`, a strong fairness); without it the backlog never empties, and with a batch that the Store
refuses for its content it never holds. `EventuallyStored` is asked while the
hub runs, since nothing restarts a hub for good. `FairSpec` of the Store
assumes that the database answers and that every `send_text` ends: the server's
keepalive closes a connection whose client does not read. `PipelineFairness`
is the same of both processes together. In `StoreCrud`, PostgreSQL answers
every statement that need not wait for a row. In `RoadAcquisition` the edge is scheduled and,
strongly, a dialled connection is accepted in the end: the broker may refuse again and
again but not for ever (`losses` bounds how often in the instance). In `SensorsUi`
timers and callbacks of the browser run, and of the requests repeated every 20
seconds some are answered (strong).

### Where the code and its documentation differ

Two differences are runs of their own:

1. `store_problems`: a connection that closes during a broadcast makes the POST
   fail after its commit (`src/api/ws_manager.py:28`), although the docstring says that such
   connections are ignored. The hub then sends the batch again: this is the
   `ReplyLost` of its model, and a cause of duplicate rows. The run lets connections open before
   the POSTs and the database never fail (`ConnectedFirstSpec`), so that closing is the only thing
   that happens to a broadcast.
2. `crud_torn`: two concurrent PUTs leave a row that neither has answered
   (`src/repository/processed_agent_data.py:39`), although the docstring says that the updated
   object is returned: each sends only the columns that differ from the row it has read.

Others were met while modelling and are part of the models without a run:

* A backlog that cannot be posted ends `flush()` (`src/hub/service.py:180`) before the buffer
  is looked at; later batches stay in memory, although the README (line 241) says that records go
  to the Redis backlog while the Store is away. For the same reason `stop()` moves at most one
  batch to Redis when the Store refuses, and the rest of the buffer is lost.
* An unforced flush skips a backlog shorter than a batch and posts newer records
  (`src/hub/service.py:216`), although the docstring of `flush()` says that the backlog goes first.
  `PendingInOrder` is therefore about the order within each list.
* The readings behind a failed broadcast are stored and never counted, although the
  metric is called the number of readings persisted (`CountedBetween` says what holds).
* Without looping, the shortest file ends the agent: with the temperature file
  of `data/`, after four records.
* The temperature reader falls behind or the others run ahead at the end of files (`EndOfFile`);
  nothing is published of it (`NothingLeftUnread`).
* A request that raises counts as an error and not as a request, so the error rate of a
  window in which all fail is 0, and it may exceed 1.
* A subscriber that stays connected may be left out of a broadcast, or be sent a record twice, with the POST
  answered 201: when another client connects during the broadcast, or the end of another broadcast
  rebuilds the set. `SubscribersServed` and `ShownSinceOpen` say what remains (`due`, `stirred`), and `excused` in
  `SensorsPipeline` what the hub releases unseen.
* A point that is stored between the map's history request and its WebSocket is
  not shown before the page is loaded again, and neither is one lost with a connection, nor the
  rest of a batch whose broadcast failed because of another connection.
* An interrupt of the edge between `loop_start()` and `_connected = True`
  (`src/edge/adapters.py:72`), or inside `stop()`, leaves a network thread running at the end of `main()`,
  because `stop()` returns early or is not gone through. The process ends nevertheless: paho's
  thread is a daemon. `NoThreadLeft` excludes these two places only.
* A damaged row ends the agent with an exception and loses the records of its batch that
  were read before it (`NothingLeftUnread`); in the sensors agent the slice before it is lost (`WholeSlices`).
* With `SENSORS_DELAY` under a second, successive slices get the same new timestamp, so the rows of a
  sensor can no longer be told apart by time; with the defaults (2.0, and 1.0 in `docker-compose.yaml`) they do not
  (`MergedInSlices`).
* The payload of a planned event may miss its rule: the noise may keep pm2.5, no2 and o3 below the
  thresholds 35, 60 and 100 in the very step that lifts them above, and an overcrowded car park may be planned for
  its quiet hour. `EventsAreReported` is about the other rules.
* A callback of the MQTT thread (`call_soon_threadsafe`, `src/hub/service.py:140`) may run after `stop()` has passed
  `queue.join()`: its record is accepted, never flushed, and lost with the process, so a stop during which
  nothing fails need not drain the hub. `CleanStopDrains` leaves this out by its condition `clean`, and no
  property covers it.
* The generator's power factor may fall to 0.78, where the README (line 352) says 0.85.

## Proofs

`HubProofs` proves, for any batch size and any number of records, faults and
starts (`HubAssumption`: the batch size and the number of starts are positive), that `Spec` implies

* `TypeCorrect`: `[]TypeOK`, and `UnfinishedCorrect`: `[]UnfinishedCount`. `TypeOK`
  is not inductive: `unfinished` stays a natural number because it is the length
  of the queue plus the record the processor holds, and a record's number stays
  below `MaxItems` because pending callbacks are reserved (`Reserved`). `TypeInv`
  is the conjunction of the three.
* `FlushExclusive`: `[]FlushIsExclusive`. `LockInv` says that a task inside `flush()` owns
  the lock. Nothing need be known of the line of waiters, because a task that was
  handed the lock enters only after it has become the owner.
* `DeletionCorrect`: `[]DeletesWhatItSent`. `BatchInv` adds that a batch whose request was
  answered 201 is stored and a batch that Redis has taken is in the backlog
  (`SentIsSafe`). Mutual exclusion is what makes a step of one task leave the
  prefix of another intact.
* `RecordsKept`: `[]NoRecordVanishes`, and `SafeForever`: the action property
  `SafeStaysSafe`. Both follow from the same layers: a deletion removes what was
  sent, and what was sent and answered is safe elsewhere.
* `CleanStopCorrect`: `[]CleanStopDrains`. `DrainInv` follows `stop()`: after `join()` no record
  is unfinished, so the processor is not inside `flush()`; the backlog is empty when the flush gets to the
  buffer, and both are when it ends; the timer is outside `flush()` then, and dead when
  the processor is cancelled.
* `OrderCorrect`: `[]PendingInOrder`. Backlog, buffer without what has been spilled, and queue are one
  `Line` that ends before the next number (`OrderInv`). A step moves a record along it, lets
  one join at the end, or takes a part out of it, or it is a fault and nothing
  is claimed any more. The lemmas on lists (`ListAlgebra`) are kept apart from those on the hub.
* `DuplicatesCorrect`: `[]DuplicatesNeedFaults`. Rows alone are no inductive measure: a copy may also be
  in the backlog, or in a request whose connection was given up. `RowsInv` bounds all occurrences of a
  record (`Total`): rows, batches that may still arrive late, queue, buffer and backlog. A batch
  whose answer has not been acted upon yet is counted twice, in its list and where it
  arrived (`Surplus`); a fault at that point makes the second count an occurrence, so `Total` at most doubles
  with each fault. Around it, at most one task has such a batch (the lock), what was acknowledged is there as
  often as the batch holds it (`HeldInv`), and a record that is being accepted has no
  rows yet (`StoredKnown`). Occurrences are cardinalities of sets of positions.

It also proves `ContractImplemented`: `Spec => ImplementsContract`. A step of the hub
maps to one step of `DeliveryContract` (a `put_nowait` to `Accept`, a shortened buffer to
`Release`, `ltrim` to `Trim`, `rpush` to `Spill`, a commit to `Deliver`) or to a stutter. Two more
invariants are needed: every list and every batch on its way holds accepted
records only (`KnownInv`), and the tasks end together, after which nothing is accepted until
the next start (`DownInv`).

`SensorsPipelineProofs` proves `EndToEndImplemented`: `PipelineSpec => ImplementsEndToEnd`, for any
number of visitors, none of which is the Viewer (`VisitorsAssumption`: they are other connections).
Every step of the pipeline is a step of the hub or leaves the hub alone (`HubImplemented`:
`PipelineSpec => Spec`), so the hub's invariants hold here too. `PipelineInv` adds that no empty
batch is ever posted (`SentInv`), which the loop of `broadcast()` over the records relies on, and
`CastInv`: a task is served by one broadcast at most, the one of its batch; the records before
the current one are shown or excused, and the current one is too unless the Viewer is being sent it or is
still ahead in the iteration (`Progress`). `AnswerInv` draws from it that a batch which was
committed for a task is still being broadcast or has reached the browser, and has reached it
when it is trimmed. The step of the hub that takes the answer then maps to `Release`, `ltrim` to `Trim` of
the contract with the browser as the destination, and a `send_text`, a connection that joins or a rebuilt table to `Deliver`.

`StorePostProofs` proves, for any number of requests, connections, crashes and any batch
length (`StorePostAssumption`), `TypeCorrect`, `CountedCorrect` (`[]CountedBetween`), `SubscribersCorrect`
(`[]SubscribersServed`) and `StoreImplemented`: `Spec => ImplementsStore`. The invariant `Inv` ties
the locals of each handler to what every subscriber has received: a connection that was in the
set when the broadcasts of a batch began, has not gone, and whose set was not changed under them
by a new connection or a rebuilt table (it is `due`) is still in the set and has received exactly the
records that these broadcasts have come to (`Progress`). That is what must survive
a set that changes under the iterator, and it does because only connections that are gone
are dropped and a change of size ends the handler. A handler maps to `Accept` at its commit, to `Fail` or a stutter at an
error, and each send to `Show`.

`StoreCrudProofs` proves, for any requests, rows, columns and values, `HoldersCorrect`,
`AcknowledgedCorrect` and the action property `DeletedCorrect`. The strengthening says
that a transaction at its commit either holds its row or had nothing to write, that the version it
has read is one of the versions of the row and never stands for a row that is absent.

`RoadAcquisitionProofs` takes agent, broker and edge together (`SystemSpec`), for files of any lengths, any
damaged rows and any batch size. `NothingLeft` (`[]NothingLeftUnread`) speaks of the end of the agent; the invariant
`CountInv` says where the readers are before it: together at the number of records read, or, once a file has
ended, apart while that number is already the length of the shortest file. `Whole` adds that only full batches
are published while the agent reads, and `RaisedInv` that the record that raised is the
first one that cannot be read.

The composition adds to it: the batch goes on
where the published records end (`RecordInv`, which needs that a remainder goes up by one
and back to 0), every valid message in the broker has the rows of its record and records go up
(`SentInv`), what waits for the edge is above what it has forwarded (`ForwardInv`). Together
they give `FilesInStep` (`[]HubSeesFilesInStep`) and, with `Acceleration` as a type,
`OrderCorrect` (`[]WorseIsWorse`); `ThreadsCorrect` (`[]NoThreadLeft`) has an invariant of its own, which
follows the thread from `loop_start()` to `stop()` wherever an interrupt comes.
`AccelerationAssumption` says that the accelerometer's rows hold integers: the code reads floats
and only compares them, so the model takes them in units small enough to be whole.

`SensorsAcquisitionProofs` proves `MergeCorrect`, `SlicesCorrect` and `RoundCorrect` for any number of
files of any lengths, damaged rows included, any delay and any length of a tick, as long as each file
is sorted (`SourceAssumption`).
`LineInv`: what was taken from the files is one sorted line that comes before every readable row
that is left; the earliest head exists (`MinHead`) and comes before all the rest (`MinFirst`). `StampInv`: the
clock, cut to seconds, is never behind what was published, and ahead of it whenever a slice begins after a
delay of a second or more (`Cut`). `SliceInv`: while a slice is
published none of its readings is left in the files.

It also proves `FlagsCorrect` (`[]FlagsAreDue`) of the edge beside it, for any messages
(`MessagesAssumption`, what the payload models declare). `RulesAreDue` compares the rules' chains of
thresholds with one range per flag, kind by kind; `EdgeInv` keeps what was forwarded tied to
the message it was made of.

The last part of the module is about the generator of the files (`SyntheticSensors`): `EventsCorrect`
(`[]EventsAreReported`, all planned events but overcrowded, unhealthy_pm25, high_no2 and high_o3) and `QuietCorrect` (`[]QuietBeforeEvents`) hold for
every step at which an event can be drawn that `Picks` may select, and for any number of samples beyond
140, the latest such step (`PayloadAssumption`; the code takes 192). `GeneratorInv` has a bound for
the least and one for the greatest of each value, before the first event and after it, which every step
keeps (`FadeMoves`, `OuMoves`, `LightMoves`, `Within`); a flag is certain when both ends call for it. Such bounds
are not enough for the flag `congested` of a traffic light, since noise may keep the queue short in its planned congestion.
The queue passes the range of that flag for certain when it shrinks after the gridlock, so the invariant
follows its two ends for five steps from there (`SinceJam`): by the fifth payload both have been
in the range, or they are so close and so high that both are in it at the sixth.

`NetworkAnalyticsProofs` proves of the detector, at each of its levels and for any values of the constants
(`SeriesAssumption`, `QuantileAssumption`):

* `DisposeCorrect` (the action property `NothingAfterDispose`): the task is over whenever the
  application is down, because `stop()` awaits it.
* `WindowsCorrect` (`[]EachRequestInOneWindow`): the windows add up to the last snapshot
  (`WindowsInv`).
* `OutliersCorrect` (`[]EventsAreOutliers`): mean and variance, as `update()` moves them, are the weighted
  sums over all values so far (`ValuesInv`, from the algebra of `SeriesStep`), every event
  carries the verdict of the values before it (`VerdictsInv`). After a series has moved from one
  level to another, the mean holds a share w/p of the old level, at most 4/5, and the variance is w(p - w)
  times the squared distance of the levels (`Balanced`): the new level then lies within two deviations
  (`WithinTwo`), so that none of its values is reported (`LevelsInv`).
* `QuantileCorrect` (the action property `QuantileFollows`): the totals of the buckets go up with the bounds, and an
  observation adds one to those from its bucket on (`TotalOneMore`). The quantile lies within the bounds of the bucket
  that reaches it (`Inside`), so quantiles of different buckets are ordered as the buckets (`LaterBucket`); in the
  same bucket a slower request moves it up and a faster one down (`SameBucket`). It takes that
  the quantile is at most 1.

The first two are theorems of `NetworkAnomaly`'s `Spec`; `TaskImplemented` is the lemma that the task among the other
levels takes its steps. Sums and powers are recursive functions. What such a function computes for one more argument follows
from the uniqueness of its partial results, by induction on a set of natural numbers (`Inductive`, from
the well-foundedness of `<`); the induction theorems of the library, which take an operator, are not needed.

`RoadUiProofs` proves `NothingMissed` (`[]ShownSinceOpen`) for any numbers of requests, records, clients and
connections of the page (`RoadUiAssumption`). Every step of the Store is one of `StorePost`, so the
invariant of `StorePostProofs` holds here too; that a due subscriber has received the batch comes from
there. `RoadInv` adds that only connections that were made can be sent anything (`MadeInv`), that of the
page's connections all but the present one are gone (`ConnInv`), that a point of a request that is not
`stirred` came at most once over all of them together (`SentInv`), and that what is shown came from the
history or in a message (`ShownInv`).

Each layer is proved from the layers below it, with one step per action.

Only model-checked is liveness, which is out of the prover's reach: `StopTerminates`, `EventuallyStored`,
`EventuallyAnswered`, `EventuallyShown`, `SubscribedAgain`, `EventuallyLatest`. Every safety property
of a passing run has a theorem.

## Not modelled

* The routes of network anomalies and health: they read one table or answer a constant.
* Configuration and logging: settings are the constants of the models.
* The pool of 15 database connections: a request that waits too long for one fails
  before its first statement, which `Fails` and the failures of `StorePost` cover.
* Drawing in both user interfaces: map, charts, tabs, cards, ETA, the table of anomalies.
* Reading the generated files back and seeding the database: a loop over rows that are inserted.
* The start of a hub that fails before Redis is connected; the process ends either way.
* Floating point rounding in the detector and the format of `/metrics`.
* Mosquitto, PostgreSQL, Redis, paho, Prometheus and Grafana beyond what the code relies on; what a
  model needs of them is marked external in `PROJECT.json`.
