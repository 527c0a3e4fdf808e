# TLA+ models of the distributed network monitor

Specifications, model-checking configurations and machine-checked proofs for the three
Go services of this repository. Paths below are relative to `src/services/` unless they
start with `README`, `docs` or `deploy`.

    tlc -workers 2 -config MonitoringDevice.cfg MCMonitoring.tla      # a run
    tlapm MonitoringProofs.tla                                         # a proof module

## 1. The system

```
 simulator ──HTTP /metrics/{id}──> monitoring ──network.telemetry──────> analysis ──> Redis ──> HTTP API
 (fleet of                         (one worker  ──network.health-events─>  (one goroutine
  devices)                          per device)      Kafka                  per topic)
```

| Component | State it keeps | Operations | Correct when |
|---|---|---|---|
| Simulator (`simulator/main.go`) | per device: telemetry, degradation, `down` flag | update loop, `SetDown`, `/metrics`, `/control`, condition gauges | an injected failure holds until it is cleared; gauges settle on the fleet |
| Polling engine (`monitoring/polling/engine.go`, `retry.go`, `client.go`) | one goroutine and ticker per device | poll with bounded retries and backoff, classify the error, record it, update gauges | retry budget kept, no cycle lost, gauges settle on the fleet's state |
| Failure detector (`polling/state.go`) | per device: UP/DOWN, consecutive failures | `RecordSuccess`, `RecordFailure` | DOWN exactly at the threshold, UP on the next success |
| Telemetry store, health store (`polling/store.go`, `health/model.go`) | last telemetry, last assessment | `Set`, `Get`, `All` | together with the detector they tell one story between cycles |
| Health evaluation (`health/evaluator.go`, `service_evaluator.go`) | none of its own | `Evaluate`, `RecordPollSuccess`, `RecordPollFailure` | bands ordered by severity, a worse reading never ranks lower; one transition per change |
| Publishing (`monitoring/kafka/`) | two Kafka writers, `closed` | `PublishTelemetry`, `OnHealthTransition`, `Close` | every transition offered once, in order, before the next one |
| Monitoring life cycle (`monitoring/main.go`) | `pollCtx`, HTTP server | `Run`: serve, stop the server, cancel, wait, close | returns; nothing is published to a closed producer |
| Kafka consumer, dispatcher (`analysis/consumer/`) | readers, `closed`; offsets at the broker | start, fetch, dispatch, commit, back off, close | at-least-once; junk and errors never stop it |
| Memory consumer (`analysis/consumer/consumer.go`) | bounded channel, `closed`, injected error | `Enqueue`, `Start`, `Close` | no panic, nothing accepted is dropped while it runs, calls return |
| Aggregation (`analysis/aggregation/`) | per device and window: samples | `AddSample` with eviction, metrics | no sample is dropped that was never too old; samples that come in the order of their times are kept exactly as long as the window is |
| Detector (`analysis/anomaly/`) | last health event of each device | `EvaluateMetrics`, `EvaluateHealth` | no anomaly from a single sample; outages reported |
| Pipeline (`analysis/main.go`) | none of its own | `HandleTelemetry`, `HandleHealth` | keys of the repository follow the topics |
| Repository (`analysis/store/`) | four kinds of keys | saves, reads | last write wins per key |
| HTTP APIs (`monitoring/api`, `analysis/api`) | none | composite reads of several stores or keys | a view mixes no state the device was never near |

How they interact: workers share the tracker, the two stores and the gauges, each call
under a lock of its own, no lock across two calls. The health listener and the telemetry
publisher are called synchronously from the worker. The two consumer goroutines of the
analysis service share the engine, the detector and the repository in the same way. The
topics are the only link between the services. Both read APIs read the shared stores or keys
one after the other while they are written.

What is hard: the interleaving of workers (gauges) and of the two consumers (one analysis
key, two writers); a write that fails while its context is cancelled; the order of the
shutdown steps; a crash or a failed commit between the projection of a message and its
offset; redelivery; exactness of counters under retries; eviction at the window's edge.
`PROJECT.json` lists every such hazard at its line with the properties aimed at it.

## 2. The modules

| Module | Models | Used by |
|---|---|---|
| `HealthRules` | `health/evaluator.go`: thresholds, precedence, score, as pure operators | `Monitoring` |
| `HealthFeed` | **abstract**: what the health topic promises — each change offered once, in order, chained to the change before | instantiated in `Monitoring` |
| `Monitoring` | engine, retry loop, detector, stores, gauges, publishing, `Service.Run` | `MCMonitoring`, proofs |
| `AnomalyRules` | `aggregation/window.go`, `anomaly/detector.go`, as pure operators | `Analysis` |
| `MonitoringViews` | `Monitoring` composed with a device summary of its read API | `MCMonitoringViews` |
| `Analysis` | `KafkaConsumer.Start`, `Close` and its goroutines, dispatcher, pipeline, shared memory, repository writes, offsets, shutdown, crash and restart | `AnalysisViews`, `HealthPipeline`, `MCAnalysis` |
| `AnalysisViews` | `Analysis` composed with a request of its read API, key by key | `MCAnalysisViews` |
| `HealthPipeline` | both services end to end: `HealthFeed`, which `Monitoring` implements, as the producer of the health topic of `Analysis`, and restarts of the monitoring process | `MCHealthPipeline` |
| `MemoryQueue` | `MemoryConsumer`: its lock, its bounded channel, `Enqueue`, `Start`, `Close`, injected errors | proofs |
| `Fleet` | the simulator: update loops and failure injection under the devices' locks, the requests that count devices and set gauges | proofs |
| `AnalysisValues` | samples, windows and bounds for the analysis instances | `MCAnalysis`, `MCAnalysisViews`, `MCHealthPipeline` |
| `MC...` | values for the constants | the `.cfg` files |
| `HealthRulesProofs`, `MonitoringProofs`, `MonitoringViewsProofs`, `AnalysisProofs`, `MemoryQueueProofs`, `FleetProofs` | theorems about the module of that name, with proofs | — |
| `AnalysisCompositionProofs` | theorems about the two compositions of `Analysis`: `AnalysisViews` and `HealthPipeline` | — |

One action is one stretch of code between two points at which another goroutine, the
broker, the repository or the clock can interfere. `pc` names the point. Correspondence
in `Monitoring`, per device `d`:

| `pc[d]` | Code | Actions leaving it |
|---|---|---|
| `poll` | context check of `ExecuteWithRetry` | `BeginAttempt`, `GiveUp` |
| `request` | `client.Poll` | `DeviceAnswers`, `DeviceFails`, `RequestAborted` |
| `backoff` | the select on `time.After` | `BackoffOver`, `GiveUp` |
| `fail` / `store`, `success` | `RecordFailure` / `store.Set`, `RecordSuccess` | same names |
| `snapshot`, `setUp`, `setDown` | `updateDeviceGauges` | `SnapshotStates`, `SetUpGauge`, `SetDownGauge` |
| `assess` | `RecordPollSuccess`, `RecordPollFailure` up to the listener | `AssessSuccess`, `AssessFailure`, `SkipAssessment` |
| `announce` | `OnHealthTransition` | `AnnounceTransition` |
| `publish` | `PublishTelemetry` | `PublishTelemetry` |
| `wait`, `exited` | the select of `pollWorker` | `Tick`, `ExitWorker` |

`run` follows `Service.Run` (`serving`, `draining`, `cancelling`, `waiting`, `closing`,
`stopped`). `misses` is a history variable: the cycles in a row that failed through the
device and not through the service's own cancellation; no action's guard reads it.

In `Analysis`, per topic: `check`, `fetch`, `backoff` and `commit` are `consumeTopic`;
`save`, `aggregate`, `roll`, `evaluate`, `analyse` are the steps of `HandleTelemetry` (the
health goroutine skips the middle two, as `HandleHealth` does). `committed` and `log`
belong to the broker, `position` to the reader. `starting` and `readers` follow
`KafkaConsumer.Start` (the check of `closed`, the opening of the readers, the launch of the
goroutines, the wait), so that `Close` can come in between. `Restart` is a crash at any
point, or a start after a stop: memory (`windows`, `healthState`) is lost, repository and
offsets stay. `restarts` and `rejoins` bound the crashes and the redeliveries; `taken` is a
history, per device, of the samples the process has aggregated, redelivered ones again. `Faults` says
which kinds of fault an instance has.

In `AnalysisViews`, `query` is the request in flight and the keys it has yet to read, `seen`
how far the projection of telemetry was when the request read it. In `MonitoringViews`,
`summary` holds what `buildDeviceSummary` has read so far. Neither changes a variable of the
module it extends. A view cannot outlive its process, and one view at a time is enough:
views do not interact.

In `MemoryQueue`, `holder` is the producer that holds the lock beyond a step: `Enqueue` is the
only holder that can block, at its send. In `Fleet`, `update` is two steps,
`BeginUpdate` (the lock and the check of `down`) and `EndUpdate` (the writes and the
unlock); in between, `updating` holds the device's lock, and `SetDown` and `CountDevice` wait
for it. One request is a `BeginCount`, one `CountDevice` per device, one `SetGauge` per
gauge, `Respond`.

Definitions called a *seeded fault* are wrong variants of the definition below them. They
are not part of any next-state relation; replacing the right definition by one of them
makes the property listed with it under `mutants` in `PROJECT.json` fail.

## 3. The runs

| Run | Instance | Shows |
|---|---|---|
| `monitoring_device` | 1 device, all conditions and errors, threshold 2, 1 retry, broker takes every write, shutdown at any point | types, retry budget, both topics current, refinement of `HealthFeed` with fairness, detection, recovery, shutdown |
| `monitoring_api` | 1 device, threshold 3 (the default), 1 retry, readings that are WARNING and CRITICAL by the same metric and DOWN by the interface, broker may lose a write or its acknowledgement, a summary read at any time | detector exact, stores agree, scores in their status' band and ranked as the readings are, refinement of `HealthFeed`, a summary that shows a success shows its telemetry |
| `monitoring_fleet` | 2 devices, one failure makes DOWN, no shutdown | two workers' snapshots and gauge writes overlap, and the gauges settle |
| `analysis_replay` | 2 telemetry messages (calm, spike, in either order of time) and 1 health message, windows of 1 and 2 minutes, junk in any place, 1 crash, failed commits, 1 rejoin, an API request at any time | nothing projected is lost; replays end at the newest event; windows keep what was never too old and, in order, nothing else; no anomaly from one event alone; a view is at most one event behind itself |
| `analysis_outage` | both services: 2 health events, 1 restart of monitoring, 1 crash of analysis, storage outages, failing fetches, shutdown | every health event is consumed; `Run` returns, also when `Close` comes in the middle of `Start`; what monitoring comes to hold is shown, and once the topic is consumed nothing stale is left |
| `simulator` | 2 devices, 2 concurrent requests | an update never writes over an injected failure; a request that overlaps none adds up; gauges heal |
| `memory_queue` | 2 producers, a channel of 2, 5 messages, one `Close`, injected errors, cancellation | no send on a closed channel; calls return and messages are handled unless the queue jams |

Five runs check a sentence of the documentation or a comment that the code does not keep.
TLC finds each of them violated:

| Run, property | The sentence | What happens |
|---|---|---|
| `monitoring_shutdown`, `DownOnlyAfterDeviceFailures` | README.md:139 "A device is marked `DOWN` only after 3 consecutive poll failures." | two cycles fail through the device; the service is told to end, and the next cycle, given up at the context check of `ExecuteWithRetry`, is counted as the third failure: DOWN |
| `analysis_shutdown`, `HealthKeyMostRecent` | README.md:312 "Most recent `HealthEvent` transition payload" | a save cancelled by the shutdown fails, its offset is committed all the same |
| `analysis_race`, `OutageReported` | anomaly/detector.go:47 "combines metric anomalies with any active health anomalies" | the telemetry goroutine saves an analysis it computed before the outage over the one that reports it |
| `analysis_redelivery`, `SpikesFiltered` | README.md:142 "filters out isolated transient spikes" | a redelivered event is the second sample of its own window |
| `analysis_eviction`, `StrictEviction` | analysis/README.md:58 "strict boundary-preserving sample eviction (`sample.Timestamp >= event.Timestamp - windowDuration`)" | eviction stops at the first fresh sample. Calm (60 s) and spike (180 s), both commits fail, the reader rejoins at the first: when the spike comes again the window of one minute is 180, 60, 180, and the 60 counts in its averages |

In `monitoring_shutdown` the property asks for a device that has failed once less than the
threshold, so the cancelled poll is the only one that is not the device's own. In
`analysis_eviction` it asks for a device whose events were published in the order of their
times, so the disorder is the redelivery's. `WindowsExact`, which holds, says what the
windows do keep whatever the order: every sample that was never too old for one after it. It
promises no eviction to samples that come out of order.
`SpikesFilteredWithoutRedelivery` reads README.md:142 by its words, two samples: an anomaly
never rests on one event alone. That is weaker than filtering spikes, since one spike averaged
with one calm sample can reach a threshold.

Three more sentences the models bear on have no run, since the order of two lines or one
assignment decides them. `monitoring/README.md:186` says Kafka publishing never delays the
polling loops: `pollOnce` publishes synchronously, so a due poll waits for the write (up to
its timeout). `consumer.go:140` says `MemoryConsumer.Start` processes "until context
cancellation or Close": with a producer at a full channel, which holds the lock, `Start`
waits for the lock and notices neither, and `Close` waits as well. `Jammed` names that
state, and `ReturnsUnlessJammed` says it is the only exception. README.md:280 says
`/control/{deviceID}/recover` "Recovers device to `NORMAL` operational state", while
`simulator/README.md:107` says "`NORMAL` or `DEGRADED`": `SetDown(false)` does the latter (as
`TestRecoveryUsesExistingDegradationCondition` asks), so a worn device comes back DEGRADED,
and README.md:280 is wrong for it. `FailureHolds` takes no side: it is about DOWN and its end.

**Bounds.** Nothing in `Monitoring` needs a bound: failures are capped by the code, cycles
repeat, histories are last values. Workers touch only their own entries of every map, so
two devices exercise all sharing there is (tracker snapshot, gauges, shutdown); a threshold
of 2 or 3 with 1 retry separates attempts from cycles. In `Analysis`, `MaxEvents` bounds the
messages of each topic, `MaxRestarts` and `MaxRejoins` the crashes and the redeliveries. Two
messages of a topic suffice for an older event to be stored after a newer one, for a window
to let go of a sample while another keeps it at its very cutoff, and for one to shield the
other out of order; a redelivery makes a third sample. A crash and a rejoin together let a
replay be interrupted by another. One device is enough: all state is per device, and the
goroutines meet at the same device only. In `HealthPipeline`, two health events are a status
and its change, or a status and its repetition after a restart. `MemoryQueue` has two
producers (one at the send, one at the lock), a channel of two and five messages, more than
the channel, the sender and the handler hold. `Fleet` needs no bound; two requests overlap
in every way, two devices give counts that differ. `analysis_outage` has health events only
and commits that succeed: with telemetry as well, or with commits that fail, its liveness
checks take longer than a run should. So no run says that telemetry is consumed in the
end; a failed commit is in `analysis_replay`, for safety.

**Fairness.** Goroutines are scheduled and every call returns: requests within the client's
timeout, Kafka writes within the writer's, commits and the HTTP shutdown within 3 s, so
each worker, each reader, `Start` and the shutdown are weakly fair. `ExitWorker` is strongly
fair: a worker's select has its done context ready at every visit and Go chooses among
ready cases at random; so is `Cancelled` in `MemoryQueue`. There, `Check` and `Close` are
strongly fair because a `sync.Mutex` lets no waiter starve. In `Fleet`, `EndUpdate` is weakly fair and a
request strongly, because a `sync.RWMutex` lets no waiter starve either, however often
updates take it. `Fetch` is strongly fair: the
broker does not refuse every fetch for ever. Commits may all fail. Nothing is assumed of
devices, storage, the operator, clients of the APIs, of when the simulator's updates begin, producers of the memory queue or the
HTTP server's failures. `OutageShown` and `ShownOnceConsumed` speak of behaviours in which storage stays up and
the analysis service is not stopped: without that premise nothing could be shown.
`ServingSpec` leaves the end of the service out, for the property that speaks of polling
that goes on.

Deadlock is checked in every run but `memory_queue`, whose producers may all be done, whose
`Start` may have returned, and which may jam. A service that has returned from `Run`
stutters explicitly (`Stopped`), and so do two readers that wait for messages nobody
publishes any more (`Blocked`).

## 4. What is proved

Every safety property that a passing run checks is a theorem for every value of the
constants. The assumptions, all of them on constants:

| Assumption | Says | Why the code justifies it |
|---|---|---|
| `MonitoringAssumption` | finitely many devices, a positive threshold, a natural number of retries, `None` is no record | the registry is a list; `config.go` keeps its defaults for other values |
| `AnalysisAssumption` | finitely many devices and windows, at least one window; samples are whole, durations and bounds natural numbers | `config.go` leaves out what is no positive duration and keeps its defaults when nothing is left |
| `FeedAssumption` | a natural bound, `None` and `Junk` are no health events | a key that is absent and a message that cannot be decoded are no events |
| `QueueAssumption` | a channel with room for a message, `Nobody` is no producer | `NewMemoryConsumer` replaces other sizes |
| `FleetAssumption` | a finite fleet that is not empty | the list `NewFleet` is given, its default one has devices |

**Health evaluation** (`HealthRulesProofs`). Lemmas on `Evaluate` for any whole metric values:
its result is an assessment whose score lies in the band of its status (`EvaluateBands`), and
a reading that is at least as bad never scores lower (`EvaluateMonotone`). The second is not
obvious: a metric that turns critical leaves the warning count. The argument: the critical set
grows, so does the union of both sets, and 10c + 5w = 5c + 5(c + w).

**Monitoring** (`MonitoringProofs`, `MonitoringViewsProofs`). The proofs go action by action
over one worker's step, with a lemma that a worker leaves the entries of all other devices alone.

- `TypeCorrect`. `TypeOK` is not inductive; `TypeInv` adds the control facts that tie `pc` to
  the locals (a reading exists from `store` on, an event from `announce` on, a ticker exists
  after the first cycle).
- `DetectorExact`: `[]DownExactlyAtThreshold`, any number of devices. The strengthening
  follows the tracker's entry through each cycle, and allows cancelled polls to differ from
  the device's own failures only once `cancelled` holds.
- `StoresAgree`: `[]StoresAgreeWhenIdle`. The strengthening says at each `pc` which of the
  three stores is ahead.
- `ScoresInBands`, `ScoresRanked`: `[]ScoreBands`, `[]ScoresRank`. Only `AssessSuccess` and
  `AssessFailure` write an assessment, of a reading that was obtained, stored, or taken for one
  never obtained; between cycles it is that of the stored telemetry unless the device is DOWN
  (`StoresAgree`'s invariant), and the lemmas on `Evaluate` do the rest.
- `TopicCurrent`, `TelemetryCurrent`: both topics, the first also across shutdown, from the
  invariants that the producer closes only after every worker has exited, that the owed event
  is the status the health topic lacks, and that between `store` and `publish` only the reading
  in hand is missing from the telemetry topic.
- `RetriesSpent`: `[]RetriesExhausted`; attempts never exceed the budget, and only a spent
  budget or a cancellation leads out of the retry loop with a transient error.
- `FeedImplemented`: `Spec => ImplementsFeed`, the refinement of `HealthFeed`. Each
  assessment that changes the status maps to `Change`, the publish to `Announce` or `Lose`,
  every other step to a stutter.
- `ViewsOnlyRead`, `AnsweringDeviceHasTelemetry`: the read API changes nothing, so what is
  proved of `Spec` holds of `ViewSpec`; and a summary that has read a success will find
  telemetry, because the store is written before `RecordSuccess` and never emptied.

**Analysis** (`AnalysisProofs`). One inductive invariant `IInv` carries the types, the offsets
(committed, position and log are in order, a message in hand lies inside the log and is no
junk), the windows, the repository and the life cycle. On it rest:

- `TypeCorrect`. That rolling sums are integers is a fact about a recursive function, which
  would need induction; the proof takes a least length without sums and refutes it (`Least`,
  from the well-foundedness of the naturals, has no operator parameter). `SumsExist` gives the
  `CHOOSE` behind a recursive function its witness.
- `WindowsAreExact`: `[]WindowsExact`. The invariant (`Keeps`) is what the code makes of a
  window: a suffix of the samples the process has aggregated whose head is fresh, with nothing
  before it that was not too old for a sample after it. `EvictStopsAtFresh` characterises
  eviction, `AddSampleKeeps` shows that one more sample keeps the invariant whatever the order
  of times, and `KeptExactly` derives the property: with samples in the order of their times, a
  fresh head makes all of the window fresh.
- `ProjectionSurvives`, `ProjectionEndsCaughtUp`: `[]ProjectionDurable`, `[]ProjectionCaughtUp`.
  Neither is inductive: a replay sets the stored event back. `ProjectionInv` says that the stored
  event of each device is the last one up to some offset between how far the reader has projected
  and the end of the topic. A reader that projects brings the witness on to its own position or
  leaves it ahead; a crash or a rejoin sets the reader back and not the witness. It is kept by
  every step as long as writes land (`Writable`).
- `SpikesNeedTwoEvents`: `[]SpikesFilteredWithoutRedelivery`. The strengthening counts: as long
  as nothing is redelivered, the samples a process has aggregated of a device are at most the
  device's events it has gone past, a window holds no more than these, and an anomaly of a
  metric, in hand or stored, needs two. Restarts reset the count, stored analyses do not.

**Compositions** (`AnalysisCompositionProofs`).

- `ViewsOnlyRead`: `ViewSpec => Spec`, so everything above holds while requests are served.
- `ViewsLagAtMostOne`: `[]ViewLagsAtMostOne`, in three invariants. `WindowsInv`: the windows of
  all devices are those over the messages from where the process began, which is no farther
  than the message in hand (so the window that is saved holds a sample). `RollingInv`: the
  metrics stored of a window take in everything the process has saved of it or passed over, a
  count (`RolledTo`) that differs from window to window while `HandleTelemetry` saves them; a
  crash sets it back and leaves the metrics. `ViewInv`: what a request saw was projected, and
  stays so until the process ends. Windows over a stretch of the topic are a recursive
  function; the lemmas on it (`HeldExist`, `WindowOverStep`, `WindowOverKept`) take the least
  length at which they would fail, as for the sums.
- `PipelineImplementsAnalysis`: `PipelineSpec => FairSpec`. An announcement of the monitoring
  service is a `Publish` step of `Analysis` only if the topic has room; `FeedInv` shows it has,
  by counting the devices with a change not yet announced.
- `PipelineAgrees`: `ShownOnceConsumed`, across both services and any number of devices: the last event of a device in
  the topic, together with the change it is owed, is what monitoring holds (`ToldInv`); with the
  projection caught up it is what the repository shows.

**Memory consumer** (`MemoryQueueProofs`). `TypeCorrect`, which says that the channel holds the
accepted messages in order and once, and `NoSendOnClosed`: `[]NeverSendsOnClosed`. Inductive
with the lock's discipline: whoever is at a send holds the lock, only one does, and a closed
channel implies a closed flag, which `Enqueue` refuses.

**Simulator** (`FleetProofs`). `TypeCorrect` and `LoneScrape`: `[]LoneScrapeAddsUp`. The
strengthening says that the devices counted and those yet to be counted make the fleet, that a
request that is alone is the only one in flight, and that the gauges such a request has set are
its own counts; cardinalities come from `FiniteSetTheorems`. `FailuresHold`:
`[]FailureHolds`, inductive with what the lock is for (`UpdatingRuns`): while an update is
under way its device is not failed.

**Model-checked only.** Liveness (`OutageDetected`, `RecoveryDetected`, both `GaugesSettle`,
both `ShutdownCompletes`, `EventuallyConsumed`, `OutageShown`, `ReturnsUnlessJammed`,
`HandledUnlessStopped`, the fair refinement `ImplementsFairFeed`): fairness and `ENABLED` are
beyond the prover.

## 5. Abstractions, and what is not modelled

- Metric values are whole numbers: every threshold is one, so rounding down changes no
  comparison. Averages are compared as totals against threshold times count.
- The CRITICAL cap of 95 is in the model and never binds: four metrics reach 90.
- The id in a telemetry payload is taken to be the id of the polled device.
- Wording of reasons, `LastError`, times of last polls, counters and the `KafkaAvailable`
  gauge, the minima and maxima of rolling metrics, Redis key names and the set of device
  ids are left out. `KAFKA_ENABLED=false` and `REDIS_ENABLED=false` are not modelled.
- A Kafka write ends acknowledged, lost, or stored without acknowledgement. kafka-go's own
  retries inside one call may store a message twice; a topic keeps the last event of a key,
  so that is invisible here.
- README.md:141 mentions "strict ceiling caps" of the windows; the code has none, windows
  are bounded by time only.
- A request that reads one store or key, or none (`/health`, `/metrics`, `/devices` of the
  analysis service, readiness probes), interleaves with nothing and is left out of the views.
  A view of all windows leaves a window out whose read failed, and goes on (`ReadWindow`).
- A second `Close` of either consumer does nothing and is left out; `LoggingConsumer` and
  `LoggingProducer` pass calls through.
- In `Fleet` a device's metrics are left out but for the side of the threshold its
  degradation is on; update loops and requests may cease at any time, which is all that the
  shutdown in `Run` makes them do. An update that finds its device failed changes nothing and is
  no step.
- In `HealthPipeline` the two processes share the topic only; what `Monitoring` does between
  two health events is what `HealthFeed` says of it, with a broker that takes every write.
  A process that stops with a change unannounced loses it (`FeedRestarts`).
- External parts (devices, topics, Redis, tickers, signals) are modelled from how the code
  uses them.
- Not modelled: the memory and logging producers (an append under one lock), the
  `MemoryRepository` (the same calls over maps, forgotten at a restart), configuration parsing
  (pure), Prometheus counters, containers, dashboards.

## 6. Plan

Done: every module of section 2 and the theorems of section 4. What is left:

- An abstract specification of what a consumed topic promises its readers, with `Analysis`
  shown to implement it, as `Monitoring` implements `HealthFeed`.
