------------------------------- MODULE Analysis -------------------------------
(***************************************************************************)
(* The analysis service: one consumer goroutine per topic, the pipeline    *)
(* they share (rolling windows, anomaly detector, repository), the offsets *)
(* they commit, the shutdown order of Service.Run, crashes and restarts.   *)
(*                                                                         *)
(* One action is one stretch of code between two points where the other    *)
(* goroutine, the broker or the repository can interfere: a repository     *)
(* write, a call under the lock of the engine or the detector, a fetch, a  *)
(* commit.                                                                 *)
(*                                                                         *)
(* External, modelled from how src/ uses them: the topics and the group's  *)
(* offsets at the broker, Redis, the operator's signal.                    *)
(***************************************************************************)
EXTENDS AnomalyRules, FiniteSets

CONSTANTS
    Devices,      \* the ids that occur in events
    Samples,      \* the samples a telemetry event may carry
    Reported,     \* the statuses a health event may report
    Windows,      \* AGGREGATION_WINDOWS: the duration of each label
    Faults,       \* what may happen besides: see FaultKinds
    Junk,         \* a message Dispatcher cannot decode or validate
    None,         \* an absent key
    MaxEvents,    \* bound: messages of each topic
    MaxRestarts,  \* bound: restarts of the process
    MaxRejoins    \* bound: times a reader starts again from the committed offset

Topics == {"telemetry", "health"}

\* Storage out of reach, fetches or commits that fail, messages that are junk, crashes,
\* shutdown.
FaultKinds == {"storage", "fetch", "commit", "junk", "crash", "shutdown"}

ASSUME AnalysisAssumption ==
    /\ IsFiniteSet(Devices)
    /\ Samples \subseteq Sample
    /\ Reported \subseteq Statuses
    /\ IsFiniteSet(DOMAIN Windows) /\ DOMAIN Windows # {}
    /\ \A w \in DOMAIN Windows : Windows[w] \in Nat
    /\ Faults \subseteq FaultKinds
    /\ MaxEvents \in [Topics -> Nat] /\ MaxRestarts \in Nat /\ MaxRejoins \in Nat

VARIABLES
    \* the broker
    log,          \* per topic, the messages published so far
    committed,    \* per topic, the offset committed for the consumer group
    \* the goroutine of each topic
    pc,           \* where consumeTopic and the handler below it stand
    position,     \* how many messages the reader has gone past
    unsaved,      \* the windows whose metrics HandleTelemetry has yet to save
    result,       \* the anomalies the handler has yet to save
    \* shared memory of the process
    windows,      \* aggregation.Engine: the samples of each device and window
    healthState,  \* anomaly.Detector: the last status of each device
    \* the repository
    latest,       \* per topic and device, the latest event
    rolling,      \* per device and window, the rolling metrics
    analyses,     \* per device, the active anomalies of the DeviceAnalysis
    storageUp,
    \* Service.Run and KafkaConsumer.Start
    run, cancelled, closed,
    starting,     \* where Start stands
    readers,      \* kc.readers: "none", "open" or "closed"
    \* history
    restarts,     \* how often the process was started again
    rejoins,      \* how often a reader went back to the committed offset
    taken         \* the samples of each device the process has aggregated, one by one

brokerVars == <<log, committed>>
readerVars == <<pc, position, unsaved, result>>
memoryVars == <<windows, healthState>>
repoVars   == <<latest, rolling, analyses>>
runVars    == <<run, cancelled, closed, starting, readers>>
pastVars   == <<restarts, rejoins, taken>>
vars == <<brokerVars, readerVars, memoryVars, repoVars, storageUp, runVars, pastVars>>

------------------------------------------------------------------------------
Messages(t) ==
    (IF t = "telemetry" THEN [device : Devices, sample : Samples]
                        ELSE [device : Devices, status : Reported])
    \cup IF "junk" \in Faults THEN {Junk} ELSE {}

Message(t) == log[t][position[t] + 1]
Device(t)  == Message(t).device

\* What a repository write may come to.  A done consumer context fails the call,
\* whether or not the command has reached the repository.
Landings == IF ~storageUp THEN {FALSE} ELSE IF cancelled THEN BOOLEAN ELSE {TRUE}

\* The window EvaluateMetrics looks at: "1m", else the first of a list in map order.
TargetWindows == IF "1m" \in DOMAIN Windows THEN {"1m"} ELSE DOMAIN Windows

EmptyWindows == [d \in Devices |-> [w \in DOMAIN Windows |-> << >>]]

Init ==
    /\ log = [t \in Topics |-> << >>]
    /\ committed = [t \in Topics |-> 0]
    /\ pc = [t \in Topics |-> "off"]
    /\ position = [t \in Topics |-> 0]
    /\ unsaved = {}
    /\ result = [t \in Topics |-> {}]
    /\ windows = EmptyWindows
    /\ healthState = [d \in Devices |-> None]
    /\ latest = [t \in Topics |-> [d \in Devices |-> None]]
    /\ rolling = [d \in Devices |-> [w \in DOMAIN Windows |-> None]]
    /\ analyses = [d \in Devices |-> None]
    /\ storageUp = TRUE
    /\ run = "serving"
    /\ cancelled = FALSE
    /\ closed = FALSE
    /\ starting = "called"
    /\ readers = "none"
    /\ restarts = 0 /\ rejoins = 0 /\ taken = [d \in Devices |-> << >>]

Goto(t, label) == pc' = [pc EXCEPT ![t] = label]

------------------------------------------------------------------------------
(* consumeTopic *)

CheckClosed(t) ==
    /\ pc[t] = "check"
    /\ Goto(t, IF closed THEN "exited" ELSE "fetch")
    /\ UNCHANGED <<brokerVars, position, unsaved, result, memoryVars, repoVars,
                   storageUp, runVars, pastVars>>

\* FetchMessage returns a message; what Dispatcher discards goes straight to the commit.
FetchMessage(t) ==
    /\ pc[t] = "fetch"
    /\ position[t] < Len(log[t])
    /\ Goto(t, IF Message(t) = Junk THEN "commit" ELSE "save")

\* A seeded fault: the offset is committed as the message is read.
FetchCommitting(t) ==
    /\ FetchMessage(t)
    /\ committed' = [committed EXCEPT ![t] = position[t] + 1]
    /\ UNCHANGED <<log, position, unsaved, result, memoryVars, repoVars,
                   storageUp, runVars, pastVars>>

Fetch(t) ==
    /\ FetchMessage(t)
    /\ UNCHANGED <<brokerVars, position, unsaved, result, memoryVars, repoVars,
                   storageUp, runVars, pastVars>>

FetchFails(t) ==
    /\ pc[t] = "fetch"
    /\ "fetch" \in Faults /\ ~closed
    /\ Goto(t, "backoff")
    /\ UNCHANGED <<brokerVars, position, unsaved, result, memoryVars, repoVars,
                   storageUp, runVars, pastVars>>

BackoffOver(t) ==
    /\ pc[t] = "backoff"
    /\ Goto(t, "check")
    /\ UNCHANGED <<brokerVars, position, unsaved, result, memoryVars, repoVars,
                   storageUp, runVars, pastVars>>

\* FetchMessage fails with context.Canceled, or with io.EOF because the reader is closed;
\* or the context is done during the backoff.
ExitReader(t) ==
    /\ \/ pc[t] = "fetch" /\ (cancelled \/ readers = "closed")
       \/ pc[t] = "backoff" /\ cancelled
    /\ Goto(t, "exited")
    /\ UNCHANGED <<brokerVars, position, unsaved, result, memoryVars, repoVars,
                   storageUp, runVars, pastVars>>

\* The commit has a context of its own, so a done consumer context does not fail it.
CommitSucceeds(t) ==
    /\ pc[t] = "commit"
    /\ committed' = [committed EXCEPT ![t] = position[t] + 1]
    /\ position' = [position EXCEPT ![t] = @ + 1]
    /\ Goto(t, "check")
    /\ UNCHANGED <<log, unsaved, result, memoryVars, repoVars, storageUp, runVars, pastVars>>

\* A failed commit is logged.  The reader goes on, or, its group generation being over,
\* starts again from the committed offset.
CommitFails(t) ==
    /\ pc[t] = "commit"
    /\ "commit" \in Faults \/ readers = "closed"
    /\ \/ /\ position' = [position EXCEPT ![t] = @ + 1]
          /\ UNCHANGED rejoins
       \/ /\ rejoins < MaxRejoins
          /\ rejoins' = rejoins + 1
          /\ position' = [position EXCEPT ![t] = committed[t]]
    /\ Goto(t, "check")
    /\ UNCHANGED <<brokerVars, unsaved, result, memoryVars, repoVars, storageUp, runVars,
                   restarts, taken>>

------------------------------------------------------------------------------
(* Pipeline.HandleTelemetry and Pipeline.HandleHealth: every failed write is logged *)
(* and passed over.                                                                  *)

AfterSave(t) == IF t = "telemetry" THEN "aggregate" ELSE "evaluate"

\* A seeded fault: a failed write ends the consumer.
SaveLatestOrQuit(t) ==
    /\ pc[t] = "save"
    /\ \E landed \in Landings :
          /\ latest' = IF landed THEN [latest EXCEPT ![t][Device(t)] = Message(t)] ELSE latest
          /\ Goto(t, IF landed THEN AfterSave(t) ELSE "exited")
    /\ UNCHANGED <<brokerVars, position, unsaved, result, memoryVars, rolling, analyses,
                   storageUp, runVars, pastVars>>

\* A seeded fault: an event that is already there is not replaced.
SaveLatestIfAbsent(t) ==
    /\ pc[t] = "save"
    /\ latest' = [latest EXCEPT ![t][Device(t)] = IF @ = None THEN Message(t) ELSE @]
    /\ Goto(t, AfterSave(t))
    /\ UNCHANGED <<brokerVars, position, unsaved, result, memoryVars, rolling, analyses,
                   storageUp, runVars, pastVars>>

\* SaveLatestTelemetry, SaveLatestHealth.
SaveLatest(t) ==
    /\ pc[t] = "save"
    /\ \E landed \in Landings :
          latest' = IF landed THEN [latest EXCEPT ![t][Device(t)] = Message(t)] ELSE latest
    /\ Goto(t, AfterSave(t))
    /\ UNCHANGED <<brokerVars, position, unsaved, result, memoryVars, rolling, analyses,
                   storageUp, runVars, pastVars>>

\* Engine.AddSample, for every window of the device.
Aggregate ==
    LET s == Message("telemetry").sample
    IN /\ pc["telemetry"] = "aggregate"
       /\ windows' = [windows EXCEPT ![Device("telemetry")] =
                        [w \in DOMAIN Windows |-> AddSample(@[w], s, Windows[w])]]
       /\ unsaved' = DOMAIN Windows
       /\ taken' = [taken EXCEPT ![Device("telemetry")] = Append(@, s)]
       /\ Goto("telemetry", "roll")
       /\ UNCHANGED <<brokerVars, position, result, healthState, repoVars,
                      storageUp, runVars, restarts, rejoins>>

\* A seeded fault: the metrics of one window only are saved.
SaveRollingOnce ==
    LET d == Device("telemetry")
    IN /\ pc["telemetry"] = "roll"
       /\ \E w \in unsaved : rolling' = [rolling EXCEPT ![d][w] = CalculateMetrics(windows[d][w])]
       /\ unsaved' = {}
       /\ Goto("telemetry", "evaluate")
       /\ UNCHANGED <<brokerVars, position, result, memoryVars, latest, analyses,
                      storageUp, runVars, pastVars>>

\* SaveRollingMetrics, once per window, in map order.
SaveRolling ==
    LET d == Device("telemetry")
    IN /\ pc["telemetry"] = "roll"
       /\ \E w \in unsaved :
             /\ \E landed \in Landings :
                   rolling' = IF landed
                                THEN [rolling EXCEPT ![d][w] = CalculateMetrics(windows[d][w])]
                                ELSE rolling
             /\ unsaved' = unsaved \ {w}
       /\ Goto("telemetry", IF unsaved' = {} THEN "evaluate" ELSE "roll")
       /\ UNCHANGED <<brokerVars, position, result, memoryVars, latest, analyses,
                      storageUp, runVars, pastVars>>

\* Detector.EvaluateMetrics: the metrics of the target window and the known status.
EvaluateMetrics ==
    LET d == Device("telemetry")
    IN /\ pc["telemetry"] = "evaluate"
       /\ \E w \in TargetWindows :
             result' = [result EXCEPT !["telemetry"] =
                 MetricAnomalies(CalculateMetrics(windows[d][w])) \cup HealthToAnomaly(healthState[d])]
       /\ Goto("telemetry", "analyse")
       /\ UNCHANGED <<brokerVars, position, unsaved, memoryVars, repoVars,
                      storageUp, runVars, pastVars>>

\* Detector.EvaluateHealth: the new status alone.
EvaluateHealth ==
    /\ pc["health"] = "evaluate"
    /\ healthState' = [healthState EXCEPT ![Device("health")] = Message("health").status]
    /\ result' = [result EXCEPT !["health"] = HealthToAnomaly(Message("health").status)]
    /\ Goto("health", "analyse")
    /\ UNCHANGED <<brokerVars, position, unsaved, windows, repoVars,
                   storageUp, runVars, pastVars>>

\* SaveDeviceAnalysis.
SaveAnalysis(t) ==
    /\ pc[t] = "analyse"
    /\ \E landed \in Landings :
          analyses' = IF landed THEN [analyses EXCEPT ![Device(t)] = result[t]] ELSE analyses
    /\ result' = [result EXCEPT ![t] = {}]
    /\ Goto(t, "commit")
    /\ UNCHANGED <<brokerVars, position, unsaved, memoryVars, latest, rolling,
                   storageUp, runVars, pastVars>>

------------------------------------------------------------------------------
(* KafkaConsumer.Start *)

LaunchLoops == pc' = [t \in Topics |-> "check"]

\* Start looks whether the consumer is closed, under closedMu alone.
BeginStart ==
    /\ starting = "called"
    /\ starting' = IF closed THEN "refused" ELSE "opening"
    /\ UNCHANGED <<brokerVars, readerVars, memoryVars, repoVars, storageUp,
                   run, cancelled, closed, readers, pastVars>>

\* It opens a reader per topic, under readersMu, whether or not Close came in between.
OpenReaders ==
    /\ starting = "opening"
    /\ readers' = "open"
    /\ starting' = "launching"
    /\ UNCHANGED <<brokerVars, readerVars, memoryVars, repoVars, storageUp,
                   run, cancelled, closed, pastVars>>

LaunchReaders ==
    /\ starting = "launching"
    /\ LaunchLoops
    /\ starting' = "waiting"
    /\ UNCHANGED <<brokerVars, position, unsaved, result, memoryVars, repoVars, storageUp,
                   run, cancelled, closed, readers, pastVars>>

AllExited == \A t \in Topics : pc[t] = "exited"

\* The select on ctx.Done(), then wg.Wait().
EndStart ==
    /\ starting = "waiting"
    /\ cancelled
    /\ AllExited
    /\ starting' = "returned"
    /\ UNCHANGED <<brokerVars, readerVars, memoryVars, repoVars, storageUp,
                   run, cancelled, closed, readers, pastVars>>

Starter == BeginStart \/ OpenReaders \/ LaunchReaders \/ EndStart

------------------------------------------------------------------------------
(* Service.Run *)

GoRun(from, to) == run = from /\ run' = to

\* The select in Run ends; the HTTP server is shut down.
RequestShutdown ==
    /\ "shutdown" \in Faults
    /\ GoRun("serving", "draining")
    /\ UNCHANGED <<brokerVars, readerVars, memoryVars, repoVars, storageUp,
                   cancelled, closed, starting, readers, pastVars>>

\* A seeded fault: the consumer is closed and not cancelled.
CancelNothing ==
    /\ GoRun("draining", "closing")
    /\ UNCHANGED <<brokerVars, readerVars, memoryVars, repoVars, storageUp,
                   cancelled, closed, starting, readers, pastVars>>

CancelConsumer ==
    /\ GoRun("draining", "closing")
    /\ cancelled' = TRUE
    /\ UNCHANGED <<brokerVars, readerVars, memoryVars, repoVars, storageUp,
                   closed, starting, readers, pastVars>>

\* KafkaConsumer.Close: the flag under closedMu, then the readers there are, under
\* readersMu.
CloseConsumer ==
    /\ GoRun("closing", "closingReaders")
    /\ closed' = TRUE
    /\ UNCHANGED <<brokerVars, readerVars, memoryVars, repoVars, storageUp,
                   cancelled, starting, readers, pastVars>>

CloseReaders ==
    /\ GoRun("closingReaders", "waiting")
    /\ readers' = IF readers = "open" THEN "closed" ELSE readers
    /\ UNCHANGED <<brokerVars, readerVars, memoryVars, repoVars, storageUp,
                   cancelled, closed, starting, pastVars>>

\* consumerErr is closed once Start has returned; the repository closes.
CloseRepository ==
    /\ starting \in {"refused", "returned"}
    /\ GoRun("waiting", "stopped")
    /\ UNCHANGED <<brokerVars, readerVars, memoryVars, repoVars, storageUp,
                   cancelled, closed, starting, readers, pastVars>>

Shutdown == CancelConsumer \/ CloseConsumer \/ CloseReaders \/ CloseRepository

\* The process crashes, or has stopped, and is started again: its memory is gone, the
\* repository and the committed offsets are not.
Restart ==
    /\ run = "stopped" \/ "crash" \in Faults
    /\ restarts < MaxRestarts
    /\ restarts' = restarts + 1
    /\ pc' = [t \in Topics |-> "off"]
    /\ position' = committed
    /\ taken' = [d \in Devices |-> << >>]
    /\ unsaved' = {}
    /\ result' = [t \in Topics |-> {}]
    /\ windows' = EmptyWindows
    /\ healthState' = [d \in Devices |-> None]
    /\ run' = "serving"
    /\ cancelled' = FALSE
    /\ closed' = FALSE
    /\ starting' = "called"
    /\ readers' = "none"
    /\ UNCHANGED <<brokerVars, repoVars, storageUp, rejoins>>

------------------------------------------------------------------------------
(* The world outside *)

Publish(t) ==
    /\ Len(log[t]) < MaxEvents[t]
    /\ \E m \in Messages(t) : log' = [log EXCEPT ![t] = Append(@, m)]
    /\ UNCHANGED <<committed, readerVars, memoryVars, repoVars, storageUp, runVars, pastVars>>

StorageChanges ==
    /\ "storage" \in Faults
    /\ storageUp' = ~storageUp
    /\ UNCHANGED <<brokerVars, readerVars, memoryVars, repoVars, runVars, pastVars>>

------------------------------------------------------------------------------
Consume(t) ==
    \/ CheckClosed(t) \/ Fetch(t) \/ FetchFails(t) \/ BackoffOver(t) \/ ExitReader(t)
    \/ CommitSucceeds(t) \/ CommitFails(t)
    \/ SaveLatest(t) \/ SaveAnalysis(t)

TelemetryReader == Consume("telemetry") \/ Aggregate \/ SaveRolling \/ EvaluateMetrics
HealthReader    == Consume("health") \/ EvaluateHealth

Stopped == run = "stopped" /\ UNCHANGED vars

\* Both readers wait in FetchMessage for what is never published.
Blocked ==
    /\ \A t \in Topics : pc[t] = "fetch" /\ position[t] = Len(log[t])
    /\ UNCHANGED vars

\* Everything but the producers of the two topics.
Service ==
    \/ TelemetryReader \/ HealthReader
    \/ Starter \/ RequestShutdown \/ Shutdown \/ Restart \/ StorageChanges
    \/ Stopped \/ Blocked

Next == Service \/ \E t \in Topics : Publish(t)

Spec == Init /\ [][Next]_vars

\* Goroutines are scheduled and every call they make returns (commits within three
\* seconds).  The broker does not fail every fetch for ever.  Commits may all fail: the
\* reader goes on, but for the rejoins, of which there are finitely many.
Fairness ==
    /\ WF_vars(TelemetryReader) /\ WF_vars(HealthReader)
    /\ WF_vars(Starter) /\ WF_vars(Shutdown)
    /\ \A t \in Topics : SF_vars(Fetch(t))

FairSpec == Spec /\ Fairness

------------------------------------------------------------------------------
(* Properties *)

Labels == {"off", "check", "fetch", "backoff", "save", "aggregate", "roll", "evaluate", "analyse",
           "commit", "exited"}

\* The shape of the logs, offsets, goroutine locals, memory and repository; a committed
\* offset never lies beyond what was published nor beyond the reader's own position.
TypeOK ==
    /\ \A t \in Topics :
          /\ Len(log[t]) <= MaxEvents[t] /\ \A i \in DOMAIN log[t] : log[t][i] \in Messages(t)
          /\ pc[t] \in Labels
          /\ committed[t] \in 0..position[t]
          /\ position[t] \in 0..Len(log[t])
          /\ result[t] \subseteq Anomaly
          /\ pc[t] \notin {"off", "check", "fetch", "backoff", "exited"} => position[t] < Len(log[t])
          /\ \A d \in Devices : latest[t][d] \in {None} \cup (Messages(t) \ {Junk})
    /\ unsaved \subseteq DOMAIN Windows
    /\ \A d \in Devices :
          /\ \A w \in DOMAIN Windows : rolling[d][w] \in RollingMetrics \cup {None}
          /\ healthState[d] \in Reported \cup {None}
          /\ analyses[d] = None \/ analyses[d] \subseteq Anomaly
          /\ \A i \in DOMAIN taken[d] : taken[d][i] \in Samples
    /\ storageUp \in BOOLEAN /\ cancelled \in BOOLEAN /\ closed \in BOOLEAN
    /\ run \in {"serving", "draining", "closing", "closingReaders", "waiting", "stopped"}
    /\ starting \in {"called", "refused", "opening", "launching", "waiting", "returned"}
    /\ readers \in {"none", "open", "closed"}
    /\ restarts \in 0..MaxRestarts /\ rejoins \in 0..MaxRejoins

\* The last of the first n messages of topic t that is an event of d.
LastOf(t, d, n) ==
    LET mine == {i \in 1..n : log[t][i] # Junk /\ log[t][i].device = d}
    IN IF mine = {} THEN None ELSE log[t][CHOOSE i \in mine : \A j \in mine : j <= i]

\* With storage up and no shutdown, the stored event of a device is never older than the
\* committed offset says: no crash, failed commit or redelivery loses an event, because
\* the offset moves only after the projection (consumeTopic's order of ProcessMessage
\* and CommitMessages).
ProjectionDurable ==
    Faults \cap {"storage", "shutdown"} = {} =>
        \A t \in Topics, d \in Devices :
            \E n \in committed[t]..Len(log[t]) : latest[t][d] = LastOf(t, d, n)

\* Under the same conditions a reader that is between messages has projected everything
\* it has gone past: also replays end at the newest event.
ProjectionCaughtUp ==
    Faults \cap {"storage", "shutdown"} = {} =>
        \A t \in Topics : pc[t] \in {"check", "fetch", "backoff"} /\ position[t] = Len(log[t]) =>
            \A d \in Devices : latest[t][d] = LastOf(t, d, Len(log[t]))

\* Each window holds samples the process has aggregated, redelivered ones again, at most
\* once each and in the order they came: every one that was never too old for a sample
\* after it, so that nothing fresh is lost however times jump back and forth; and, of
\* samples that came in the order of their times, no other (SlidingWindow.AddSample).
WindowsExact ==
    \A d \in Devices, w \in DOMAIN Windows :
        LET all  == taken[d]
            kept == windows[d][w]
            TooOldFor(i, j) == all[i].at < all[j].at - Windows[w]
        IN \E from \in [DOMAIN kept -> DOMAIN all] :
              /\ \A k, l \in DOMAIN kept : k < l => from[k] < from[l]
              /\ \A k \in DOMAIN kept : kept[k] = all[from[k]]
              /\ \A i \in DOMAIN all :
                    (\A j \in i..Len(all) : ~TooOldFor(i, j)) => \E k \in DOMAIN kept : from[k] = i
              /\ (\A i, j \in DOMAIN all : i <= j => all[i].at <= all[j].at) =>
                    \A k \in DOMAIN kept : ~TooOldFor(from[k], Len(all))

\* README.md:142 "filters out isolated transient spikes by enforcing an evaluation
\* threshold" of two samples: an anomaly of a metric rests on two events of the device.
SpikesFiltered ==
    \A d \in Devices :
        (analyses[d] # None /\ \E a \in analyses[d] : a.signal # "HEALTH") =>
            \E i, j \in DOMAIN log["telemetry"] :
                i # j /\ log["telemetry"][i] # Junk /\ log["telemetry"][j] # Junk
                      /\ log["telemetry"][i].device = d /\ log["telemetry"][j].device = d

\* As long as nothing was redelivered that holds: restarts, junk and eviction never make
\* one event count twice.
SpikesFilteredWithoutRedelivery == rejoins = 0 => SpikesFiltered

\* What is published on the health topic is consumed, whatever the repository, fetches and
\* crashes do: no failed write and no fetch that fails for a while stops the consumer
\* (HandleHealth swallows storage errors, consumeTopic backs off).
EventuallyConsumed ==
    \A n \in 1..MaxEvents["health"] :
        Len(log["health"]) >= n ~> (position["health"] >= n \/ run # "serving")

\* Once shutdown has begun, Run returns: both goroutines leave their loops from wherever
\* they are (unless the process crashes and is started again).
ShutdownCompletes == run = "draining" ~> (run = "stopped" \/ run = "serving")

------------------------------------------------------------------------------
(* What documents and comments say that the code does not do *)

\* README.md:312 analysis:device:{id}:health holds the "Most recent HealthEvent transition
\* payload": the event of the committed offset or a later one.
HealthKeyMostRecent ==
    \A d \in Devices :
        \E n \in committed["health"]..Len(log["health"]) :
            latest["health"][d] = LastOf("health", d, n)

\* services/analysis/README.md:58 "strict boundary-preserving sample eviction
\* (sample.Timestamp >= event.Timestamp - windowDuration)", of a device whose events were
\* published in the order of their times: no window holds a sample older than that.
StrictEviction ==
    \A d \in Devices, w \in DOMAIN Windows :
        LET sent   == log["telemetry"]
            mine   == {i \in DOMAIN sent : sent[i] # Junk /\ sent[i].device = d}
            newest == taken[d][Len(taken[d])]
        IN (\A i, j \in mine : i <= j => sent[i].sample.at <= sent[j].sample.at) =>
              \A k \in DOMAIN windows[d][w] : windows[d][w][k].at >= newest.at - Windows[w]

\* anomaly/detector.go:47 EvaluateMetrics "combines metric anomalies with any active health
\* anomalies": with everything consumed, the stored analysis of a device whose stored
\* status is DOWN says so.
OutageReported ==
    \A d \in Devices :
        ( /\ \A t \in Topics : pc[t] = "fetch" /\ position[t] = Len(log[t])
          /\ latest["health"][d] # None /\ latest["health"][d].status = "DOWN" )
        => analyses[d] # None /\ HealthToAnomaly("DOWN") \subseteq analyses[d]
==============================================================================
