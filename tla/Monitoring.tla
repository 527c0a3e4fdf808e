----------------------------- MODULE Monitoring ------------------------------
(***************************************************************************)
(* The monitoring service: one polling worker per device, the retry loop,  *)
(* the failure detector, the telemetry and health stores, the device       *)
(* gauges, the publishing of telemetry and health events, and the life     *)
(* cycle of Service.Run with its shutdown order.                           *)
(*                                                                         *)
(* One action is one stretch of code between two points where another      *)
(* goroutine can interfere: a mutex-protected call on a shared structure,  *)
(* a wait (HTTP request, backoff, ticker, select) or a publish.  Per-device *)
(* entries of the stores are written by that device's worker alone.        *)
(*                                                                         *)
(* External, modelled from how src/ uses them: the devices' answers, the   *)
(* Kafka writer, the clock behind the tickers, the operator's signal.      *)
(***************************************************************************)
EXTENDS HealthRules

CONSTANTS
    Devices,           \* the ids of the device registry
    Readings,          \* the telemetry readings a device may answer with
    FailureThreshold,  \* FAILURE_THRESHOLD
    MaxRetries,        \* MAX_RETRIES
    Conditions,        \* the conditions devices go through: "good", "flaky", "dead"
    Failures,          \* the errors devices cause: "unavailable", "unreachable", "fatal"
    PublishOutcomes,   \* what a Kafka write may come to while its context is live
    None               \* an absent map entry, an unset local

ConditionKinds == {"good", "flaky", "dead"}
DeviceErrors   == {"unavailable", "unreachable", "fatal"}
OutcomeKinds   == {"acked", "lost", "unacked"}

TrackedState == [status : {"UP", "DOWN"}, failures : 0..FailureThreshold]
Transition   == [prev : HealthStatus \cup {""}, curr : HealthStatus]

ASSUME MonitoringAssumption ==
    /\ IsFiniteSet(Devices)
    /\ Readings \subseteq Telemetry
    /\ FailureThreshold \in Nat \ {0}
    /\ MaxRetries \in Nat
    /\ Conditions \subseteq ConditionKinds /\ Conditions # {}
    /\ Failures \subseteq DeviceErrors
    /\ PublishOutcomes \subseteq OutcomeKinds /\ PublishOutcomes # {}
    /\ None \notin Telemetry
    /\ None \notin Assessment
    /\ None \notin TrackedState
    /\ None \notin Transition

VARIABLES
    \* the locals of each worker
    pc,              \* where pollWorker / pollOnce stands
    attempt,         \* the loop variable of ExecuteWithRetry
    err,             \* the error of the current cycle, "none" for success
    reading,         \* the telemetry the current cycle obtained
    counts,          \* upCount and downCount of updateDeviceGauges
    event,           \* the health transition handed to the listener
    ticker,          \* "off" before NewTicker and after Stop; its channel holds one tick
    \* the shared state of the service
    tracker, store, health, gauge,
    run,             \* where Service.Run stands
    cancelled,       \* pollCtx is done
    closed,          \* the producer is closed
    \* the world outside, and history
    condition,       \* how the device currently answers
    healthTopic,     \* per key, the last event of the health topic
    telemetryTopic,  \* per key, the last reading of the telemetry topic
    misses           \* consecutive cycles that failed through the device, up to FailureThreshold

workerVars == <<pc, attempt, err, reading, counts, event, ticker>>
storeVars  == <<tracker, store, health, gauge>>
runVars    == <<run, cancelled, closed>>
topicVars  == <<healthTopic, telemetryTopic>>
vars == <<workerVars, storeVars, runVars, topicVars, condition, misses>>

------------------------------------------------------------------------------
(* Errors of a poll.  "aborted" is the request torn down by the cancelled  *)
(* context, which client.go wraps as ErrDeviceUnreachable like any other   *)
(* transport error; "truncated" is the same cancellation met while the     *)
(* body is decoded; "ctx" is ctx.Err() returned by the retry loop itself.  *)

CancellationErrors == {"aborted", "truncated", "ctx"}
Retryable          == {"unavailable", "unreachable", "aborted"}

\* What a device may do with a request: answer with telemetry, or with HTTP 503
\* ("unavailable"), not in time or at all ("unreachable"), or with another status or
\* an undecodable body ("fatal").
MayAnswer(c)  == c \in {"good", "flaky"}
FailuresOf(c) == CASE c = "good"  -> {}
                   [] c = "flaky" -> Failures
                   [] c = "dead"  -> Failures \ {"fatal"}

\* The zero value of polling.Telemetry, used when a device never answered.
ZeroTelemetry ==
    [value |-> [m \in Metrics |-> 0], interfaceUp |-> FALSE, connectivity |-> FALSE]

ZeroCounts == [UP |-> 0, DOWN |-> 0]

------------------------------------------------------------------------------
(* StateTracker *)

AtMost(n, bound) == IF n < bound THEN n ELSE bound

\* An absent entry counts as UP with no failure.
Prior(s) == IF s = None THEN [status |-> "UP", failures |-> 0] ELSE s

\* Seeded faults, for checking that the properties of the runs can fail: DOWN one
\* failure late, failures not counted, a recovery that keeps the status, overlapping
\* counts.
TrackFailureLate(s) ==
    LET n == Prior(s).failures + 1
    IN [status   |-> IF n > FailureThreshold THEN "DOWN" ELSE Prior(s).status,
        failures |-> AtMost(n, FailureThreshold)]
TrackFailureNotCounting(s) == [status |-> Prior(s).status, failures |-> 1]
TrackSuccessKeepingStatus(s) == [status |-> Prior(s).status, failures |-> 0]
CountOverlapping ==
    LET tracked == {d \in Devices : tracker[d] # None}
    IN [UP |-> Cardinality(tracked),
        DOWN |-> Cardinality({d \in tracked : tracker[d].status = "DOWN"})]

TrackFailure(s) ==
    LET n == Prior(s).failures + 1
    IN [status   |-> IF n >= FailureThreshold THEN "DOWN" ELSE Prior(s).status,
        failures |-> AtMost(n, FailureThreshold)]

TrackSuccess(s) == [status |-> "UP", failures |-> 0]

\* The counts updateDeviceGauges takes from one snapshot of the tracker.
CountStates ==
    LET tracked == {d \in Devices : tracker[d] # None}
        down    == {d \in tracked : tracker[d].status = "DOWN"}
    IN [UP |-> Cardinality(tracked \ down), DOWN |-> Cardinality(down)]

------------------------------------------------------------------------------
(* ServiceEvaluator and EventPublisher *)

\* Seeded faults: no previous status is looked up; the two statuses are swapped.
PrevStatusForgotten(a) == ""
TransitionSwapped(prev, curr) ==
    IF prev = curr THEN None ELSE [prev |-> curr, curr |-> prev]

PrevStatusAfterSuccess(a) == IF a = None THEN "" ELSE a.status

\* A device that was never assessed is presumed healthy when it fails.
PrevStatusAfterFailure(a) == IF a = None THEN "HEALTHY" ELSE a.status

\* The event handed to the listener, if the status changed.
TransitionFrom(prev, curr) ==
    IF prev = curr THEN None ELSE [prev |-> prev, curr |-> curr]

\* A Kafka write: "acked" is stored and acknowledged, "unacked" is stored although
\* the call reports an error, "lost" is neither.  A closed producer refuses; a done
\* context makes the call fail, whether or not the batch still goes out.
Outcomes(ctxDone) ==
    IF closed THEN {"lost"}
    ELSE IF ctxDone THEN PublishOutcomes \cup {"lost", "unacked"}
    ELSE PublishOutcomes

Stored(outcome) == outcome \in {"acked", "unacked"}

------------------------------------------------------------------------------
Init ==
    /\ pc = [d \in Devices |-> "poll"]
    /\ attempt = [d \in Devices |-> 0]
    /\ err = [d \in Devices |-> "none"]
    /\ reading = [d \in Devices |-> None]
    /\ counts = [d \in Devices |-> ZeroCounts]
    /\ event = [d \in Devices |-> None]
    /\ ticker = [d \in Devices |-> "off"]
    /\ tracker = [d \in Devices |-> None]
    /\ store = [d \in Devices |-> None]
    /\ health = [d \in Devices |-> None]
    /\ gauge = ZeroCounts
    /\ run = "serving"
    /\ cancelled = FALSE
    /\ closed = FALSE
    /\ condition \in [Devices -> Conditions]
    /\ healthTopic = [d \in Devices |-> None]
    /\ telemetryTopic = [d \in Devices |-> None]
    /\ misses = [d \in Devices |-> 0]

Goto(d, label) == pc' = [pc EXCEPT ![d] = label]

\* pollOnce returns to pollWorker; its locals go out of scope.  NewTicker runs
\* after the first cycle.
EndCycle(d) ==
    /\ Goto(d, "wait")
    /\ attempt' = [attempt EXCEPT ![d] = 0]
    /\ err' = [err EXCEPT ![d] = "none"]
    /\ reading' = [reading EXCEPT ![d] = None]
    /\ counts' = [counts EXCEPT ![d] = ZeroCounts]
    /\ event' = [event EXCEPT ![d] = None]
    /\ ticker' = [ticker EXCEPT ![d] = IF @ = "off" THEN "idle" ELSE @]

------------------------------------------------------------------------------
(* ExecuteWithRetry *)

\* The context check before an attempt, passed: the request is sent.
BeginAttempt(d) ==
    /\ pc[d] = "poll"
    /\ ~cancelled
    /\ Goto(d, "request")
    /\ UNCHANGED <<attempt, err, reading, counts, event, ticker,
                   storeVars, runVars, topicVars, condition, misses>>

FailCycle(d, e) ==
    /\ err' = [err EXCEPT ![d] = e]
    /\ Goto(d, "fail")

\* The context check before an attempt, or the select during the backoff, finds the
\* context done.
GiveUp(d) ==
    /\ pc[d] \in {"poll", "backoff"}
    /\ cancelled
    /\ FailCycle(d, "ctx")
    /\ UNCHANGED <<attempt, reading, counts, event, ticker,
                   storeVars, runVars, topicVars, condition, misses>>

\* Seeded faults: the last attempt is never made; one attempt too many is.
MayRetryOnceLess(d, e) == e \in Retryable /\ attempt[d] + 1 < MaxRetries
MayRetryOnceMore(d, e) == e \in Retryable /\ attempt[d] <= MaxRetries

MayRetry(d, e) == e \in Retryable /\ attempt[d] < MaxRetries

\* The attempt failed with e: back off, or fail the cycle.
AttemptFailed(d, e) ==
    /\ pc[d] = "request"
    /\ IF MayRetry(d, e)
         THEN Goto(d, "backoff") /\ err' = [err EXCEPT ![d] = e]
         ELSE FailCycle(d, e)
    /\ UNCHANGED <<attempt, reading, counts, event, ticker,
                   storeVars, runVars, topicVars, condition, misses>>

DeviceAnswers(d) ==
    /\ pc[d] = "request"
    /\ MayAnswer(condition[d])
    /\ \E t \in Readings : reading' = [reading EXCEPT ![d] = t]
    /\ err' = [err EXCEPT ![d] = "none"]
    /\ Goto(d, "store")
    /\ UNCHANGED <<attempt, counts, event, ticker,
                   storeVars, runVars, topicVars, condition, misses>>

DeviceFails(d) == \E e \in FailuresOf(condition[d]) : AttemptFailed(d, e)

\* The cancelled context reaches the request before the answer does.
RequestAborted(d) == cancelled /\ \E e \in {"aborted", "truncated"} : AttemptFailed(d, e)

BackoffOver(d) ==
    /\ pc[d] = "backoff"
    /\ attempt' = [attempt EXCEPT ![d] = @ + 1]
    /\ Goto(d, "poll")
    /\ UNCHANGED <<err, reading, counts, event, ticker,
                   storeVars, runVars, topicVars, condition, misses>>

------------------------------------------------------------------------------
(* pollOnce *)

RecordFailure(d) ==
    /\ pc[d] = "fail"
    /\ tracker' = [tracker EXCEPT ![d] = TrackFailure(@)]
    /\ misses' = [misses EXCEPT ![d] =
                    IF err[d] \in DeviceErrors THEN AtMost(@ + 1, FailureThreshold) ELSE @]
    /\ Goto(d, "snapshot")
    /\ UNCHANGED <<attempt, err, reading, counts, event, ticker,
                   store, health, gauge, runVars, topicVars, condition>>

StoreTelemetry(d) ==
    /\ pc[d] = "store"
    /\ store' = [store EXCEPT ![d] = reading[d]]
    /\ Goto(d, "success")
    /\ UNCHANGED <<attempt, err, reading, counts, event, ticker,
                   tracker, health, gauge, runVars, topicVars, condition, misses>>

RecordSuccess(d) ==
    /\ pc[d] = "success"
    /\ tracker' = [tracker EXCEPT ![d] = TrackSuccess(@)]
    /\ misses' = [misses EXCEPT ![d] = 0]
    /\ Goto(d, "snapshot")
    /\ UNCHANGED <<attempt, err, reading, counts, event, ticker,
                   store, health, gauge, runVars, topicVars, condition>>

\* updateDeviceGauges: one snapshot, then two separate writes.
SnapshotStates(d) ==
    /\ pc[d] = "snapshot"
    /\ counts' = [counts EXCEPT ![d] = CountStates]
    /\ Goto(d, "setUp")
    /\ UNCHANGED <<attempt, err, reading, event, ticker,
                   storeVars, runVars, topicVars, condition, misses>>

SetUpGauge(d) ==
    /\ pc[d] = "setUp"
    /\ gauge' = [gauge EXCEPT !.UP = counts[d].UP]
    /\ Goto(d, "setDown")
    /\ UNCHANGED <<attempt, err, reading, counts, event, ticker,
                   tracker, store, health, runVars, topicVars, condition, misses>>

SetDownGauge(d) ==
    /\ pc[d] = "setDown"
    /\ gauge' = [gauge EXCEPT !.DOWN = counts[d].DOWN]
    /\ Goto(d, "assess")
    /\ UNCHANGED <<attempt, err, reading, counts, event, ticker,
                   tracker, store, health, runVars, topicVars, condition, misses>>

\* RecordPollSuccess up to the listener.
AssessSuccess(d) ==
    LET a == Evaluate(reading[d], FALSE)
        e == TransitionFrom(PrevStatusAfterSuccess(health[d]), a.status)
    IN /\ pc[d] = "assess" /\ err[d] = "none"
       /\ health' = [health EXCEPT ![d] = a]
       /\ event' = [event EXCEPT ![d] = e]
       /\ Goto(d, IF e = None THEN "publish" ELSE "announce")
       /\ UNCHANGED <<attempt, err, reading, counts, ticker,
                      tracker, store, gauge, runVars, topicVars, condition, misses>>

\* RecordPollFailure returns at once while the device is not DOWN.
SkipAssessment(d) ==
    /\ pc[d] = "assess" /\ err[d] # "none"
    /\ tracker[d].status # "DOWN"
    /\ EndCycle(d)
    /\ UNCHANGED <<storeVars, runVars, topicVars, condition, misses>>

\* RecordPollFailure of a DOWN device, up to the listener.
AssessFailure(d) ==
    LET t == IF store[d] = None THEN ZeroTelemetry ELSE store[d]
        a == Evaluate(t, TRUE)
        e == TransitionFrom(PrevStatusAfterFailure(health[d]), a.status)
    IN /\ pc[d] = "assess" /\ err[d] # "none"
       /\ tracker[d].status = "DOWN"
       /\ health' = [health EXCEPT ![d] = a]
       /\ \/ /\ e = None
             /\ EndCycle(d)
          \/ /\ e # None
             /\ event' = [event EXCEPT ![d] = e]
             /\ Goto(d, "announce")
             /\ UNCHANGED <<attempt, err, reading, counts, ticker>>
       /\ UNCHANGED <<tracker, store, gauge, runVars, topicVars, condition, misses>>

\* OnHealthTransition: the write uses context.Background(), so a done pollCtx does
\* not fail it.  A failure is logged and the event is forgotten.
AnnounceTransition(d) ==
    /\ pc[d] = "announce"
    /\ \E o \in Outcomes(FALSE) :
          healthTopic' = [healthTopic EXCEPT ![d] = IF Stored(o) THEN event[d] ELSE @]
    /\ \/ /\ err[d] = "none"
          /\ event' = [event EXCEPT ![d] = None]
          /\ Goto(d, "publish")
          /\ UNCHANGED <<attempt, err, reading, counts, ticker>>
       \/ /\ err[d] # "none"
          /\ EndCycle(d)
    /\ UNCHANGED <<storeVars, runVars, telemetryTopic, condition, misses>>

\* A seeded fault: the reading is not published.
SkipPublishing(d) ==
    /\ pc[d] = "publish"
    /\ EndCycle(d)
    /\ UNCHANGED <<storeVars, runVars, topicVars, condition, misses>>

\* PublishTelemetry: the write uses pollCtx.
PublishTelemetry(d) ==
    /\ pc[d] = "publish"
    /\ \E o \in Outcomes(cancelled) :
          telemetryTopic' = [telemetryTopic EXCEPT ![d] = IF Stored(o) THEN reading[d] ELSE @]
    /\ EndCycle(d)
    /\ UNCHANGED <<storeVars, runVars, healthTopic, condition, misses>>

------------------------------------------------------------------------------
(* pollWorker: the select takes either ready case. *)

Tick(d) ==
    /\ pc[d] = "wait"
    /\ ticker[d] = "due"
    /\ ticker' = [ticker EXCEPT ![d] = "idle"]
    /\ Goto(d, "poll")
    /\ UNCHANGED <<attempt, err, reading, counts, event,
                   storeVars, runVars, topicVars, condition, misses>>

ExitWorker(d) ==
    /\ pc[d] = "wait"
    /\ cancelled
    /\ ticker' = [ticker EXCEPT ![d] = "off"]
    /\ Goto(d, "exited")
    /\ UNCHANGED <<attempt, err, reading, counts, event,
                   storeVars, runVars, topicVars, condition, misses>>

------------------------------------------------------------------------------
(* Service.Run *)

AllExited == \A d \in Devices : pc[d] = "exited"

GoRun(from, to) == run = from /\ run' = to

\* ctx.Done() of the select in Run.
RequestShutdown ==
    /\ GoRun("serving", "draining")
    /\ UNCHANGED <<workerVars, storeVars, cancelled, closed, topicVars, condition, misses>>

\* server.Shutdown and the receive from serverErr.
DrainServer ==
    /\ GoRun("draining", "cancelling")
    /\ UNCHANGED <<workerVars, storeVars, cancelled, closed, topicVars, condition, misses>>

\* The serverErr case of the select: ListenAndServe failed.
ServerFails ==
    /\ GoRun("serving", "cancelling")
    /\ UNCHANGED <<workerVars, storeVars, cancelled, closed, topicVars, condition, misses>>

\* A seeded fault: cancelPoll is forgotten.
CancelNothing ==
    /\ GoRun("cancelling", "waiting")
    /\ UNCHANGED <<workerVars, storeVars, cancelled, closed, topicVars, condition, misses>>

CancelPolling ==
    /\ GoRun("cancelling", "waiting")
    /\ cancelled' = TRUE
    /\ UNCHANGED <<workerVars, storeVars, closed, topicVars, condition, misses>>

\* A seeded fault: engine.Wait returns before the workers have.
WaitForNobody ==
    /\ GoRun("waiting", "closing")
    /\ UNCHANGED <<workerVars, storeVars, cancelled, closed, topicVars, condition, misses>>

WaitForWorkers ==
    /\ AllExited
    /\ GoRun("waiting", "closing")
    /\ UNCHANGED <<workerVars, storeVars, cancelled, closed, topicVars, condition, misses>>

CloseProducer ==
    /\ GoRun("closing", "stopped")
    /\ closed' = TRUE
    /\ UNCHANGED <<workerVars, storeVars, cancelled, topicVars, condition, misses>>

------------------------------------------------------------------------------
(* The world outside *)

TickerFires(d) ==
    /\ ticker[d] = "idle"
    /\ ticker' = [ticker EXCEPT ![d] = "due"]
    /\ UNCHANGED <<pc, attempt, err, reading, counts, event,
                   storeVars, runVars, topicVars, condition, misses>>

ConditionChanges(d) ==
    /\ \E c \in Conditions \ {condition[d]} : condition' = [condition EXCEPT ![d] = c]
    /\ UNCHANGED <<workerVars, storeVars, runVars, topicVars, misses>>

------------------------------------------------------------------------------
Cycle(d) ==
    \/ BeginAttempt(d) \/ DeviceAnswers(d) \/ DeviceFails(d) \/ RequestAborted(d)
    \/ BackoffOver(d) \/ GiveUp(d)
    \/ RecordFailure(d) \/ StoreTelemetry(d) \/ RecordSuccess(d)
    \/ SnapshotStates(d) \/ SetUpGauge(d) \/ SetDownGauge(d)
    \/ AssessSuccess(d) \/ SkipAssessment(d) \/ AssessFailure(d)
    \/ AnnounceTransition(d) \/ PublishTelemetry(d)

Worker(d) == Cycle(d) \/ Tick(d) \/ ExitWorker(d)

Shutdown == DrainServer \/ CancelPolling \/ WaitForWorkers \/ CloseProducer

\* The process has returned from Run.
Stopped == run = "stopped" /\ UNCHANGED vars

Polling == \E d \in Devices : Worker(d) \/ TickerFires(d) \/ ConditionChanges(d)

Next ==
    \/ Polling
    \/ RequestShutdown \/ ServerFails \/ Shutdown
    \/ Stopped

Spec == Init /\ [][Next]_vars

\* Goroutines are scheduled, a request ends within the client's timeout, a Kafka write
\* within the writer's, server.Shutdown within three seconds; tickers tick.  select
\* chooses among ready cases at random, so a done context is not passed over for ever.
\* Nothing is assumed of the devices, the operator or the HTTP server.
Fairness ==
    /\ \A d \in Devices :
          WF_vars(Worker(d)) /\ SF_vars(ExitWorker(d)) /\ WF_vars(TickerFires(d))
    /\ WF_vars(Shutdown)

FairSpec == Spec /\ Fairness

\* The behaviours in which nothing ever ends the service.
ServingSpec == Init /\ [][Polling]_vars /\ Fairness

------------------------------------------------------------------------------
(* Properties *)

Labels == {"poll", "request", "backoff", "fail", "store", "success", "snapshot", "setUp",
           "setDown", "assess", "announce", "publish", "wait", "exited"}

Counts == [UP : 0..Cardinality(Devices), DOWN : 0..Cardinality(Devices)]

\* Every variable keeps its type: the shape of the maps, gauges and worker locals.
TypeOK ==
    /\ pc \in [Devices -> Labels]
    /\ attempt \in [Devices -> 0..MaxRetries]
    /\ err \in [Devices -> DeviceErrors \cup CancellationErrors \cup {"none"}]
    /\ reading \in [Devices -> Readings \cup {None}]
    /\ counts \in [Devices -> Counts]
    /\ event \in [Devices -> Transition \cup {None}]
    /\ ticker \in [Devices -> {"off", "idle", "due"}]
    /\ tracker \in [Devices -> TrackedState \cup {None}]
    /\ store \in [Devices -> Readings \cup {None}]
    /\ health \in [Devices -> Assessment \cup {None}]
    /\ gauge \in Counts
    /\ run \in {"serving", "draining", "cancelling", "waiting", "closing", "stopped"}
    /\ cancelled \in BOOLEAN
    /\ closed \in BOOLEAN
    /\ condition \in [Devices -> Conditions]
    /\ healthTopic \in [Devices -> Transition \cup {None}]
    /\ telemetryTopic \in [Devices -> Readings \cup {None}]
    /\ misses \in [Devices -> 0..FailureThreshold]

Down(d) == tracker[d] # None /\ tracker[d].status = "DOWN"
Idle(d) == pc[d] \in {"wait", "exited"}
StatusOf(d) == IF health[d] = None THEN "" ELSE health[d].status

\* While polling has not been cancelled the tracker says DOWN of exactly the devices
\* that have failed FailureThreshold consecutive poll cycles, and counts the failures
\* of the others exactly: no retry, success or interleaving loses or adds one
\* (StateTracker.RecordFailure and RecordSuccess under the retry loop).
DownExactlyAtThreshold ==
    ~cancelled =>
        \A d \in Devices :
            /\ Prior(tracker[d]).failures = misses[d]
            /\ Down(d) <=> misses[d] = FailureThreshold

\* Between cycles the three stores tell one story about a device: DOWN in the tracker
\* means assessed DOWN; otherwise the assessment is the evaluation of the stored
\* telemetry, and without telemetry there is no assessment (pollOnce's order of
\* store.Set, RecordSuccess/RecordFailure and RecordPollSuccess/RecordPollFailure).
StoresAgreeWhenIdle ==
    \A d \in Devices : Idle(d) =>
        IF Down(d) THEN StatusOf(d) = "DOWN"
        ELSE health[d] = IF store[d] = None THEN None ELSE Evaluate(store[d], FALSE)

\* The scores of the four statuses lie in bands that do not overlap and are ordered by
\* severity, so that a fleet sorted by score is sorted by status; the cap of the CRITICAL
\* band keeps it below DOWN (the score calculation of health/evaluator.go).
ScoreBands ==
    \A d \in Devices : health[d] # None => health[d].score \in Band[health[d].status]

\* Between cycles the score a device is left with ranks it among all readings: DOWN by its
\* polls, it ranks as high as any; otherwise no reading that is at least as bad in every
\* signal would rank lower, also where a metric leaves the warning count to enter the
\* critical one (Evaluate over the telemetry RecordPollSuccess and RecordPollFailure give it).
ScoresRank ==
    \A d \in Devices : Idle(d) /\ health[d] # None =>
        \A t \in Readings :
            /\ Down(d) => health[d].score >= Evaluate(t, FALSE).score
            /\ (~Down(d) /\ AtLeastAsBad(t, store[d])) =>
                 health[d].score <= Evaluate(t, FALSE).score

\* With a broker that takes every write, the last event of the health topic names the
\* status the service holds whenever the device's worker is between cycles, also after
\* shutdown: no transition dies with the producer (OnHealthTransition's background
\* context, engine.Wait before producer.Close in Run).
HealthTopicCurrent ==
    PublishOutcomes = {"acked"} =>
        \A d \in Devices : Idle(d) =>
            StatusOf(d) = IF healthTopic[d] = None THEN "" ELSE healthTopic[d].curr

\* With such a broker, and until polling is cancelled, the telemetry topic's last
\* reading is the stored one between cycles: every successful cycle is published
\* (pollOnce's PublishTelemetry after store.Set).
TelemetryTopicCurrent ==
    (PublishOutcomes = {"acked"} /\ ~cancelled) =>
        \A d \in Devices : Idle(d) => telemetryTopic[d] = store[d]

\* A cycle is given up on a transient error only when all MaxRetries + 1 attempts are
\* spent (ExecuteWithRetry).
RetriesExhausted ==
    \A d \in Devices :
        (pc[d] = "fail" /\ err[d] \in {"unavailable", "unreachable"}) => attempt[d] = MaxRetries

\* The health topic as its readers are promised it, see HealthFeed.
Feed == INSTANCE HealthFeed
    WITH Statuses  <- HealthStatus,
         Initial   <- "",
         Presumed  <- {"", "HEALTHY"},
         NoEvent   <- None,
         MayLose   <- PublishOutcomes # {"acked"},
         assessed  <- [d \in Devices |-> StatusOf(d)],
         owed      <- event,
         announced <- healthTopic

\* Every change of a device's health status is offered to the health topic exactly
\* once, in order and before the next change, naming the statuses it lies between
\* (ServiceEvaluator and EventPublisher implement HealthFeed).
ImplementsFeed == Feed!Spec

\* And, goroutines and broker calls being scheduled, each offer is eventually made.
ImplementsFairFeed == Feed!FairSpec

\* A device that stays dead while the service polls is eventually DOWN for good in the
\* tracker, in its assessment and, the broker taking every write, on the health topic.
OutageDetected ==
    \A d \in Devices :
        <>[](condition[d] = "dead" /\ ~cancelled) =>
        <>[](/\ Down(d)
             /\ StatusOf(d) = "DOWN"
             /\ PublishOutcomes = {"acked"} => healthTopic[d] # None /\ healthTopic[d].curr = "DOWN")

\* A device that stays good while the service polls is eventually UP for good, and
\* assessed by its readings rather than by the outage before.
RecoveryDetected ==
    \A d \in Devices :
        <>[](condition[d] = "good" /\ ~cancelled) =>
        <>[](/\ tracker[d] # None /\ ~Down(d)
             /\ \E t \in Readings : StatusOf(d) = Evaluate(t, FALSE).status)

\* Once Run has left its select it returns: workers in a request, a backoff or a
\* publish all finish, none is waited for in vain.
ShutdownCompletes == run # "serving" ~> run = "stopped"

\* The gauges heal: if the set of DOWN devices settles while polling goes on, both
\* gauges eventually show it and stay so, whatever interleaving of updateDeviceGauges
\* left in them before.
GaugesSettle ==
    \A S \in SUBSET Devices :
        <>[](~cancelled /\ {d \in Devices : Down(d)} = S) =>
        <>[](gauge = [UP |-> Cardinality(Devices \ S), DOWN |-> Cardinality(S)])

------------------------------------------------------------------------------
(* What documents and comments say that the code does not do *)

\* README.md:139 "A device is marked DOWN only after 3 consecutive poll failures."
\* Polls the service cancels itself are counted too: a device that has failed once less
\* than the threshold in a row is marked DOWN by its shutdown.
DownOnlyAfterDeviceFailures ==
    \A d \in Devices : misses[d] = FailureThreshold - 1 => ~Down(d)
==============================================================================
