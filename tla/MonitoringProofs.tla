--------------------------- MODULE MonitoringProofs ---------------------------
(***************************************************************************)
(* Monitoring, for every set of devices, every threshold, retry budget and *)
(* broker: type correctness, the exactness of the failure detector, the    *)
(* agreement of the stores between cycles, the currency of both topics,    *)
(* the retry budget, the scores, and that the service implements           *)
(* HealthFeed.                                                             *)
(***************************************************************************)
EXTENDS Monitoring, HealthRulesProofs

\* A device's entry after a failure or a success is a tracked state.
LEMMA TrackType ==
  ASSUME NEW s \in TrackedState \cup {None}
  PROVE  TrackFailure(s) \in TrackedState /\ TrackSuccess(s) \in TrackedState
  BY MonitoringAssumption DEF TrackFailure, TrackSuccess, TrackedState, Prior, AtMost

\* The gauge counts are bounded by the number of devices.
LEMMA CountsType == CountStates \in Counts
<1>. DEFINE tracked == {d \in Devices : tracker[d] # None}
            down    == {d \in tracked : tracker[d].status = "DOWN"}
<1>1. ASSUME NEW S \in SUBSET Devices
      PROVE  Cardinality(S) \in 0..Cardinality(Devices)
  BY <1>1, MonitoringAssumption, FS_Subset, FS_CardinalityType
<1>2. down \in SUBSET Devices /\ tracked \ down \in SUBSET Devices
  OBVIOUS
<1>3. Cardinality(down) \in 0..Cardinality(Devices)
  BY <1>1, <1>2
<1>4. Cardinality(tracked \ down) \in 0..Cardinality(Devices)
  BY <1>1, <1>2
<1>. QED
  BY <1>3, <1>4 DEF CountStates, Counts

\* The zero counts are counts.
LEMMA ZeroCountsType == ZeroCounts \in Counts
  BY MonitoringAssumption, FS_CardinalityType DEF ZeroCounts, Counts

\* A status change is written as an event between two different statuses.
LEMMA TransitionType ==
  ASSUME NEW p \in HealthStatus \cup {""}, NEW c \in HealthStatus
  PROVE  TransitionFrom(p, c) \in Transition \cup {None}
  BY DEF TransitionFrom, Transition

\* An event is not the absent one.
LEMMA EventPresent ==
  ASSUME NEW p \in HealthStatus \cup {""}, NEW c \in HealthStatus
  PROVE  [prev |-> p, curr |-> c] # None
<1>1. [prev |-> p, curr |-> c] \in Transition
  BY DEF Transition
<1>2. None \notin Transition
  BY MonitoringAssumption
<1>. QED
  BY <1>1, <1>2

\* The reading evaluated for a device that is DOWN is one, stored or zero.
LEMMA ZeroTelemetryType == ZeroTelemetry \in Telemetry
  BY DEF ZeroTelemetry, Telemetry

------------------------------------------------------------------------------

\* Ending a cycle resets the locals of the worker to values of their types.
LEMMA EndCycleType ==
  ASSUME TypeOK, NEW d \in Devices, EndCycle(d)
  PROVE  /\ pc' \in [Devices -> Labels]
         /\ attempt' \in [Devices -> 0..MaxRetries]
         /\ err' \in [Devices -> DeviceErrors \cup CancellationErrors \cup {"none"}]
         /\ reading' \in [Devices -> Readings \cup {None}]
         /\ counts' \in [Devices -> Counts]
         /\ event' \in [Devices -> Transition \cup {None}]
         /\ ticker' \in [Devices -> {"off", "idle", "due"}]
  BY MonitoringAssumption, ZeroCountsType DEF TypeOK, EndCycle, Goto, Labels

\* Where a worker stands tells how its cycle went: a cycle that is failing has an
\* error, one that is succeeding has none, and a cycle without an error past its
\* request holds the reading it obtained.
ControlOK(d) ==
    /\ pc[d] \in {"backoff", "fail"} => err[d] # "none"
    /\ pc[d] = "backoff" => attempt[d] < MaxRetries
    /\ pc[d] \in {"store", "success", "publish"} => err[d] = "none"
    /\ (/\ pc[d] \in {"store", "success", "snapshot", "setUp", "setDown", "assess",
                      "announce", "publish"}
        /\ err[d] = "none") => reading[d] \in Readings

\* The type invariant is inductive together with the control invariant: without it a
\* worker could evaluate a reading it never obtained.
TypeInv == TypeOK /\ \A d \in Devices : ControlOK(d)

\* What the environment answers is an error of the device.
LEMMA FailuresType ==
  ASSUME TypeOK, NEW d \in Devices
  PROVE  FailuresOf(condition[d]) \in SUBSET DeviceErrors
<1>1. condition[d] = "good" \/ condition[d] = "flaky" \/ condition[d] = "dead"
  BY MonitoringAssumption DEF TypeOK, ConditionKinds
<1>2. Failures \in SUBSET DeviceErrors
  BY MonitoringAssumption
<1>. QED
  BY <1>1, <1>2 DEF FailuresOf

\* The statuses a transition starts from.
LEMMA PrevStatusType ==
  ASSUME NEW a \in Assessment \cup {None}
  PROVE  /\ PrevStatusAfterSuccess(a) \in HealthStatus \cup {""}
         /\ PrevStatusAfterFailure(a) \in HealthStatus \cup {""}
  BY DEF PrevStatusAfterSuccess, PrevStatusAfterFailure, Assessment, HealthStatus

\* Every step of a poll cycle keeps the types.
LEMMA CycleType ==
  ASSUME TypeInv, NEW d \in Devices, Cycle(d)
  PROVE  TypeOK'
<1>. USE MonitoringAssumption
     DEF TypeInv, TypeOK, Labels, Goto, storeVars, runVars, topicVars
<1>1. CASE BeginAttempt(d)
  BY <1>1 DEF BeginAttempt
<1>2. CASE DeviceAnswers(d)
  BY <1>2 DEF DeviceAnswers
<1>3. ASSUME NEW e \in DeviceErrors \cup CancellationErrors, AttemptFailed(d, e)
      PROVE  TypeOK'
  BY <1>3 DEF AttemptFailed, FailCycle
<1>4. CASE DeviceFails(d)
  BY <1>3, <1>4, FailuresType DEF DeviceFails
<1>5. CASE RequestAborted(d)
  BY <1>3, <1>5 DEF RequestAborted, CancellationErrors
<1>6. CASE BackoffOver(d)
  BY <1>6 DEF BackoffOver, ControlOK
<1>7. CASE GiveUp(d)
  BY <1>7 DEF GiveUp, FailCycle, CancellationErrors
<1>8. CASE RecordFailure(d)
  BY <1>8, TrackType DEF RecordFailure, AtMost
<1>9. CASE StoreTelemetry(d)
  BY <1>9 DEF StoreTelemetry
<1>10. CASE RecordSuccess(d)
  BY <1>10, TrackType DEF RecordSuccess
<1>11. CASE SnapshotStates(d)
  BY <1>11, CountsType DEF SnapshotStates
<1>12. CASE SetUpGauge(d)
  BY <1>12 DEF SetUpGauge, Counts
<1>13. CASE SetDownGauge(d)
  BY <1>13 DEF SetDownGauge, Counts
<1>14. CASE AssessSuccess(d)
  <2>. DEFINE a == Evaluate(reading[d], FALSE)
              e == TransitionFrom(PrevStatusAfterSuccess(health[d]), a.status)
  <2>1. reading[d] \in Telemetry
    BY <1>14 DEF AssessSuccess, ControlOK
  <2>2. a \in Assessment /\ a.status \in HealthStatus
    BY <2>1, EvaluateType DEF Assessment
  <2>3. e \in Transition \cup {None}
    <3>1. PrevStatusAfterSuccess(health[d]) \in HealthStatus \cup {""}
      BY PrevStatusType
    <3>. QED
      BY <2>2, <3>1, TransitionType
  <2>4. /\ health' = [health EXCEPT ![d] = a]
        /\ event' = [event EXCEPT ![d] = e]
        /\ pc' \in [Devices -> Labels]
        /\ UNCHANGED <<attempt, err, reading, counts, ticker,
                       tracker, store, gauge, runVars, topicVars, condition, misses>>
    BY <1>14 DEF AssessSuccess
  <2>. HIDE DEF a, e
  <2>. QED
    BY <2>2, <2>3, <2>4
<1>15. CASE SkipAssessment(d)
  BY <1>15, EndCycleType DEF SkipAssessment
<1>16. CASE AssessFailure(d)
  <2>. DEFINE t == IF store[d] = None THEN ZeroTelemetry ELSE store[d]
              a == Evaluate(t, TRUE)
              e == TransitionFrom(PrevStatusAfterFailure(health[d]), a.status)
  <2>1. t \in Telemetry
    BY ZeroTelemetryType
  <2>2. a \in Assessment /\ a.status \in HealthStatus
    <3>. HIDE DEF t
    <3>. QED
      BY <2>1, EvaluateType DEF Assessment
  <2>3. e \in Transition \cup {None}
    <3>1. PrevStatusAfterFailure(health[d]) \in HealthStatus \cup {""}
      BY PrevStatusType
    <3>. QED
      BY <2>2, <3>1, TransitionType
  <2>4. /\ health' = [health EXCEPT ![d] = a]
        /\ \/ EndCycle(d)
           \/ /\ event' = [event EXCEPT ![d] = e]
              /\ Goto(d, "announce")
              /\ UNCHANGED <<attempt, err, reading, counts, ticker>>
        /\ UNCHANGED <<tracker, store, gauge, runVars, topicVars, condition, misses>>
    BY <1>16 DEF AssessFailure
  <2>. HIDE DEF a, e
  <2>5. CASE EndCycle(d)
    BY <2>2, <2>4, <2>5, EndCycleType
  <2>6. CASE /\ event' = [event EXCEPT ![d] = e]
             /\ Goto(d, "announce")
             /\ UNCHANGED <<attempt, err, reading, counts, ticker>>
    BY <2>2, <2>3, <2>4, <2>6
  <2>. QED
    BY <2>4, <2>5, <2>6
<1>17. CASE AnnounceTransition(d)
  <2>1. healthTopic' \in [Devices -> Transition \cup {None}]
    BY <1>17 DEF AnnounceTransition
  <2>2. CASE err[d] = "none"
    BY <1>17, <2>1, <2>2 DEF AnnounceTransition
  <2>3. CASE err[d] # "none"
    BY <1>17, <2>1, <2>3, EndCycleType DEF AnnounceTransition
  <2>. QED
    BY <2>2, <2>3
<1>18. CASE PublishTelemetry(d)
  BY <1>18, EndCycleType DEF PublishTelemetry
<1>. QED
  BY <1>1, <1>2, <1>4, <1>5, <1>6, <1>7, <1>8, <1>9, <1>10, <1>11, <1>12, <1>13,
     <1>14, <1>15, <1>16, <1>17, <1>18 DEF Cycle

------------------------------------------------------------------------------

\* The tracker marks DOWN exactly the counts at the threshold, and counts what history
\* counts as long as no error comes from a cancelled context.
DetectorOK(d) ==
    /\ Down(d) <=> Prior(tracker[d]).failures = FailureThreshold
    /\ ~cancelled => /\ err[d] \notin CancellationErrors
                     /\ Prior(tracker[d]).failures = misses[d]

\* The assessment is the evaluation of the stored reading, if there is one.
AssessedAsStored(d) ==
    health[d] = IF store[d] = None THEN None ELSE Evaluate(store[d], FALSE)

\* StoresAgreeWhenIdle, carried through the cycle: which of the three stores have
\* already been written at each label.
StoresOK(d) ==
    /\ pc[d] \in {"poll", "request", "backoff", "fail", "store", "wait", "exited"} =>
         IF Down(d) THEN StatusOf(d) = "DOWN" ELSE AssessedAsStored(d)
    /\ pc[d] \in {"snapshot", "setUp", "setDown", "assess", "announce", "publish"} =>
         tracker[d] # None
    /\ err[d] = "none" =>
         /\ pc[d] \in {"success", "snapshot", "setUp", "setDown", "assess", "announce",
                       "publish"} => store[d] = reading[d]
         /\ pc[d] \in {"snapshot", "setUp", "setDown", "assess", "announce", "publish"} =>
              ~Down(d)
         /\ pc[d] \in {"announce", "publish"} => health[d] = Evaluate(reading[d], FALSE)
    /\ err[d] # "none" =>
         /\ pc[d] \in {"snapshot", "setUp", "setDown", "assess"} =>
              (Down(d) \/ AssessedAsStored(d))
         /\ pc[d] = "announce" => Down(d) /\ StatusOf(d) = "DOWN"

TopicStatus(d) == IF healthTopic[d] = None THEN "" ELSE healthTopic[d].curr

\* A transition is held exactly between the assessment and its announcement, and says
\* what the health store says; otherwise a reliable topic is up to date.
FeedOK(d) ==
    /\ event[d] # None <=> pc[d] = "announce"
    /\ event[d] # None => event[d].curr = StatusOf(d)
    /\ (PublishOutcomes = {"acked"} /\ event[d] = None) => StatusOf(d) = TopicStatus(d)

\* The producer is closed only when every worker has exited.
RunOK == (run \in {"closing", "stopped"} \/ closed) => AllExited

------------------------------------------------------------------------------

\* A worker writes only the entries of its own device.
LEMMA OthersUntouched ==
  ASSUME TypeOK, NEW d \in Devices, Worker(d), NEW n \in Devices \ {d}
  PROVE  /\ pc'[n] = pc[n] /\ attempt'[n] = attempt[n] /\ err'[n] = err[n]
         /\ reading'[n] = reading[n] /\ event'[n] = event[n]
         /\ tracker'[n] = tracker[n] /\ store'[n] = store[n] /\ health'[n] = health[n]
         /\ healthTopic'[n] = healthTopic[n] /\ misses'[n] = misses[n]
         /\ telemetryTopic'[n] = telemetryTopic[n]
<1>. USE DEF TypeOK, Goto, EndCycle, storeVars, topicVars
<1>1. CASE BeginAttempt(d)
  BY <1>1 DEF BeginAttempt
<1>2. CASE DeviceAnswers(d)
  BY <1>2 DEF DeviceAnswers
<1>3. CASE DeviceFails(d)
  BY <1>3 DEF DeviceFails, AttemptFailed, FailCycle
<1>4. CASE RequestAborted(d)
  BY <1>4 DEF RequestAborted, AttemptFailed, FailCycle
<1>5. CASE BackoffOver(d)
  BY <1>5 DEF BackoffOver
<1>6. CASE GiveUp(d)
  BY <1>6 DEF GiveUp, FailCycle
<1>7. CASE RecordFailure(d)
  BY <1>7 DEF RecordFailure
<1>8. CASE StoreTelemetry(d)
  BY <1>8 DEF StoreTelemetry
<1>9. CASE RecordSuccess(d)
  BY <1>9 DEF RecordSuccess
<1>10. CASE SnapshotStates(d)
  BY <1>10 DEF SnapshotStates
<1>11. CASE SetUpGauge(d)
  BY <1>11 DEF SetUpGauge
<1>12. CASE SetDownGauge(d)
  BY <1>12 DEF SetDownGauge
<1>13. CASE AssessSuccess(d)
  BY <1>13 DEF AssessSuccess
<1>14. CASE SkipAssessment(d)
  BY <1>14 DEF SkipAssessment
<1>15. CASE AssessFailure(d)
  BY <1>15 DEF AssessFailure
<1>16. CASE AnnounceTransition(d)
  BY <1>16 DEF AnnounceTransition
<1>17. CASE PublishTelemetry(d)
  BY <1>17 DEF PublishTelemetry
<1>18. CASE Tick(d)
  BY <1>18 DEF Tick
<1>19. CASE ExitWorker(d)
  BY <1>19 DEF ExitWorker
<1>. QED
  BY <1>1, <1>2, <1>3, <1>4, <1>5, <1>6, <1>7, <1>8, <1>9, <1>10, <1>11, <1>12,
     <1>13, <1>14, <1>15, <1>16, <1>17, <1>18, <1>19 DEF Worker, Cycle

\* Tick and ExitWorker keep the types.
LEMMA SelectType ==
  ASSUME TypeOK, NEW d \in Devices, Tick(d) \/ ExitWorker(d)
  PROVE  TypeOK'
  BY DEF TypeOK, Tick, ExitWorker, Goto, Labels, storeVars, runVars, topicVars

\* The steps of Run and of the world outside.
Outside ==
    \/ \E d \in Devices : TickerFires(d) \/ ConditionChanges(d)
    \/ RequestShutdown \/ ServerFails \/ Shutdown
    \/ UNCHANGED vars

\* They keep the types, touch no entry of a device, and only ever cancel the context.
LEMMA OutsideType ==
  ASSUME TypeOK, Outside
  PROVE  /\ TypeOK'
         /\ UNCHANGED <<pc, attempt, err, reading, counts, event, storeVars, topicVars, misses>>
         /\ ~cancelled' => ~cancelled
<1>. USE DEF TypeOK, workerVars, storeVars, runVars, topicVars, GoRun
<1>1. ASSUME NEW d \in Devices, TickerFires(d)
      PROVE  /\ TypeOK'
             /\ UNCHANGED <<pc, attempt, err, reading, counts, event, storeVars, topicVars,
                            misses, cancelled>>
  BY <1>1 DEF TickerFires
<1>2. ASSUME NEW d \in Devices, ConditionChanges(d)
      PROVE  /\ TypeOK'
             /\ UNCHANGED <<pc, attempt, err, reading, counts, event, storeVars, topicVars,
                            misses, cancelled>>
  BY <1>2 DEF ConditionChanges
<1>3. CASE RequestShutdown
  BY <1>3 DEF RequestShutdown
<1>4. CASE ServerFails
  BY <1>4 DEF ServerFails
<1>5. CASE Shutdown
  BY <1>5 DEF Shutdown, DrainServer, CancelPolling, WaitForWorkers, CloseProducer
<1>6. CASE UNCHANGED vars
  BY <1>6 DEF vars
<1>. QED
  BY <1>1, <1>2, <1>3, <1>4, <1>5, <1>6 DEF Outside

\* Every step is one of a worker or one from outside.
LEMMA StepKinds ==
  ASSUME [Next]_vars
  PROVE  (\E d \in Devices : Worker(d)) \/ Outside
  BY DEF Next, Polling, Outside, Stopped

\* A worker's step keeps its control invariant.
LEMMA CycleControl ==
  ASSUME TypeInv, NEW d \in Devices, Worker(d)
  PROVE  ControlOK(d)'
<1>. USE DEF TypeInv, TypeOK, ControlOK, Goto, EndCycle
<1>1. CASE BeginAttempt(d)
  BY <1>1 DEF BeginAttempt
<1>2. CASE DeviceAnswers(d)
  BY <1>2 DEF DeviceAnswers
<1>3. CASE DeviceFails(d)
  BY <1>3, FailuresType, MonitoringAssumption
     DEF DeviceFails, AttemptFailed, FailCycle, MayRetry, DeviceErrors
<1>4. CASE RequestAborted(d)
  BY <1>4, MonitoringAssumption DEF RequestAborted, AttemptFailed, FailCycle, MayRetry
<1>5. CASE BackoffOver(d)
  BY <1>5 DEF BackoffOver
<1>6. CASE GiveUp(d)
  BY <1>6 DEF GiveUp, FailCycle
<1>7. CASE RecordFailure(d)
  BY <1>7 DEF RecordFailure
<1>8. CASE StoreTelemetry(d)
  BY <1>8 DEF StoreTelemetry
<1>9. CASE RecordSuccess(d)
  BY <1>9 DEF RecordSuccess
<1>10. CASE SnapshotStates(d)
  BY <1>10 DEF SnapshotStates
<1>11. CASE SetUpGauge(d)
  BY <1>11 DEF SetUpGauge
<1>12. CASE SetDownGauge(d)
  BY <1>12 DEF SetDownGauge
<1>13. CASE AssessSuccess(d)
  BY <1>13 DEF AssessSuccess
<1>14. CASE SkipAssessment(d)
  BY <1>14 DEF SkipAssessment
<1>15. CASE AssessFailure(d)
  BY <1>15 DEF AssessFailure
<1>16. CASE AnnounceTransition(d)
  BY <1>16 DEF AnnounceTransition
<1>17. CASE PublishTelemetry(d)
  BY <1>17 DEF PublishTelemetry
<1>18. CASE Tick(d)
  BY <1>18 DEF Tick
<1>19. CASE ExitWorker(d)
  BY <1>19 DEF ExitWorker
<1>. QED
  BY <1>1, <1>2, <1>3, <1>4, <1>5, <1>6, <1>7, <1>8, <1>9, <1>10, <1>11, <1>12,
     <1>13, <1>14, <1>15, <1>16, <1>17, <1>18, <1>19 DEF Worker, Cycle

\* The type and control invariants are inductive.
LEMMA TypeInvInductive ==
  ASSUME TypeInv, [Next]_vars
  PROVE  TypeInv'
<1>1. ASSUME NEW d \in Devices, Worker(d)
      PROVE  TypeInv'
  <2>1. TypeOK'
    BY <1>1, CycleType, SelectType DEF Worker, TypeInv
  <2>2. ControlOK(d)'
    BY <1>1, CycleControl
  <2>3. ASSUME NEW n \in Devices \ {d}
        PROVE  ControlOK(n)'
    BY <1>1, <2>3, OthersUntouched DEF TypeInv, ControlOK
  <2>. QED
    BY <2>1, <2>2, <2>3 DEF TypeInv
<1>2. CASE Outside
  BY <1>2, OutsideType DEF TypeInv, ControlOK
<1>. QED
  BY <1>1, <1>2, StepKinds

\* And they hold at the start.
LEMMA TypeInvInit == Init => TypeInv
<1>. SUFFICES ASSUME Init PROVE TypeInv
  OBVIOUS
<1>1. /\ attempt \in [Devices -> 0..MaxRetries]
      /\ misses \in [Devices -> 0..FailureThreshold]
  BY MonitoringAssumption DEF Init
<1>2. counts \in [Devices -> Counts] /\ gauge \in Counts
  BY ZeroCountsType DEF Init
<1>3. TypeOK
  BY <1>1, <1>2 DEF Init, TypeOK, Labels
<1>4. \A d \in Devices : ControlOK(d)
  BY DEF Init, ControlOK
<1>. QED
  BY <1>3, <1>4 DEF TypeInv

LEMMA TypeInvAlways == Spec => []TypeInv
<1>1. TypeInv /\ [Next]_vars => TypeInv'
  BY TypeInvInductive
<1>. QED
  BY TypeInvInit, <1>1, PTL DEF Spec

\* Every variable keeps its type.
THEOREM TypeCorrect == Spec => []TypeOK
<1>1. TypeInv => TypeOK
  BY DEF TypeInv
<1>. QED
  BY TypeInvAlways, <1>1, PTL

------------------------------------------------------------------------------

\* One failure more, or a success, keeps DOWN and the threshold together.
LEMMA TrackStep ==
  ASSUME NEW s \in TrackedState \cup {None},
         s # None /\ s.status = "DOWN" <=> Prior(s).failures = FailureThreshold
  PROVE  /\ LET f == TrackFailure(s)
            IN /\ f # None
               /\ f.status = "DOWN" <=> f.failures = FailureThreshold
               /\ Prior(f).failures = AtMost(Prior(s).failures + 1, FailureThreshold)
               /\ s # None /\ s.status = "DOWN" => f.status = "DOWN"
         /\ LET f == TrackSuccess(s)
            IN /\ f # None /\ f.status # "DOWN" /\ f.failures # FailureThreshold
               /\ Prior(f).failures = 0
  BY MonitoringAssumption, TrackType
     DEF TrackFailure, TrackSuccess, TrackedState, Prior, AtMost

\* A worker's step keeps the detector exact: only RecordFailure and RecordSuccess touch
\* it, and history with them; an error of the cancelled context needs a cancelled context.
LEMMA CycleDetector ==
  ASSUME TypeInv, NEW d \in Devices, DetectorOK(d), Worker(d)
  PROVE  DetectorOK(d)'
<1>. USE DEF TypeInv, TypeOK, DetectorOK, Down, Goto, EndCycle, runVars, storeVars,
            CancellationErrors
<1>1. CASE BeginAttempt(d)
  BY <1>1 DEF BeginAttempt
<1>2. CASE DeviceAnswers(d)
  BY <1>2 DEF DeviceAnswers
<1>3. CASE DeviceFails(d)
  BY <1>3, FailuresType DEF DeviceFails, AttemptFailed, FailCycle, DeviceErrors
<1>4. CASE RequestAborted(d)
  BY <1>4 DEF RequestAborted, AttemptFailed, FailCycle
<1>5. CASE BackoffOver(d)
  BY <1>5 DEF BackoffOver
<1>6. CASE GiveUp(d)
  BY <1>6 DEF GiveUp, FailCycle
<1>7. CASE RecordFailure(d)
  <2>. DEFINE s == tracker[d]
  <2>1. s \in TrackedState \cup {None} /\ tracker'[d] = TrackFailure(s)
    BY <1>7 DEF RecordFailure
  <2>2. s # None /\ s.status = "DOWN" <=> Prior(s).failures = FailureThreshold
    OBVIOUS
  <2>3. Down(d)' <=> Prior(tracker'[d]).failures = FailureThreshold
    <3>. HIDE DEF s
    <3>1. /\ tracker'[d] # None
          /\ tracker'[d].status = "DOWN" <=> tracker'[d].failures = FailureThreshold
      BY <2>1, <2>2, TrackStep
    <3>. QED
      BY <3>1 DEF Prior
  <2>4. Prior(tracker'[d]).failures = AtMost(Prior(s).failures + 1, FailureThreshold)
    <3>. HIDE DEF s
    <3>. QED
      BY <2>1, <2>2, TrackStep
  <2>5. /\ misses'[d] = IF err[d] \in DeviceErrors
                         THEN AtMost(misses[d] + 1, FailureThreshold) ELSE misses[d]
        /\ err' = err /\ cancelled' = cancelled /\ err[d] # "none"
    BY <1>7 DEF RecordFailure, ControlOK
  <2>. QED
    BY <2>3, <2>4, <2>5
<1>8. CASE StoreTelemetry(d)
  BY <1>8 DEF StoreTelemetry
<1>9. CASE RecordSuccess(d)
  <2>. DEFINE s == tracker[d]
  <2>1. s \in TrackedState \cup {None} /\ tracker'[d] = TrackSuccess(s)
    BY <1>9 DEF RecordSuccess
  <2>2. s # None /\ s.status = "DOWN" <=> Prior(s).failures = FailureThreshold
    OBVIOUS
  <2>3. /\ tracker'[d].status # "DOWN" /\ tracker'[d].failures # FailureThreshold
        /\ tracker'[d] # None /\ Prior(tracker'[d]).failures = 0
    <3>. HIDE DEF s
    <3>. QED
      BY <2>1, <2>2, TrackStep
  <2>4. misses'[d] = 0 /\ err' = err /\ cancelled' = cancelled
    BY <1>9 DEF RecordSuccess
  <2>. QED
    BY <2>3, <2>4 DEF Prior
<1>10. CASE SnapshotStates(d)
  BY <1>10 DEF SnapshotStates
<1>11. CASE SetUpGauge(d)
  BY <1>11 DEF SetUpGauge
<1>12. CASE SetDownGauge(d)
  BY <1>12 DEF SetDownGauge
<1>13. CASE AssessSuccess(d)
  BY <1>13 DEF AssessSuccess
<1>14. CASE SkipAssessment(d)
  BY <1>14 DEF SkipAssessment
<1>15. CASE AssessFailure(d)
  BY <1>15 DEF AssessFailure
<1>16. CASE AnnounceTransition(d)
  BY <1>16 DEF AnnounceTransition
<1>17. CASE PublishTelemetry(d)
  BY <1>17 DEF PublishTelemetry
<1>18. CASE Tick(d)
  BY <1>18 DEF Tick
<1>19. CASE ExitWorker(d)
  BY <1>19 DEF ExitWorker
<1>. QED
  BY <1>1, <1>2, <1>3, <1>4, <1>5, <1>6, <1>7, <1>8, <1>9, <1>10, <1>11, <1>12,
     <1>13, <1>14, <1>15, <1>16, <1>17, <1>18, <1>19 DEF Worker, Cycle

DetectorInv == \A d \in Devices : DetectorOK(d)

LEMMA DetectorInductive ==
  ASSUME TypeInv, DetectorInv, [Next]_vars
  PROVE  DetectorInv'
<1>1. ASSUME NEW d \in Devices, Worker(d)
      PROVE  DetectorInv'
  <2>1. DetectorOK(d)'
    BY <1>1, CycleDetector DEF DetectorInv
  <2>2. cancelled' = cancelled
    BY <1>1 DEF Worker, Cycle, BeginAttempt, DeviceAnswers, DeviceFails, RequestAborted,
                AttemptFailed, BackoffOver, GiveUp, RecordFailure, StoreTelemetry,
                RecordSuccess, SnapshotStates, SetUpGauge, SetDownGauge, AssessSuccess,
                SkipAssessment, AssessFailure, AnnounceTransition, PublishTelemetry, Tick,
                ExitWorker, runVars
  <2>3. ASSUME NEW n \in Devices \ {d}
        PROVE  DetectorOK(n)'
    BY <1>1, <2>2, <2>3, OthersUntouched DEF TypeInv, DetectorInv, DetectorOK, Down
  <2>. QED
    BY <2>1, <2>3 DEF DetectorInv
<1>2. CASE Outside
  BY <1>2, OutsideType DEF TypeInv, DetectorInv, DetectorOK, Down, storeVars
<1>. QED
  BY <1>1, <1>2, StepKinds

LEMMA DetectorAlways == Spec => []DetectorInv
<1>1. Init => DetectorInv
  BY MonitoringAssumption DEF Init, DetectorInv, DetectorOK, Down, Prior, CancellationErrors
<1>2. TypeInv /\ DetectorInv /\ [Next]_vars => DetectorInv'
  BY DetectorInductive
<1>. QED
  BY TypeInvAlways, <1>1, <1>2, PTL DEF Spec

\* Until polling is cancelled the failure detector is exact.
THEOREM DetectorExact == Spec => []DownExactlyAtThreshold
<1>1. DetectorInv => DownExactlyAtThreshold
  BY DEF DetectorInv, DetectorOK, DownExactlyAtThreshold
<1>. QED
  BY DetectorAlways, <1>1, PTL

------------------------------------------------------------------------------

\* A worker's step keeps what its label says of the stores.
LEMMA CycleStores ==
  ASSUME TypeInv, NEW d \in Devices, DetectorOK(d), StoresOK(d), Worker(d)
  PROVE  StoresOK(d)'
<1>. USE DEF TypeInv, TypeOK, StoresOK, AssessedAsStored, StatusOf, Down, Goto, EndCycle,
            storeVars
<1>. DEFINE Trying(label) == label \in {"poll", "request", "backoff", "fail", "store"}
<1>0. ASSUME Trying(pc[d]), Trying(pc'[d]), UNCHANGED <<tracker, store, health>>
      PROVE  StoresOK(d)'
  <2>. HIDE DEF TypeInv, TypeOK
  <2>1. pc[d] \in {"poll", "request", "backoff", "fail", "store"} /\ Down(d)' = Down(d)
        /\ StatusOf(d)' = StatusOf(d) /\ AssessedAsStored(d)' = AssessedAsStored(d)
    BY <1>0
  <2>. QED
    BY <1>0, <2>1
<1>. HIDE DEF Trying
<1>1. CASE BeginAttempt(d)
  <2>1. Trying(pc[d]) /\ Trying(pc'[d]) /\ UNCHANGED <<tracker, store, health>>
    BY <1>1 DEF Trying, BeginAttempt
  <2>. QED
    BY <1>0, <2>1
<1>2. CASE DeviceAnswers(d)
  <2>1. Trying(pc[d]) /\ Trying(pc'[d]) /\ UNCHANGED <<tracker, store, health>>
    BY <1>2 DEF Trying, DeviceAnswers
  <2>. QED
    BY <1>0, <2>1
<1>3. CASE DeviceFails(d)
  <2>1. Trying(pc[d]) /\ Trying(pc'[d]) /\ UNCHANGED <<tracker, store, health>>
    BY <1>3 DEF Trying, DeviceFails, AttemptFailed, FailCycle
  <2>. QED
    BY <1>0, <2>1
<1>4. CASE RequestAborted(d)
  <2>1. Trying(pc[d]) /\ Trying(pc'[d]) /\ UNCHANGED <<tracker, store, health>>
    BY <1>4 DEF Trying, RequestAborted, AttemptFailed, FailCycle
  <2>. QED
    BY <1>0, <2>1
<1>5. CASE BackoffOver(d)
  <2>1. Trying(pc[d]) /\ Trying(pc'[d]) /\ UNCHANGED <<tracker, store, health>>
    BY <1>5 DEF Trying, BackoffOver
  <2>. QED
    BY <1>0, <2>1
<1>6. CASE GiveUp(d)
  <2>1. Trying(pc[d]) /\ Trying(pc'[d]) /\ UNCHANGED <<tracker, store, health>>
    BY <1>6 DEF Trying, GiveUp, FailCycle
  <2>. QED
    BY <1>0, <2>1
<1>7. CASE RecordFailure(d)
  BY <1>7, TrackStep DEF RecordFailure, ControlOK, DetectorOK
<1>8. CASE StoreTelemetry(d)
  BY <1>8 DEF StoreTelemetry, ControlOK
<1>9. CASE RecordSuccess(d)
  BY <1>9, TrackStep DEF RecordSuccess, ControlOK, DetectorOK
<1>10. CASE SnapshotStates(d)
  BY <1>10 DEF SnapshotStates
<1>11. CASE SetUpGauge(d)
  BY <1>11 DEF SetUpGauge
<1>12. CASE SetDownGauge(d)
  BY <1>12 DEF SetDownGauge
<1>13. CASE AssessSuccess(d)
  BY <1>13 DEF AssessSuccess
<1>14. CASE SkipAssessment(d)
  BY <1>14 DEF SkipAssessment
<1>15. CASE AssessFailure(d)
  <2>. DEFINE t == IF store[d] = None THEN ZeroTelemetry ELSE store[d]
              e == TransitionFrom(PrevStatusAfterFailure(health[d]), Evaluate(t, TRUE).status)
  <2>1. health' = [health EXCEPT ![d] = [status |-> "DOWN", score |-> 100]]
    BY <1>15, EvaluateTransportDown DEF AssessFailure
  <2>2. [status |-> "DOWN", score |-> 100] # None
    BY MonitoringAssumption DEF Assessment, HealthStatus
  <2>3. StatusOf(d)' = "DOWN"
    BY <2>1, <2>2
  <2>4. /\ err[d] # "none" /\ Down(d) /\ tracker' = tracker /\ store' = store
        /\ \/ pc'[d] = "wait"
           \/ pc'[d] = "announce" /\ err' = err
    BY <1>15 DEF AssessFailure
  <2>5. Down(d)' /\ tracker'[d] # None
    BY <2>4
  <2>. QED
    BY <2>3, <2>4, <2>5
<1>16. CASE AnnounceTransition(d)
  BY <1>16 DEF AnnounceTransition
<1>17. CASE PublishTelemetry(d)
  <2>1. /\ err[d] = "none" /\ reading[d] \in Readings /\ store[d] = reading[d]
        /\ ~Down(d) /\ health[d] = Evaluate(reading[d], FALSE)
    BY <1>17 DEF PublishTelemetry, ControlOK
  <2>2. store[d] # None
    BY <2>1, MonitoringAssumption
  <2>3. AssessedAsStored(d)
    BY <2>1, <2>2
  <2>4. pc'[d] = "wait" /\ tracker' = tracker /\ store' = store /\ health' = health
    BY <1>17 DEF PublishTelemetry
  <2>5. ~Down(d)' /\ AssessedAsStored(d)'
    BY <2>1, <2>3, <2>4
  <2>. QED
    BY <2>4, <2>5
<1>18. CASE Tick(d)
  BY <1>18 DEF Tick
<1>19. CASE ExitWorker(d)
  BY <1>19 DEF ExitWorker
<1>. QED
  BY <1>1, <1>2, <1>3, <1>4, <1>5, <1>6, <1>7, <1>8, <1>9, <1>10, <1>11, <1>12,
     <1>13, <1>14, <1>15, <1>16, <1>17, <1>18, <1>19 DEF Worker, Cycle

StoresInv == \A d \in Devices : StoresOK(d)

LEMMA StoresInductive ==
  ASSUME TypeInv, DetectorInv, StoresInv, [Next]_vars
  PROVE  StoresInv'
<1>1. ASSUME NEW d \in Devices, Worker(d)
      PROVE  StoresInv'
  <2>1. StoresOK(d)'
    BY <1>1, CycleStores DEF StoresInv, DetectorInv
  <2>2. ASSUME NEW n \in Devices \ {d}
        PROVE  StoresOK(n)'
    <3>1. /\ pc'[n] = pc[n] /\ err'[n] = err[n] /\ reading'[n] = reading[n]
          /\ tracker'[n] = tracker[n] /\ store'[n] = store[n] /\ health'[n] = health[n]
      BY <1>1, <2>2, OthersUntouched DEF TypeInv
    <3>2. StoresOK(n)
      BY DEF StoresInv
    <3>. QED
      BY <3>1, <3>2 DEF StoresOK, AssessedAsStored, StatusOf, Down
  <2>. QED
    BY <2>1, <2>2 DEF StoresInv
<1>2. CASE Outside
  BY <1>2, OutsideType
     DEF TypeInv, StoresInv, StoresOK, AssessedAsStored, StatusOf, Down, storeVars
<1>. QED
  BY <1>1, <1>2, StepKinds

LEMMA StoresAlways == Spec => []StoresInv
<1>1. Init => StoresInv
  BY DEF Init, StoresInv, StoresOK, AssessedAsStored, StatusOf, Down
<1>2. TypeInv /\ DetectorInv /\ StoresInv /\ [Next]_vars => StoresInv'
  BY StoresInductive
<1>. QED
  BY TypeInvAlways, DetectorAlways, <1>1, <1>2, PTL DEF Spec

\* Between cycles, tracker, telemetry store and health store agree about every device.
THEOREM StoresAgree == Spec => []StoresAgreeWhenIdle
<1>1. StoresInv => StoresAgreeWhenIdle
  BY DEF StoresInv, StoresOK, StoresAgreeWhenIdle, AssessedAsStored, Idle
<1>. QED
  BY StoresAlways, <1>1, PTL

------------------------------------------------------------------------------

\* Whatever closes the producer has waited for the workers, and no worker comes back.
LEMMA RunAlways == Spec => []RunOK
<1>1. Init => RunOK
  BY DEF Init, RunOK
<1>2. TypeInv /\ RunOK /\ [Next]_vars => RunOK'
  <2>. SUFFICES ASSUME TypeInv, RunOK, [Next]_vars PROVE RunOK'
    OBVIOUS
  <2>1. ASSUME NEW d \in Devices, Worker(d)
        PROVE  RunOK'
    <3>1. pc[d] # "exited"
      BY <2>1 DEF Worker, Cycle, BeginAttempt, DeviceAnswers, DeviceFails, RequestAborted,
                  AttemptFailed, BackoffOver, GiveUp, RecordFailure, StoreTelemetry,
                  RecordSuccess, SnapshotStates, SetUpGauge, SetDownGauge, AssessSuccess,
                  SkipAssessment, AssessFailure, AnnounceTransition, PublishTelemetry, Tick,
                  ExitWorker
    <3>2. run' = run /\ closed' = closed
      BY <2>1 DEF Worker, Cycle, BeginAttempt, DeviceAnswers, DeviceFails, RequestAborted,
                  AttemptFailed, BackoffOver, GiveUp, RecordFailure, StoreTelemetry,
                  RecordSuccess, SnapshotStates, SetUpGauge, SetDownGauge, AssessSuccess,
                  SkipAssessment, AssessFailure, AnnounceTransition, PublishTelemetry, Tick,
                  ExitWorker, runVars
    <3>. QED
      BY <3>1, <3>2 DEF RunOK, AllExited
  <2>2. CASE Outside
    <3>1. pc' = pc
      BY <2>2, OutsideType DEF TypeInv
    <3>2. (run' \in {"closing", "stopped"} \/ closed') => AllExited
      BY <2>2 DEF Outside, TickerFires, ConditionChanges, RequestShutdown, ServerFails,
                  Shutdown, DrainServer, CancelPolling, WaitForWorkers, CloseProducer,
                  GoRun, RunOK, runVars, vars
    <3>. QED
      BY <3>1, <3>2 DEF RunOK, AllExited
  <2>. QED
    BY <2>1, <2>2, StepKinds
<1>. QED
  BY TypeInvAlways, <1>1, <1>2, PTL DEF Spec

------------------------------------------------------------------------------

\* An assessment after a success: what the transition handed on says.
LEMMA TransitionAfterSuccess ==
  ASSUME TypeInv, NEW d \in Devices, AssessSuccess(d)
  PROVE  /\ StatusOf(d)' \in HealthStatus
         /\ \/ /\ event'[d] = None /\ pc'[d] = "publish"
               /\ StatusOf(d)' = StatusOf(d)
            \/ /\ event'[d] = [prev |-> StatusOf(d), curr |-> StatusOf(d)']
               /\ event'[d] # None /\ pc'[d] = "announce"
               /\ StatusOf(d)' # StatusOf(d)
<1>. USE DEF TypeInv, TypeOK, Goto
<1>. DEFINE a == Evaluate(reading[d], FALSE)
            p == StatusOf(d)
<1>1. a \in Assessment /\ a.status \in HealthStatus
  <2>1. reading[d] \in Telemetry
    BY MonitoringAssumption DEF AssessSuccess, ControlOK
  <2>. QED
    BY <2>1, EvaluateType DEF Assessment
<1>2. /\ health' = [health EXCEPT ![d] = a]
      /\ event' = [event EXCEPT ![d] = TransitionFrom(PrevStatusAfterSuccess(health[d]), a.status)]
      /\ pc' = [pc EXCEPT ![d] = IF TransitionFrom(PrevStatusAfterSuccess(health[d]), a.status) = None
                                 THEN "publish" ELSE "announce"]
  BY DEF AssessSuccess
<1>3. PrevStatusAfterSuccess(health[d]) = p /\ p \in HealthStatus \cup {""}
  <2>1. PrevStatusAfterSuccess(health[d]) = p
    BY DEF PrevStatusAfterSuccess, StatusOf
  <2>2. health[d] \in Assessment \cup {None}
    OBVIOUS
  <2>. QED
    BY <2>1, <2>2, PrevStatusType
<1>4. [prev |-> p, curr |-> a.status] # None
  <2>. HIDE DEF a, p
  <2>. QED
    BY <1>1, <1>3, EventPresent
<1>5. StatusOf(d)' = a.status
  <2>. HIDE DEF a
  <2>. QED
    BY <1>1, <1>2, MonitoringAssumption DEF StatusOf
<1>. HIDE DEF a, p
<1>6. CASE p = a.status
  BY <1>1, <1>2, <1>3, <1>5, <1>6 DEF TransitionFrom, p
<1>7. CASE p # a.status
  BY <1>1, <1>2, <1>3, <1>4, <1>5, <1>7 DEF TransitionFrom, p
<1>. QED
  BY <1>6, <1>7

\* The statuses a DOWN assessment may follow.
DownFollows(d) == IF health[d] = None THEN "HEALTHY" ELSE StatusOf(d)

\* An assessment after a failure: the device is DOWN now, and was or was not before.
LEMMA TransitionAfterFailure ==
  ASSUME TypeInv, NEW d \in Devices, AssessFailure(d)
  PROVE  /\ StatusOf(d)' = "DOWN"
         /\ \/ /\ EndCycle(d) /\ StatusOf(d) = "DOWN"
            \/ /\ event' = [event EXCEPT ![d] = [prev |-> DownFollows(d), curr |-> "DOWN"]]
               /\ event'[d] # None /\ pc'[d] = "announce" /\ DownFollows(d) # "DOWN"
<1>. USE DEF TypeInv, TypeOK, Goto
<1>. DEFINE e == TransitionFrom(PrevStatusAfterFailure(health[d]), "DOWN")
<1>1. \A t : /\ Evaluate(t, TRUE) = [status |-> "DOWN", score |-> 100]
            /\ Evaluate(t, TRUE).status = "DOWN"
  BY EvaluateTransportDown
<1>2. /\ health' = [health EXCEPT ![d] = [status |-> "DOWN", score |-> 100]]
      /\ \/ e = None /\ EndCycle(d)
         \/ e # None /\ event' = [event EXCEPT ![d] = e] /\ pc' = [pc EXCEPT ![d] = "announce"]
  <2>. DEFINE t == IF store[d] = None THEN ZeroTelemetry ELSE store[d]
              a == Evaluate(t, TRUE)
  <2>1. a = [status |-> "DOWN", score |-> 100] /\ a.status = "DOWN"
    <3>. HIDE DEF t
    <3>. QED
      BY <1>1
  <2>2. /\ health' = [health EXCEPT ![d] = a]
        /\ LET f == TransitionFrom(PrevStatusAfterFailure(health[d]), a.status)
           IN \/ f = None /\ EndCycle(d)
              \/ f # None /\ event' = [event EXCEPT ![d] = f] /\ pc' = [pc EXCEPT ![d] = "announce"]
    BY DEF AssessFailure
  <2>. HIDE DEF a
  <2>. QED
    BY <2>1, <2>2
<1>3. StatusOf(d)' = "DOWN"
  <2>1. [status |-> "DOWN", score |-> 100] # None
    BY MonitoringAssumption DEF Assessment, HealthStatus
  <2>. QED
    BY <1>2, <2>1 DEF StatusOf
<1>4. PrevStatusAfterFailure(health[d]) = DownFollows(d) /\ DownFollows(d) \in HealthStatus
  <2>1. PrevStatusAfterFailure(health[d]) = DownFollows(d)
    BY DEF PrevStatusAfterFailure, DownFollows, StatusOf
  <2>2. health[d] \in Assessment \cup {None}
    OBVIOUS
  <2>3. health[d] # None => health[d].status \in HealthStatus
    BY <2>2 DEF Assessment
  <2>. QED
    BY <2>1, <2>3 DEF PrevStatusAfterFailure, HealthStatus
<1>5. [prev |-> DownFollows(d), curr |-> "DOWN"] # None
  <2>1. "DOWN" \in HealthStatus
    BY DEF HealthStatus
  <2>. QED
    BY <1>4, <2>1, EventPresent
<1>6. e = IF DownFollows(d) = "DOWN" THEN None ELSE [prev |-> DownFollows(d), curr |-> "DOWN"]
  BY <1>4 DEF TransitionFrom
<1>. HIDE DEF e
<1>7. CASE DownFollows(d) = "DOWN"
  BY <1>2, <1>3, <1>6, <1>7 DEF DownFollows
<1>8. CASE DownFollows(d) # "DOWN"
  BY <1>2, <1>3, <1>5, <1>6, <1>8
<1>. QED
  BY <1>7, <1>8

\* The steps of a worker that neither assess nor announce.
Quiet(d) ==
    \/ BeginAttempt(d) \/ DeviceAnswers(d) \/ DeviceFails(d) \/ RequestAborted(d)
    \/ BackoffOver(d) \/ GiveUp(d)
    \/ RecordFailure(d) \/ StoreTelemetry(d) \/ RecordSuccess(d)
    \/ SnapshotStates(d) \/ SetUpGauge(d) \/ SetDownGauge(d)
    \/ SkipAssessment(d) \/ PublishTelemetry(d) \/ Tick(d) \/ ExitWorker(d)

\* A quiet step neither starts nor ends an announcement, and owes none.
LEMMA QuietStep ==
  ASSUME TypeInv, NEW d \in Devices, event[d] # None <=> pc[d] = "announce", Quiet(d)
  PROVE  /\ event' = event /\ health' = health /\ healthTopic' = healthTopic
         /\ pc[d] # "announce" /\ pc'[d] # "announce"
<1>. USE DEF TypeInv, TypeOK, Goto, EndCycle, storeVars, topicVars
<1>1. CASE BeginAttempt(d)
  BY <1>1 DEF BeginAttempt
<1>2. CASE DeviceAnswers(d)
  BY <1>2 DEF DeviceAnswers
<1>3. CASE DeviceFails(d)
  BY <1>3 DEF DeviceFails, AttemptFailed, FailCycle
<1>4. CASE RequestAborted(d)
  BY <1>4 DEF RequestAborted, AttemptFailed, FailCycle
<1>5. CASE BackoffOver(d)
  BY <1>5 DEF BackoffOver
<1>6. CASE GiveUp(d)
  BY <1>6 DEF GiveUp, FailCycle
<1>7. CASE RecordFailure(d)
  BY <1>7 DEF RecordFailure
<1>8. CASE StoreTelemetry(d)
  BY <1>8 DEF StoreTelemetry
<1>9. CASE RecordSuccess(d)
  BY <1>9 DEF RecordSuccess
<1>10. CASE SnapshotStates(d)
  BY <1>10 DEF SnapshotStates
<1>11. CASE SetUpGauge(d)
  BY <1>11 DEF SetUpGauge
<1>12. CASE SetDownGauge(d)
  BY <1>12 DEF SetDownGauge
<1>13. CASE SkipAssessment(d)
  BY <1>13 DEF SkipAssessment
<1>14. CASE PublishTelemetry(d)
  BY <1>14 DEF PublishTelemetry
<1>15. CASE Tick(d)
  BY <1>15 DEF Tick
<1>16. CASE ExitWorker(d)
  BY <1>16 DEF ExitWorker
<1>. QED
  BY <1>1, <1>2, <1>3, <1>4, <1>5, <1>6, <1>7, <1>8, <1>9, <1>10, <1>11, <1>12,
     <1>13, <1>14, <1>15, <1>16 DEF Quiet

\* What an announcement does to the topic and to the event it held.
LEMMA AnnouncementStep ==
  ASSUME TypeInv, RunOK, NEW d \in Devices, AnnounceTransition(d)
  PROVE  /\ health' = health /\ pc[d] = "announce" /\ pc'[d] # "announce"
         /\ event' = [event EXCEPT ![d] = None]
         /\ \/ healthTopic' = [healthTopic EXCEPT ![d] = event[d]]
            \/ healthTopic' = healthTopic /\ PublishOutcomes # {"acked"}
<1>. USE DEF TypeInv, TypeOK, Goto
<1>1. PICK o \in Outcomes(FALSE) :
        healthTopic' = [healthTopic EXCEPT ![d] = IF Stored(o) THEN event[d] ELSE @]
  BY DEF AnnounceTransition
<1>2. ~closed
  BY DEF AnnounceTransition, RunOK, AllExited
<1>3. o \in PublishOutcomes
  BY <1>1, <1>2 DEF Outcomes
<1>4. CASE Stored(o)
  BY <1>1, <1>4 DEF AnnounceTransition, EndCycle, storeVars
<1>5. CASE ~Stored(o)
  <2>1. o # "acked"
    BY <1>5 DEF Stored
  <2>2. healthTopic' = healthTopic
    BY <1>1, <1>5
  <2>. QED
    BY <1>3, <2>1, <2>2 DEF AnnounceTransition, EndCycle, storeVars
<1>. QED
  BY <1>4, <1>5

FeedInv == \A d \in Devices : FeedOK(d)

\* A worker's step keeps the announcement of its device in order.
LEMMA CycleFeed ==
  ASSUME TypeInv, RunOK, NEW d \in Devices, FeedOK(d), Worker(d)
  PROVE  FeedOK(d)'
<1>1. CASE Quiet(d)
  BY <1>1, QuietStep DEF FeedOK, StatusOf, TopicStatus
<1>2. CASE AssessSuccess(d)
  <2>1. healthTopic' = healthTopic /\ pc[d] # "announce"
    BY <1>2 DEF AssessSuccess, topicVars
  <2>2. CASE /\ event'[d] = None /\ pc'[d] = "publish"
             /\ StatusOf(d)' = StatusOf(d)
    <3>1. event[d] = None
      BY <2>1 DEF FeedOK
    <3>. QED
      BY <2>1, <2>2, <3>1 DEF FeedOK, TopicStatus
  <2>3. CASE /\ event'[d] = [prev |-> StatusOf(d), curr |-> StatusOf(d)']
             /\ event'[d] # None /\ pc'[d] = "announce"
    <3>1. event'[d].curr = StatusOf(d)'
      BY <2>3
    <3>. QED
      BY <2>3, <3>1 DEF FeedOK
  <2>. QED
    BY <1>2, <2>2, <2>3, TransitionAfterSuccess
<1>3. CASE AssessFailure(d)
  <2>1. healthTopic' = healthTopic /\ pc[d] # "announce"
    BY <1>3 DEF AssessFailure, topicVars
  <2>2. CASE EndCycle(d) /\ StatusOf(d) = "DOWN"
    <3>1. event'[d] = None /\ pc'[d] = "wait"
      BY <2>2 DEF EndCycle, Goto, TypeInv, TypeOK
    <3>. QED
      BY <1>3, <2>1, <2>2, <3>1, TransitionAfterFailure DEF FeedOK, TopicStatus
  <2>3. CASE /\ event' = [event EXCEPT ![d] = [prev |-> DownFollows(d), curr |-> "DOWN"]]
             /\ event'[d] # None /\ pc'[d] = "announce"
    <3>1. event'[d].curr = "DOWN"
      BY <2>3 DEF TypeInv, TypeOK
    <3>. QED
      BY <1>3, <2>1, <2>3, <3>1, TransitionAfterFailure DEF FeedOK, TopicStatus
  <2>. QED
    BY <1>3, <2>2, <2>3, TransitionAfterFailure
<1>4. CASE AnnounceTransition(d)
  <2>1. event[d] # None /\ event[d].curr = StatusOf(d)
    BY <1>4, AnnouncementStep DEF FeedOK
  <2>2. event'[d] = None /\ StatusOf(d)' = StatusOf(d) /\ pc'[d] # "announce"
    <3>1. /\ health' = health /\ pc'[d] # "announce"
          /\ event' = [event EXCEPT ![d] = None]
      BY <1>4, AnnouncementStep
    <3>2. event'[d] = None
      BY <3>1 DEF TypeInv, TypeOK
    <3>. QED
      BY <3>1, <3>2 DEF StatusOf
  <2>3. PublishOutcomes = {"acked"} => healthTopic'[d] = event[d]
    BY <1>4, AnnouncementStep DEF TypeInv, TypeOK
  <2>. QED
    BY <2>1, <2>2, <2>3 DEF FeedOK, TopicStatus
<1>. QED
  BY <1>1, <1>2, <1>3, <1>4 DEF Worker, Cycle, Quiet

LEMMA FeedInductive ==
  ASSUME TypeInv, RunOK, FeedInv, [Next]_vars
  PROVE  FeedInv'
<1>1. ASSUME NEW d \in Devices, Worker(d)
      PROVE  FeedInv'
  <2>1. FeedOK(d)'
    BY <1>1, CycleFeed DEF FeedInv
  <2>2. ASSUME NEW n \in Devices \ {d}
        PROVE  FeedOK(n)'
    <3>1. /\ pc'[n] = pc[n] /\ event'[n] = event[n] /\ health'[n] = health[n]
          /\ healthTopic'[n] = healthTopic[n]
      BY <1>1, <2>2, OthersUntouched DEF TypeInv
    <3>2. FeedOK(n)
      BY DEF FeedInv
    <3>. QED
      BY <3>1, <3>2 DEF FeedOK, StatusOf, TopicStatus
  <2>. QED
    BY <2>1, <2>2 DEF FeedInv
<1>2. CASE Outside
  BY <1>2, OutsideType DEF TypeInv, FeedInv, FeedOK, StatusOf, TopicStatus, storeVars, topicVars
<1>. QED
  BY <1>1, <1>2, StepKinds

LEMMA FeedAlways == Spec => []FeedInv
<1>1. Init => FeedInv
  BY DEF Init, FeedInv, FeedOK, StatusOf, TopicStatus
<1>2. TypeInv /\ RunOK /\ FeedInv /\ [Next]_vars => FeedInv'
  BY FeedInductive
<1>. QED
  BY TypeInvAlways, RunAlways, <1>1, <1>2, PTL DEF Spec

\* Between cycles, also after shutdown, a reliable topic shows every device's status.
THEOREM TopicCurrent == Spec => []HealthTopicCurrent
<1>1. FeedInv => HealthTopicCurrent
  BY DEF FeedInv, FeedOK, HealthTopicCurrent, TopicStatus, Idle
<1>. QED
  BY FeedAlways, <1>1, PTL

------------------------------------------------------------------------------
(* Refinement *)

Assessed == [d \in Devices |-> StatusOf(d)]

\* A worker's step is a step of the feed, or one its readers cannot see.
LEMMA WorkerRefines ==
  ASSUME TypeInv, RunOK, FeedInv, NEW d \in Devices, Worker(d)
  PROVE  [Feed!Next]_(Feed!vars)
<1>0. FeedOK(d)
  BY DEF FeedInv
<1>1. CASE Quiet(d)
  BY <1>0, <1>1, QuietStep DEF FeedOK, Feed!vars, StatusOf
<1>2. CASE AssessSuccess(d)
  <2>1. /\ healthTopic' = healthTopic /\ event[d] = None
        /\ \A n \in Devices \ {d} : StatusOf(n)' = StatusOf(n) /\ event'[n] = event[n]
    <3>1. healthTopic' = healthTopic /\ event[d] = None
      BY <1>0, <1>2 DEF AssessSuccess, topicVars, FeedOK
    <3>2. ASSUME NEW n \in Devices \ {d}
          PROVE  StatusOf(n)' = StatusOf(n) /\ event'[n] = event[n]
      BY <1>2, OthersUntouched DEF TypeInv, StatusOf, Worker, Cycle
    <3>. QED
      BY <3>1, <3>2
  <2>2. event \in [Devices -> Transition \cup {None}] /\ event' \in [Devices -> Transition \cup {None}]
    BY TypeInvInductive DEF Next, Polling, TypeInv, TypeOK
  <2>3. CASE event'[d] = None /\ StatusOf(d)' = StatusOf(d)
    <3>1. event' = event /\ \A n \in Devices : StatusOf(n)' = StatusOf(n)
      BY <2>1, <2>2, <2>3
    <3>. QED
      BY <2>1, <3>1 DEF Feed!vars
  <2>4. CASE /\ event'[d] = [prev |-> StatusOf(d), curr |-> StatusOf(d)']
             /\ StatusOf(d)' \in HealthStatus /\ StatusOf(d)' # StatusOf(d)
    <3>1. event' = [event EXCEPT ![d] = [prev |-> StatusOf(d), curr |-> StatusOf(d)']]
      BY <2>1, <2>2, <2>4
    <3>2. Assessed' = [Assessed EXCEPT ![d] = StatusOf(d)']
      BY <2>1 DEF Assessed
    <3>3. StatusOf(d) \in Feed!Previous(d)
      BY DEF Feed!Previous
    <3>4. Feed!Change(d)
      BY <2>1, <2>4, <3>1, <3>2, <3>3 DEF Feed!Change, Assessed
    <3>. QED
      BY <3>4 DEF Feed!Next
  <2>. QED
    BY <1>2, <2>3, <2>4, TransitionAfterSuccess
<1>3. CASE AssessFailure(d)
  <2>1. /\ healthTopic' = healthTopic /\ event[d] = None
        /\ \A n \in Devices \ {d} : StatusOf(n)' = StatusOf(n) /\ event'[n] = event[n]
    <3>1. healthTopic' = healthTopic /\ event[d] = None
      BY <1>0, <1>3 DEF AssessFailure, topicVars, FeedOK
    <3>2. ASSUME NEW n \in Devices \ {d}
          PROVE  StatusOf(n)' = StatusOf(n) /\ event'[n] = event[n]
      BY <1>3, OthersUntouched DEF TypeInv, StatusOf, Worker, Cycle
    <3>. QED
      BY <3>1, <3>2
  <2>2. StatusOf(d)' = "DOWN" /\ event \in [Devices -> Transition \cup {None}]
    BY <1>3, TransitionAfterFailure DEF TypeInv, TypeOK
  <2>3. CASE EndCycle(d) /\ StatusOf(d) = "DOWN"
    <3>1. event' = event
      BY <2>1, <2>2, <2>3 DEF EndCycle
    <3>2. \A n \in Devices : StatusOf(n)' = StatusOf(n)
      BY <2>1, <2>2, <2>3
    <3>. QED
      BY <2>1, <3>1, <3>2 DEF Feed!vars
  <2>4. CASE /\ event' = [event EXCEPT ![d] = [prev |-> DownFollows(d), curr |-> "DOWN"]]
             /\ DownFollows(d) # "DOWN"
    <3>1. Assessed' = [Assessed EXCEPT ![d] = "DOWN"]
      BY <2>1, <2>2 DEF Assessed
    <3>2. DownFollows(d) \in Feed!Previous(d)
      BY DEF Feed!Previous, DownFollows, StatusOf
    <3>3. "DOWN" \in HealthStatus
      BY DEF HealthStatus
    <3>4. Feed!Change(d)
      BY <2>1, <2>4, <3>1, <3>2, <3>3 DEF Feed!Change, Assessed
    <3>. QED
      BY <3>4 DEF Feed!Next
  <2>. QED
    BY <1>3, <2>3, <2>4, TransitionAfterFailure
<1>4. CASE AnnounceTransition(d)
  <2>1. event[d] # None
    BY <1>0, <1>4, AnnouncementStep DEF FeedOK
  <2>2. Assessed' = Assessed /\ event' = [event EXCEPT ![d] = None]
    BY <1>4, AnnouncementStep DEF Assessed, StatusOf
  <2>3. CASE healthTopic' = [healthTopic EXCEPT ![d] = event[d]]
    <3>1. Feed!Announce(d)
      BY <2>1, <2>2, <2>3 DEF Feed!Announce, Assessed
    <3>. QED
      BY <3>1 DEF Feed!Next
  <2>4. CASE healthTopic' = healthTopic /\ PublishOutcomes # {"acked"}
    <3>1. Feed!Lose(d)
      BY <2>1, <2>2, <2>4 DEF Feed!Lose, Assessed
    <3>. QED
      BY <3>1 DEF Feed!Next
  <2>. QED
    BY <1>4, <2>3, <2>4, AnnouncementStep
<1>. QED
  BY <1>1, <1>2, <1>3, <1>4 DEF Worker, Cycle, Quiet

\* The service offers every change of status to its health topic once and in order.
THEOREM FeedImplemented == Spec => ImplementsFeed
<1>1. Init => Feed!Init
  BY DEF Init, Feed!Init, StatusOf
<1>2. TypeInv /\ RunOK /\ FeedInv /\ [Next]_vars => [Feed!Next]_(Feed!vars)
  <2>. SUFFICES ASSUME TypeInv, RunOK, FeedInv, [Next]_vars
                PROVE  [Feed!Next]_(Feed!vars)
    OBVIOUS
  <2>1. CASE Outside
    BY <2>1, OutsideType DEF TypeInv, Feed!vars, StatusOf, storeVars, topicVars
  <2>. QED
    BY <2>1, WorkerRefines, StepKinds
<1>. QED
  BY TypeInvAlways, RunAlways, FeedAlways, <1>1, <1>2, PTL DEF Spec, ImplementsFeed, Feed!Spec

------------------------------------------------------------------------------
(* Retries *)

\* A cycle given up on a transient error has used its last attempt, whatever the number
\* of retries: the inductive step needs only that attempts never exceed it.
THEOREM RetriesSpent == Spec => []RetriesExhausted
<1>1. Init => RetriesExhausted
  BY DEF Init, RetriesExhausted
<1>2. TypeInv /\ RetriesExhausted /\ [Next]_vars => RetriesExhausted'
  <2>. SUFFICES ASSUME TypeInv, RetriesExhausted, [Next]_vars
                PROVE  RetriesExhausted'
    OBVIOUS
  <2>1. ASSUME NEW d \in Devices, Worker(d)
        PROVE  RetriesExhausted'
    <3>. DEFINE Spent(n) == (pc[n] = "fail" /\ err[n] \in {"unavailable", "unreachable"})
                              => attempt[n] = MaxRetries
    <3>1. ASSUME NEW n \in Devices \ {d}
          PROVE  Spent(n)'
      BY <2>1, OthersUntouched DEF TypeInv, RetriesExhausted
    <3>2. Spent(d)'
      <4>. USE DEF TypeInv, TypeOK, Goto, EndCycle, RetriesExhausted
      <4>1. ASSUME NEW e \in DeviceErrors \cup CancellationErrors, AttemptFailed(d, e)
            PROVE  Spent(d)'
        BY <4>1, MonitoringAssumption DEF AttemptFailed, FailCycle, MayRetry, Retryable
      <4>2. CASE DeviceFails(d)
        BY <4>1, <4>2, FailuresType DEF DeviceFails
      <4>3. CASE RequestAborted(d)
        BY <4>1, <4>3 DEF RequestAborted, CancellationErrors
      <4>4. CASE GiveUp(d)
        BY <4>4 DEF GiveUp, FailCycle
      <4>5. pc'[d] # "fail" \/ DeviceFails(d) \/ RequestAborted(d) \/ GiveUp(d)
        BY <2>1 DEF Worker, Cycle, BeginAttempt, DeviceAnswers, BackoffOver, RecordFailure,
                    StoreTelemetry, RecordSuccess, SnapshotStates, SetUpGauge, SetDownGauge,
                    AssessSuccess, SkipAssessment, AssessFailure, AnnounceTransition,
                    PublishTelemetry, Tick, ExitWorker
      <4>. QED
        BY <4>2, <4>3, <4>4, <4>5
    <3>. QED
      BY <3>1, <3>2 DEF RetriesExhausted
  <2>2. CASE Outside
    BY <2>2, OutsideType DEF TypeInv, RetriesExhausted
  <2>. QED
    BY <2>1, <2>2, StepKinds
<1>. QED
  BY TypeInvAlways, <1>1, <1>2, PTL DEF Spec

------------------------------------------------------------------------------
(* The telemetry topic *)

\* TelemetryTopicCurrent, carried through the cycle: the topic lags the store only
\* between StoreTelemetry and PublishTelemetry of a cycle that succeeds.
TelemetryOK(d) ==
    /\ pc[d] \in {"poll", "request", "backoff", "fail", "store", "wait", "exited"} =>
         telemetryTopic[d] = store[d]
    /\ (/\ pc[d] \in {"snapshot", "setUp", "setDown", "assess", "announce"}
        /\ err[d] # "none") => telemetryTopic[d] = store[d]

TelemetryInv ==
    (PublishOutcomes = {"acked"} /\ ~cancelled) => \A d \in Devices : TelemetryOK(d)

\* A write to a broker that takes every write, of a producer that is open and with a live
\* context, shows the reading.
LEMMA PublishedReading ==
  ASSUME TypeInv, RunOK, NEW d \in Devices, StoresOK(d), PublishTelemetry(d),
         PublishOutcomes = {"acked"}, ~cancelled
  PROVE  telemetryTopic'[d] = store'[d]
<1>. USE DEF TypeInv, TypeOK
<1>1. ~closed
  BY DEF PublishTelemetry, RunOK, AllExited
<1>2. Outcomes(cancelled) = {"acked"}
  BY <1>1 DEF Outcomes
<1>3. telemetryTopic'[d] = reading[d]
  BY <1>2 DEF PublishTelemetry, Stored
<1>4. store[d] = reading[d] /\ store' = store
  BY DEF PublishTelemetry, StoresOK, ControlOK, storeVars
<1>. QED
  BY <1>3, <1>4

LEMMA CycleTelemetry ==
  ASSUME TypeInv, RunOK, NEW d \in Devices, StoresOK(d), TelemetryOK(d), Worker(d),
         PublishOutcomes = {"acked"}, ~cancelled
  PROVE  TelemetryOK(d)'
<1>. USE DEF TypeInv, TypeOK, TelemetryOK, Goto, EndCycle, storeVars, topicVars
<1>1. CASE BeginAttempt(d)
  BY <1>1 DEF BeginAttempt
<1>2. CASE DeviceAnswers(d)
  BY <1>2 DEF DeviceAnswers
<1>3. CASE DeviceFails(d)
  BY <1>3 DEF DeviceFails, AttemptFailed, FailCycle
<1>4. CASE RequestAborted(d)
  BY <1>4 DEF RequestAborted, AttemptFailed, FailCycle
<1>5. CASE BackoffOver(d)
  BY <1>5 DEF BackoffOver
<1>6. CASE GiveUp(d)
  BY <1>6 DEF GiveUp, FailCycle
<1>7. CASE RecordFailure(d)
  BY <1>7 DEF RecordFailure
<1>8. CASE StoreTelemetry(d)
  BY <1>8 DEF StoreTelemetry
<1>9. CASE RecordSuccess(d)
  BY <1>9 DEF RecordSuccess, ControlOK
<1>10. CASE SnapshotStates(d)
  BY <1>10 DEF SnapshotStates
<1>11. CASE SetUpGauge(d)
  BY <1>11 DEF SetUpGauge
<1>12. CASE SetDownGauge(d)
  BY <1>12 DEF SetDownGauge
<1>13. CASE AssessSuccess(d)
  BY <1>13 DEF AssessSuccess
<1>14. CASE SkipAssessment(d)
  BY <1>14 DEF SkipAssessment
<1>15. CASE AssessFailure(d)
  BY <1>15 DEF AssessFailure
<1>16. CASE AnnounceTransition(d)
  BY <1>16 DEF AnnounceTransition
<1>17. CASE PublishTelemetry(d)
  <2>1. pc'[d] = "wait"
    BY <1>17 DEF PublishTelemetry
  <2>. QED
    BY <1>17, <2>1, PublishedReading
<1>18. CASE Tick(d)
  BY <1>18 DEF Tick
<1>19. CASE ExitWorker(d)
  BY <1>19 DEF ExitWorker
<1>. QED
  BY <1>1, <1>2, <1>3, <1>4, <1>5, <1>6, <1>7, <1>8, <1>9, <1>10, <1>11, <1>12,
     <1>13, <1>14, <1>15, <1>16, <1>17, <1>18, <1>19 DEF Worker, Cycle

LEMMA TelemetryInductive ==
  ASSUME TypeInv, RunOK, StoresInv, TelemetryInv, [Next]_vars
  PROVE  TelemetryInv'
<1>. SUFFICES ASSUME PublishOutcomes = {"acked"}, ~cancelled', NEW n \in Devices
              PROVE  TelemetryOK(n)'
  BY DEF TelemetryInv
<1>1. ASSUME NEW d \in Devices, Worker(d)
      PROVE  TelemetryOK(n)'
  <2>1. ~cancelled
    BY <1>1 DEF Worker, Cycle, BeginAttempt, DeviceAnswers, DeviceFails, RequestAborted,
                AttemptFailed, BackoffOver, GiveUp, RecordFailure, StoreTelemetry,
                RecordSuccess, SnapshotStates, SetUpGauge, SetDownGauge, AssessSuccess,
                SkipAssessment, AssessFailure, AnnounceTransition, PublishTelemetry, Tick,
                ExitWorker, runVars
  <2>2. TelemetryOK(n) /\ StoresOK(n)
    BY <2>1 DEF TelemetryInv, StoresInv
  <2>3. CASE n = d
    BY <1>1, <2>1, <2>2, <2>3, CycleTelemetry
  <2>4. CASE n # d
    <3>1. /\ pc'[n] = pc[n] /\ err'[n] = err[n] /\ store'[n] = store[n]
          /\ telemetryTopic'[n] = telemetryTopic[n]
      BY <1>1, <2>4, OthersUntouched DEF TypeInv
    <3>. QED
      BY <2>2, <3>1 DEF TelemetryOK
  <2>. QED
    BY <2>3, <2>4
<1>2. CASE Outside
  BY <1>2, OutsideType DEF TypeInv, TelemetryInv, TelemetryOK, storeVars, topicVars
<1>. QED
  BY <1>1, <1>2, StepKinds

\* Every successful cycle is published: between cycles, until polling is cancelled, a
\* reliable topic shows the stored reading of every device.
THEOREM TelemetryCurrent == Spec => []TelemetryTopicCurrent
<1>1. Init => TelemetryInv
  BY DEF Init, TelemetryInv, TelemetryOK
<1>2. TypeInv /\ RunOK /\ StoresInv /\ TelemetryInv /\ [Next]_vars => TelemetryInv'
  BY TelemetryInductive
<1>3. TelemetryInv => TelemetryTopicCurrent
  BY DEF TelemetryInv, TelemetryOK, TelemetryTopicCurrent, Idle
<1>. QED
  BY TypeInvAlways, RunAlways, StoresAlways, <1>1, <1>2, <1>3, PTL DEF Spec

------------------------------------------------------------------------------
(* The scores *)

\* A worker's step leaves every assessment with a score of its band: only an assessment
\* writes one, of a reading it obtained, stored or took for one never obtained.
LEMMA CycleBands ==
  ASSUME TypeInv, FeedInv, ScoreBands, NEW d \in Devices, Worker(d)
  PROVE  ScoreBands'
<1>1. CASE Quiet(d)
  BY <1>1, QuietStep DEF FeedInv, FeedOK, ScoreBands
<1>2. CASE AssessSuccess(d)
  <2>1. reading[d] \in Telemetry
    BY <1>2, MonitoringAssumption DEF AssessSuccess, TypeInv, ControlOK
  <2>2. health' = [health EXCEPT ![d] = Evaluate(reading[d], FALSE)]
    BY <1>2 DEF AssessSuccess
  <2>. QED
    BY <2>1, <2>2, EvaluateBands DEF ScoreBands, TypeInv, TypeOK
<1>3. CASE AssessFailure(d)
  <2>. DEFINE t == IF store[d] = None THEN ZeroTelemetry ELSE store[d]
  <2>1. t \in Telemetry
    BY MonitoringAssumption, ZeroTelemetryType DEF TypeInv, TypeOK
  <2>2. health' = [health EXCEPT ![d] = Evaluate(t, TRUE)]
    BY <1>3 DEF AssessFailure
  <2>. HIDE DEF t
  <2>. QED
    BY <2>1, <2>2, EvaluateBands DEF ScoreBands, TypeInv, TypeOK
<1>4. CASE AnnounceTransition(d)
  BY <1>4 DEF AnnounceTransition, storeVars, ScoreBands
<1>. QED
  BY <1>1, <1>2, <1>3, <1>4 DEF Worker, Cycle, Quiet

\* The score of every assessment lies in the band of its status, whatever the readings.
THEOREM ScoresInBands == Spec => []ScoreBands
<1>1. Init => ScoreBands
  BY DEF Init, ScoreBands
<1>2. TypeInv /\ FeedInv /\ ScoreBands /\ [Next]_vars => ScoreBands'
  <2>. SUFFICES ASSUME TypeInv, FeedInv, ScoreBands, [Next]_vars PROVE ScoreBands'
    OBVIOUS
  <2>1. CASE Outside
    BY <2>1, OutsideType DEF TypeInv, ScoreBands, storeVars
  <2>. QED
    BY <2>1, CycleBands, StepKinds
<1>. QED
  BY TypeInvAlways, FeedAlways, <1>1, <1>2, PTL DEF Spec

\* Between cycles a device's score ranks it among all readings, whatever these are: a DOWN
\* device's is the highest there is, any other's is that of its stored telemetry, and
\* Evaluate is monotone.
THEOREM ScoresRanked == Spec => []ScoresRank
<1>1. TypeInv /\ StoresInv /\ ScoreBands => ScoresRank
  <2>. SUFFICES ASSUME TypeInv, StoresInv, ScoreBands,
                       NEW d \in Devices, Idle(d), health[d] # None, NEW t \in Readings
                PROVE  /\ Down(d) => health[d].score >= Evaluate(t, FALSE).score
                       /\ (~Down(d) /\ AtLeastAsBad(t, store[d])) =>
                            health[d].score <= Evaluate(t, FALSE).score
    BY DEF ScoresRank
  <2>. DEFINE s == Evaluate(t, FALSE).score
  <2>1. t \in Telemetry /\ s \in 0..100
    BY MonitoringAssumption, EvaluateType DEF Assessment
  <2>2. IF Down(d) THEN StatusOf(d) = "DOWN" ELSE AssessedAsStored(d)
    BY DEF StoresInv, StoresOK, Idle
  <2>3. CASE Down(d)
    <3>1. health[d].status = "DOWN"
      BY <2>2, <2>3 DEF StatusOf
    <3>2. health[d].score \in 100..100
      BY <3>1 DEF ScoreBands, Band
    <3>3. health[d].score = 100
      BY <3>2
    <3>4. 100 >= s
      <4>. HIDE DEF s
      <4>. QED
        BY <2>1
    <3>. QED
      BY <2>3, <3>3, <3>4, Zenon
  <2>4. CASE ~Down(d)
    <3>1. store[d] \in Telemetry /\ health[d] = Evaluate(store[d], FALSE)
      BY <2>2, <2>4, MonitoringAssumption DEF AssessedAsStored, TypeInv, TypeOK
    <3>. QED
      BY <2>1, <2>4, <3>1, EvaluateMonotone
  <2>. QED
    BY <2>3, <2>4
<1>. QED
  BY TypeInvAlways, StoresAlways, ScoresInBands, <1>1, PTL
==============================================================================
