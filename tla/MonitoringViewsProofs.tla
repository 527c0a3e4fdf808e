------------------------ MODULE MonitoringViewsProofs ------------------------
(***************************************************************************)
(* The read API over the monitoring service, for every set of devices,     *)
(* threshold, retry budget and broker: a summary in flight hides no step   *)
(* of the service, so what is proved of Monitoring holds with it; and a    *)
(* summary that shows a device as answering has telemetry to show.         *)
(***************************************************************************)
EXTENDS MonitoringViews, MonitoringProofs

\* Every step with a summary in flight is a step of the service or leaves it alone.
THEOREM ViewsOnlyRead == ViewSpec => Spec
<1>1. ViewInit => Init
  BY DEF ViewInit
<1>2. [ViewNext]_<<vars, summary>> => [Next]_vars
  BY DEF ViewNext, Summarise, BeginSummary, ReadPart, EndSummary
<1>. QED
  BY <1>1, <1>2, PTL DEF ViewSpec, Spec

------------------------------------------------------------------------------

\* A device the tracker shows without failures has answered, so its telemetry is stored.
AnsweredStored ==
    \A d \in Devices :
        (tracker[d] # None /\ tracker[d].failures = 0) => store[d] # None

\* Telemetry once stored is only ever replaced.
LEMMA StoreKept ==
  ASSUME TypeInv, [Next]_vars, NEW n \in Devices, store[n] # None
  PROVE  store'[n] # None
<1>1. ASSUME NEW d \in Devices, Worker(d)
      PROVE  store'[n] # None
  <2>1. CASE StoreTelemetry(d)
    <3>1. reading[d] \in Readings /\ reading[d] # None
      BY <2>1, MonitoringAssumption DEF StoreTelemetry, TypeInv, ControlOK
    <3>. QED
      BY <2>1, <3>1 DEF StoreTelemetry, TypeInv, TypeOK
  <2>2. CASE ~StoreTelemetry(d)
    <3>1. store' = store
      BY <1>1, <2>2 DEF Worker, Cycle, BeginAttempt, DeviceAnswers, DeviceFails,
            RequestAborted, AttemptFailed, BackoffOver, GiveUp, RecordFailure, RecordSuccess,
            SnapshotStates, SetUpGauge, SetDownGauge, AssessSuccess, SkipAssessment,
            AssessFailure, AnnounceTransition, PublishTelemetry, Tick, ExitWorker, storeVars
    <3>. QED
      BY <3>1
  <2>. QED
    BY <2>1, <2>2
<1>2. CASE Outside
  BY <1>2, OutsideType DEF TypeInv, storeVars
<1>. QED
  BY <1>1, <1>2, StepKinds

LEMMA AnsweredInductive ==
  ASSUME TypeInv, StoresInv, AnsweredStored, [Next]_vars
  PROVE  AnsweredStored'
<1>. SUFFICES ASSUME NEW n \in Devices, tracker'[n] # None, tracker'[n].failures = 0
              PROVE  store'[n] # None
  BY DEF AnsweredStored
<1>1. CASE tracker'[n] = tracker[n]
  BY <1>1, StoreKept DEF AnsweredStored
<1>2. CASE tracker'[n] # tracker[n]
  <2>1. \E d \in Devices : RecordFailure(d) \/ RecordSuccess(d)
    <3>1. CASE Outside
      BY <1>2, <3>1, OutsideType DEF TypeInv, storeVars
    <3>2. ASSUME NEW d \in Devices, Worker(d), ~RecordFailure(d), ~RecordSuccess(d)
          PROVE  tracker' = tracker
      BY <3>2 DEF Worker, Cycle, BeginAttempt, DeviceAnswers, DeviceFails,
            RequestAborted, AttemptFailed, BackoffOver, GiveUp, StoreTelemetry,
            SnapshotStates, SetUpGauge, SetDownGauge, AssessSuccess, SkipAssessment,
            AssessFailure, AnnounceTransition, PublishTelemetry, Tick, ExitWorker, storeVars
    <3>. QED
      BY <1>2, <3>1, <3>2, StepKinds
  <2>2. PICK d \in Devices : RecordFailure(d) \/ RecordSuccess(d)
    BY <2>1
  <2>3. n = d
    BY <1>2, <2>2 DEF RecordFailure, RecordSuccess, TypeInv, TypeOK
  <2>4. CASE RecordFailure(d)
    <3>1. tracker'[n] = TrackFailure(tracker[n])
      BY <2>3, <2>4 DEF RecordFailure, TypeInv, TypeOK
    <3>2. tracker[n] \in TrackedState \cup {None}
      BY DEF TypeInv, TypeOK
    <3>3. Prior(tracker[n]).failures \in Nat
      BY <3>2, MonitoringAssumption DEF Prior, TrackedState
    <3>4. TrackFailure(tracker[n]).failures # 0
      BY <3>3, MonitoringAssumption DEF TrackFailure, AtMost
    <3>. QED
      BY <3>1, <3>4
  <2>5. CASE RecordSuccess(d)
    <3>1. err[d] = "none" /\ reading[d] \in Readings /\ store[d] = reading[d]
      BY <2>5 DEF RecordSuccess, TypeInv, ControlOK, StoresInv, StoresOK
    <3>2. store' = store
      BY <2>5 DEF RecordSuccess
    <3>. QED
      BY <2>3, <3>1, <3>2, MonitoringAssumption
  <2>. QED
    BY <2>2, <2>4, <2>5
<1>. QED
  BY <1>1, <1>2

------------------------------------------------------------------------------

Summary == [device : Devices \cup {None}, read : 0..3, tracker : BOOLEAN,
            telemetry : BOOLEAN, health : BOOLEAN]

\* What a summary that shows a success has yet to read is there to be read.
SummaryInv ==
    /\ summary \in Summary
    /\ summary # NoSummary => summary.device \in Devices
    /\ (summary.read >= 1 /\ summary.tracker) => store[summary.device] # None
    /\ (summary.read >= 2 /\ summary.tracker) => summary.telemetry
    /\ summary.read = 0 => ~summary.tracker

LEMMA SummaryInductive ==
  ASSUME TypeInv, AnsweredStored, SummaryInv, [ViewNext]_<<vars, summary>>
  PROVE  SummaryInv'
<1>. USE DEF SummaryInv, Summary, NoSummary
<1>1. CASE Next /\ UNCHANGED summary
  <2>1. summary.tracker /\ summary.read >= 1 => summary # NoSummary
    OBVIOUS
  <2>. QED
    BY <1>1, <2>1, StoreKept
<1>2. CASE BeginSummary
  BY <1>2 DEF BeginSummary
<1>3. CASE ReadPart
  <2>. DEFINE d == summary.device
  <2>1. Len(Parts) = 3 /\ Parts[1] = "tracker" /\ Parts[2] = "telemetry" /\ Parts[3] = "health"
    BY DEF Parts
  <2>2. summary # NoSummary /\ summary.read < 3 /\ UNCHANGED vars
    BY <1>3, <2>1, Zenon DEF ReadPart
  <2>3. d \in Devices /\ store' = store /\ summary.read \in 0..2 /\ summary \in Summary
    BY <2>2 DEF vars, storeVars
  <2>4. ASSUME NEW part, Parts[summary.read + 1] = part
        PROVE  summary' = [summary EXCEPT ![part] = Shown(part, d), !.read = @ + 1]
    BY <1>3, <2>4, Zenon DEF ReadPart
  <2>5. CASE summary.read = 0
    <3>1. Parts[summary.read + 1] = "tracker"
      BY <2>1, <2>5
    <3>2. summary' = [summary EXCEPT !.tracker = Shown("tracker", d), !.read = 1]
      <4>1. summary' = [summary EXCEPT !["tracker"] = Shown("tracker", d), !.read = @ + 1]
        BY <2>4, <3>1
      <4>2. summary.read + 1 = 1
        BY <2>5
      <4>. QED
        BY <4>1, <4>2, Zenon
    <3>3. Shown("tracker", d) = (tracker[d] # None /\ tracker[d].failures = 0)
      BY DEF Shown
    <3>4. PICK shown \in BOOLEAN : shown = Shown("tracker", d)
      BY <3>3
    <3>5. /\ summary' \in Summary /\ summary'.device = d /\ summary'.read = 1
          /\ summary'.tracker = shown
          /\ summary'.telemetry = summary.telemetry /\ summary'.health = summary.health
      <4>1. summary' = [summary EXCEPT !.tracker = shown, !.read = 1] /\ 1 \in 0..3
        BY <3>2, <3>4
      <4>. HIDE DEF SummaryInv, NoSummary
      <4>. QED
        BY <2>3, <4>1 DEF Summary
    <3>6. summary' # NoSummary
      BY <3>5
    <3>. QED
      BY <2>3, <2>5, <3>3, <3>4, <3>5, <3>6 DEF AnsweredStored
  <2>6. CASE summary.read = 1
    <3>1. Parts[summary.read + 1] = "telemetry"
      BY <2>1, <2>6
    <3>2. summary' = [summary EXCEPT !.telemetry = Shown("telemetry", d), !.read = 2]
      <4>1. summary' = [summary EXCEPT !["telemetry"] = Shown("telemetry", d), !.read = @ + 1]
        BY <2>4, <3>1
      <4>2. summary.read + 1 = 2
        BY <2>6
      <4>. QED
        BY <4>1, <4>2, Zenon
    <3>3. Shown("telemetry", d) = (store[d] # None)
      BY DEF Shown
    <3>4. PICK shown \in BOOLEAN : shown = Shown("telemetry", d)
      BY <3>3
    <3>5. /\ summary' \in Summary /\ summary'.device = d /\ summary'.read = 2
          /\ summary'.telemetry = shown
          /\ summary'.tracker = summary.tracker /\ summary'.health = summary.health
      <4>1. summary' = [summary EXCEPT !.telemetry = shown, !.read = 2] /\ 2 \in 0..3
        BY <3>2, <3>4
      <4>. HIDE DEF SummaryInv, NoSummary
      <4>. QED
        BY <2>3, <4>1 DEF Summary
    <3>6. summary' # NoSummary
      BY <3>5
    <3>. QED
      BY <2>3, <2>6, <3>3, <3>4, <3>5, <3>6
  <2>7. CASE summary.read = 2
    <3>1. Parts[summary.read + 1] = "health"
      BY <2>1, <2>7
    <3>2. summary' = [summary EXCEPT !.health = Shown("health", d), !.read = 3]
      <4>1. summary' = [summary EXCEPT !["health"] = Shown("health", d), !.read = @ + 1]
        BY <2>4, <3>1
      <4>2. summary.read + 1 = 3
        BY <2>7
      <4>. QED
        BY <4>1, <4>2, Zenon
    <3>3. Shown("health", d) = (health[d] # None)
      BY DEF Shown
    <3>4. PICK shown \in BOOLEAN : shown = Shown("health", d)
      BY <3>3
    <3>5. /\ summary' \in Summary /\ summary'.device = d /\ summary'.read = 3
          /\ summary'.health = shown
          /\ summary'.tracker = summary.tracker /\ summary'.telemetry = summary.telemetry
      <4>1. summary' = [summary EXCEPT !.health = shown, !.read = 3] /\ 3 \in 0..3
        BY <3>2, <3>4
      <4>. HIDE DEF SummaryInv, NoSummary
      <4>. QED
        BY <2>3, <4>1 DEF Summary
    <3>6. summary' # NoSummary
      BY <3>5
    <3>. QED
      BY <2>3, <2>7, <3>3, <3>4, <3>5, <3>6
  <2>. QED
    BY <2>3, <2>5, <2>6, <2>7
<1>4. CASE EndSummary
  BY <1>4 DEF EndSummary
<1>5. CASE UNCHANGED <<vars, summary>>
  BY <1>5 DEF vars, storeVars
<1>. QED
  BY <1>1, <1>2, <1>3, <1>4, <1>5 DEF ViewNext, Summarise

\* Whatever the workers do between its reads, a summary that shows a device UP and without
\* failures shows its telemetry.
THEOREM AnsweringDeviceHasTelemetry == ViewSpec => []UpImpliesTelemetry
<1>1. Init => AnsweredStored
  BY DEF Init, AnsweredStored
<1>2. TypeInv /\ StoresInv /\ AnsweredStored /\ [Next]_vars => AnsweredStored'
  BY AnsweredInductive
<1>3. Spec => []AnsweredStored
  BY <1>1, <1>2, TypeInvAlways, StoresAlways, PTL DEF Spec
<1>4. ViewInit => SummaryInv
  BY DEF ViewInit, SummaryInv, Summary, NoSummary
<1>5. TypeInv /\ AnsweredStored /\ SummaryInv /\ [ViewNext]_<<vars, summary>> => SummaryInv'
  BY SummaryInductive
<1>6. SummaryInv => UpImpliesTelemetry
  BY DEF SummaryInv, UpImpliesTelemetry, Parts
<1>. QED
  BY ViewsOnlyRead, TypeInvAlways, <1>3, <1>4, <1>5, <1>6, PTL DEF ViewSpec
==============================================================================
