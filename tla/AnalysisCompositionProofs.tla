---------------------- MODULE AnalysisCompositionProofs ----------------------
(***************************************************************************)
(* The analysis service with its read API, and fed by the monitoring       *)
(* service: both are the service of Analysis, so what AnalysisProofs       *)
(* proves holds in them.  The two services agree once settled, and a view  *)
(* that reads key by key is at most one event behind itself.               *)
(***************************************************************************)
EXTENDS AnalysisViews, HealthPipeline, AnalysisProofs

\* Every step with a request of the read API in flight is a step of the service or leaves
\* it alone.
THEOREM ViewsOnlyRead == ViewSpec => Spec
<1>1. ViewInit => Init
  BY DEF ViewInit
<1>2. [ViewNext]_<<vars, viewVars>> => [Next]_vars
  BY DEF ViewNext, Query, Complete, BeginComplete, ReadHealth, ReadRolling, GiveUp, ReadAnalysis,
     BeginTelemetry, ReadWindow, ReadTelemetry, Reads, Next, Service
<1> QED
  BY <1>1, <1>2, PTL DEF ViewSpec, Spec

------------------------------------------------------------------------------

\* Devices with a change that is not announced yet.
Owing == {d \in Devices : owed[d] # None}

Stores == Reported \cup {Unknown}

\* The feed's state, the room its announcements need in the topic, and that what it owes
\* is the status it holds.
FeedInv ==
    /\ assessed \in [Devices -> Stores]
    /\ owed \in [Devices -> Feed!Event \cup {None}]
    /\ \A d \in Devices : owed[d] # None => owed[d].curr = assessed[d] /\ owed[d].curr \in Reported
    /\ Len(log["health"]) + Cardinality(Owing) <= MaxEvents["health"]

LEMMA OwingCounted ==
  ASSUME NEW D \in SUBSET Devices
  PROVE  /\ IsFiniteSet(D) /\ Cardinality(D) \in Nat
         /\ \A d \in Devices \ D : Cardinality(D \cup {d}) = Cardinality(D) + 1
         /\ \A d \in D : Cardinality(D \ {d}) = Cardinality(D) - 1
<1>1. IsFiniteSet(D)
  BY FS_Subset, AnalysisAssumption
<1> QED
  BY <1>1, FS_CardinalityType, FS_AddElement, FS_RemoveElement

LEMMA InitFeed == PipelineInit => FeedInv
<1> SUFFICES ASSUME PipelineInit PROVE FeedInv
  OBVIOUS
<1>1. Owing = {}
  BY DEF PipelineInit, Feed!Init, Owing
<1>2. Len(log["health"]) = 0
  BY EmptySeq DEF PipelineInit, Init, Topics
<1>3. MaxEvents["health"] \in Nat
  BY AnalysisAssumption DEF Topics
<1> QED
  BY <1>1, <1>2, <1>3, FS_EmptySet DEF PipelineInit, Feed!Init, FeedInv, Stores

\* A change is made when there is room for it.
LEMMA StepAssess ==
  ASSUME IInv, FeedInv, NEW d \in Devices, AssessDevice(d)
  PROVE  FeedInv'
<1>1. PICK s \in Reported, p \in Feed!Previous(d) :
         /\ assessed' = [assessed EXCEPT ![d] = s]
         /\ owed' = [owed EXCEPT ![d] = [prev |-> p, curr |-> s]]
  BY DEF AssessDevice, Feed!Change
<1> DEFINE e == [prev |-> p, curr |-> s]
<1>2. e \in Feed!Event /\ e.curr = s
  BY DEF Feed!Event, Feed!Previous, FeedInv, Stores
<1> HIDE DEF e
<1>3. e # None
  BY <1>2, FeedAssumption
<1>4. owed[d] = None /\ log' = log
  BY DEF AssessDevice, Feed!Change, vars, brokerVars
<1>5. /\ assessed' \in [Devices -> Stores] /\ assessed'[d] = s
      /\ owed' \in [Devices -> Feed!Event \cup {None}] /\ owed'[d] = e
      /\ \A c \in Devices \ {d} : assessed'[c] = assessed[c] /\ owed'[c] = owed[c]
  BY <1>1, <1>2 DEF FeedInv, Stores, e
<1>6. Owing' = Owing \cup {d} /\ d \in Devices \ Owing
  BY <1>3, <1>4, <1>5 DEF Owing
<1>7. Cardinality(Owing') = Cardinality(Owing) + 1 /\ Cardinality(Owing) \in Nat
  <2>1. Owing \in SUBSET Devices
    BY DEF Owing
  <2> QED
    BY <1>6, <2>1, OwingCounted
<1>8. Len(log["health"]) + Cardinality(Owing) < MaxEvents["health"]
  BY DEF AssessDevice, Room, Owing
<1>9. Len(log["health"]) \in Nat /\ MaxEvents["health"] \in Nat
  BY AnalysisAssumption, LenProperties DEF IInv, ReaderInv, Topics
<1>10. Len(log'["health"]) + Cardinality(Owing') <= MaxEvents["health"]
  BY <1>4, <1>7, <1>8, <1>9
<1>11. \A c \in Devices : owed'[c] # None => owed'[c].curr = assessed'[c] /\ owed'[c].curr \in Reported
  BY <1>2, <1>5 DEF FeedInv
<1> QED
  BY <1>5, <1>10, <1>11 DEF FeedInv

\* An announcement publishes an event of the topic, and there is room for it.
LEMMA StepAnnounce ==
  ASSUME IInv, FeedInv, NEW d \in Devices, AnnounceHealth(d)
  PROVE  FeedInv' /\ Publish("health")
<1> DEFINE m == [device |-> d, status |-> owed[d].curr]
<1>1. "health" \in Topics
  BY DEF Topics
<1>2. owed[d] # None /\ owed' = [owed EXCEPT ![d] = None] /\ assessed' = assessed
  BY DEF AnnounceHealth, Feed!Announce
<1>3. log' = [log EXCEPT !["health"] = Append(@, m)]
  BY DEF AnnounceHealth
<1>4. m \in Messages("health")
  BY <1>2 DEF FeedInv, Messages
<1> HIDE DEF m
<1>5. /\ owed' \in [Devices -> Feed!Event \cup {None}] /\ owed'[d] = None
      /\ \A c \in Devices \ {d} : owed'[c] = owed[c]
  BY <1>2 DEF FeedInv
<1>6. Owing' = Owing \ {d} /\ d \in Owing
  BY <1>2, <1>5 DEF Owing
<1>7. Cardinality(Owing') = Cardinality(Owing) - 1 /\ Cardinality(Owing) \in Nat
      /\ Cardinality(Owing') \in Nat
  <2>1. Owing \in SUBSET Devices /\ Owing \ {d} \in SUBSET Devices
    BY DEF Owing
  <2> QED
    BY <1>6, <2>1, OwingCounted
<1>8. log["health"] \in Seq(Messages("health")) /\ MaxEvents["health"] \in Nat
  BY <1>1, AnalysisAssumption DEF IInv, ReaderInv
<1>9. Len(Append(log["health"], m)) = Len(log["health"]) + 1 /\ Len(log["health"]) \in Nat
  BY <1>4, <1>8, AppendProperties, LenProperties
<1>10. log'["health"] = Append(log["health"], m)
  BY <1>1, <1>3 DEF IInv, ReaderInv
<1>11. Len(log["health"]) + Cardinality(Owing) <= MaxEvents["health"]
  BY DEF FeedInv
<1>12. FeedInv'
  BY <1>2, <1>5, <1>7, <1>8, <1>9, <1>10, <1>11 DEF FeedInv
<1>13. Len(log["health"]) < MaxEvents["health"]
  BY <1>7, <1>8, <1>9, <1>11
<1>14. Publish("health")
  BY <1>3, <1>4, <1>13 DEF AnnounceHealth, Publish
<1> QED
  BY <1>12, <1>14

\* The service and the telemetry topic leave the health topic alone.
LEMMA ServiceFrame ==
  ASSUME ReaderInv, Service \/ Publish("telemetry")
  PROVE  log'["health"] = log["health"]
<1>1. CASE Publish("telemetry")
  BY <1>1 DEF Publish, ReaderInv, Topics
<1>2. CASE Service
  <2>1. CASE TelemetryReader \/ HealthReader
    BY <2>1, IdlingFrame DEF TelemetryReader, HealthReader, Consume, CheckClosed, Fetch, FetchFails,
       BackoffOver, ExitReader, CommitSucceeds, CommitFails, SaveLatest, SaveAnalysis, Aggregate,
       SaveRolling, EvaluateMetrics, EvaluateHealth, brokerVars
  <2>2. CASE Starter \/ RequestShutdown \/ Shutdown \/ StorageChanges \/ Restart
    BY <2>2, SurroundingsFrame DEF Starter, Surroundings, LaunchReaders, Restart, brokerVars
  <2>3. CASE Stopped \/ Blocked
    BY <2>3 DEF Stopped, Blocked, vars, brokerVars
  <2> QED
    BY <1>2, <2>1, <2>2, <2>3 DEF Service
<1> QED
  BY <1>1, <1>2

\* A step of the pipeline is a step of the analysis service, or one of the monitoring
\* service that leaves it alone.
LEMMA StepPipeline ==
  ASSUME IInv, FeedInv, [PipelineNext]_pipelineVars
  PROVE  FeedInv' /\ [Next]_vars
<1>1. CASE (Service \/ Publish("telemetry")) /\ UNCHANGED feedVars
  <2>1. log'["health"] = log["health"]
    BY <1>1, ServiceFrame DEF IInv
  <2>2. UNCHANGED <<assessed, owed>>
    BY <1>1 DEF feedVars
  <2>3. FeedInv'
    BY <2>1, <2>2 DEF FeedInv, Owing
  <2>4. Next
    BY <1>1 DEF Next, Topics
  <2> QED
    BY <2>3, <2>4
<1>2. ASSUME NEW d \in Devices, AssessDevice(d) PROVE FeedInv' /\ [Next]_vars
  BY <1>2, StepAssess DEF AssessDevice
<1>3. ASSUME NEW d \in Devices, AnnounceHealth(d) PROVE FeedInv' /\ [Next]_vars
  BY <1>3, StepAnnounce DEF Next, Topics
<1>4. CASE FeedRestarts
  <2>1. /\ assessed' = [d \in Devices |-> Unknown] /\ owed' = [d \in Devices |-> None]
        /\ log' = log
    BY <1>4 DEF FeedRestarts, vars, brokerVars
  <2>2. Owing' = {}
    BY <2>1 DEF Owing
  <2>3. Len(log["health"]) + 0 <= MaxEvents["health"]
    BY AnalysisAssumption, LenProperties DEF IInv, ReaderInv, Topics
  <2>4. FeedInv'
    BY <2>1, <2>2, <2>3, FS_EmptySet DEF FeedInv, Stores
  <2> QED
    BY <1>4, <2>4 DEF FeedRestarts
<1>5. CASE UNCHANGED pipelineVars
  <2>1. UNCHANGED <<vars, log, assessed, owed>>
    BY <1>5 DEF pipelineVars, feedVars, vars, brokerVars
  <2> QED
    BY <2>1 DEF FeedInv, Owing
<1> QED
  BY <1>1, <1>2, <1>3, <1>4, <1>5 DEF PipelineNext

LEMMA PipelineInductive == PipelineSpec => [](IInv /\ FeedInv) /\ Spec
<1>1. PipelineInit => Init /\ FeedInv
  BY InitFeed DEF PipelineInit
<1>2. IInv /\ FeedInv /\ [PipelineNext]_pipelineVars => FeedInv' /\ [Next]_vars
  BY StepPipeline
<1>3. Init => IInv
  BY InitInvariant
<1>4. IInv /\ [Next]_vars => IInv'
  BY StepInvariant
<1> QED
  BY <1>1, <1>2, <1>3, <1>4, PTL DEF PipelineSpec, Spec

\* Fed by the monitoring service through the topic, the analysis service is still the one of
\* Analysis, fairness included: every announcement is a message the topic has room for, and
\* what holds of every behaviour of FairSpec holds end to end.
THEOREM PipelineImplementsAnalysis == PipelineSpec => FairSpec
<1>1. PipelineSpec => Fairness
  BY PTL DEF PipelineSpec
<1> QED
  BY <1>1, PipelineInductive, PTL DEF FairSpec

\* The last event of a device that is in the topic.
Told(d) == LastIn(log["health"], d, Len(log["health"]))

\* With nothing left to announce the topic ends with the status the monitoring service holds.
ToldInv ==
    \A d \in Devices :
        (owed[d] = None /\ assessed[d] # Unknown) => Told(d) # None /\ Told(d).status = assessed[d]

LEMMA StepTold ==
  ASSUME IInv, FeedInv, ToldInv, [PipelineNext]_pipelineVars
  PROVE  ToldInv'
<1>1. ASSUME log'["health"] = log["health"], UNCHANGED <<assessed, owed>> PROVE ToldInv'
  BY <1>1 DEF ToldInv, Told
<1>2. CASE (Service \/ Publish("telemetry")) /\ UNCHANGED feedVars
  BY <1>1, <1>2, ServiceFrame DEF IInv, feedVars
<1>3. ASSUME NEW d \in Devices, AssessDevice(d) PROVE ToldInv'
  <2>1. log' = log
    BY <1>3 DEF AssessDevice, vars, brokerVars
  <2>2. PICK s \in Reported, p \in Feed!Previous(d) :
           /\ assessed' = [assessed EXCEPT ![d] = s]
           /\ owed' = [owed EXCEPT ![d] = [prev |-> p, curr |-> s]]
    BY <1>3 DEF AssessDevice, Feed!Change
  <2> DEFINE e == [prev |-> p, curr |-> s]
  <2>3. e \in Feed!Event
    BY DEF Feed!Event, Feed!Previous, FeedInv, Stores
  <2> HIDE DEF e
  <2>4. e # None
    BY <2>3, FeedAssumption
  <2>5. /\ owed'[d] # None
        /\ \A c \in Devices \ {d} : assessed'[c] = assessed[c] /\ owed'[c] = owed[c]
    BY <2>2, <2>4 DEF FeedInv, e
  <2> QED
    BY <2>1, <2>5 DEF ToldInv, Told
<1>4. ASSUME NEW d \in Devices, AnnounceHealth(d) PROVE ToldInv'
  <2> DEFINE m == [device |-> d, status |-> owed[d].curr]
             n == Len(log["health"])
  <2>1. "health" \in Topics
    BY DEF Topics
  <2>2. /\ owed[d] # None /\ owed' = [owed EXCEPT ![d] = None] /\ assessed' = assessed
        /\ log' = [log EXCEPT !["health"] = Append(@, m)]
    BY <1>4 DEF AnnounceHealth, Feed!Announce
  <2>3. m \in HealthEvent /\ m.status = assessed[d] /\ m.device = d
    BY <2>2 DEF FeedInv, HealthEvent
  <2> HIDE DEF m
  <2>4. m # None /\ m # Junk /\ m \in Messages("health")
    BY <2>3, FeedAssumption DEF HealthEvent, Messages
  <2>5. log["health"] \in Seq(Messages("health"))
    BY <2>1 DEF IInv, ReaderInv
  <2>6. log'["health"] = Append(log["health"], m)
    BY <2>1, <2>2 DEF IInv, ReaderInv
  <2> DEFINE more == Append(log["health"], m)
  <2>7. /\ n \in Nat /\ Len(more) = n + 1 /\ more[n + 1] = m
        /\ \A i \in 1..n : more[i] = log["health"][i]
    BY <2>4, <2>5, AppendProperties, LenProperties
  <2> HIDE DEF n, more
  <2>8. ASSUME NEW c \in Devices
        PROVE  Told(c)' = IF c = d THEN m ELSE Told(c)
    <3>1. Told(c)' = LastIn(more, c, n + 1)
      BY <2>6, <2>7 DEF Told, more
    <3>2. CASE c = d
      BY <2>3, <2>4, <2>7, <3>1, <3>2, LastInStep
    <3>3. CASE c # d
      <4>1. LastIn(more, c, n + 1) = LastIn(more, c, n)
        BY <2>3, <2>7, <3>3, LastInStep
      <4>2. LastIn(more, c, n) = LastIn(log["health"], c, n)
        BY <2>7, LastInKept
      <4> QED
        BY <3>1, <3>3, <4>1, <4>2 DEF Told, n
    <3> QED
      BY <3>2, <3>3
  <2>9. \A c \in Devices \ {d} : owed'[c] = owed[c]
    BY <2>2 DEF FeedInv
  <2>10. ASSUME NEW c \in Devices, owed'[c] = None, assessed'[c] # Unknown
         PROVE  Told(c)' # None /\ Told(c)'.status = assessed'[c]
    <3>1. CASE c = d
      BY <2>2, <2>3, <2>4, <2>8, <3>1
    <3>2. CASE c # d
      BY <2>2, <2>8, <2>9, <2>10, <3>2 DEF ToldInv
    <3> QED
      BY <3>1, <3>2
  <2> QED
    BY <2>10 DEF ToldInv
<1>5. CASE FeedRestarts
  BY <1>5 DEF FeedRestarts, ToldInv
<1>6. CASE UNCHANGED pipelineVars
  <2>1. UNCHANGED <<log, assessed, owed>>
    BY <1>6 DEF pipelineVars, feedVars, vars, brokerVars
  <2> QED
    BY <1>1, <2>1
<1> QED
  BY <1>2, <1>3, <1>4, <1>5, <1>6 DEF PipelineNext

\* End to end nothing stale stays behind: once the topic is consumed and nothing is owed, the
\* repository shows the status the monitoring service holds, as long as writes land.
THEOREM PipelineAgrees == PipelineSpec => ShownOnceConsumed
<1>1. PipelineInit => ToldInv
  BY DEF PipelineInit, Feed!Init, ToldInv
<1>2. IInv /\ FeedInv /\ ToldInv /\ [PipelineNext]_pipelineVars => ToldInv'
  BY StepTold
<1>3. IInv /\ ProjectionInv /\ ToldInv => Shown
  <2> SUFFICES ASSUME IInv, ProjectionInv, ToldInv,
                      pc["health"] \in {"check", "fetch", "backoff"},
                      position["health"] = Len(log["health"]),
                      NEW d \in Devices, owed[d] = None, assessed[d] # Unknown
               PROVE  latest["health"][d] # None /\ latest["health"][d].status = assessed[d]
    BY DEF Shown
  <2>1. "health" \in Topics
    BY DEF Topics
  <2>2. PICK n \in ProjectedTo("health")..Len(log["health"]) :
           latest["health"][d] = LastIn(log["health"], d, n)
    BY <2>1 DEF ProjectionInv
  <2>3. position["health"] \in Nat /\ Len(log["health"]) \in Nat
    BY <2>1, LenProperties DEF IInv, ReaderInv
  <2>4. n = Len(log["health"])
    BY <2>2, <2>3 DEF ProjectedTo
  <2>5. latest["health"][d] = Told(d)
    BY <2>2, <2>4 DEF Told
  <2> QED
    BY <2>5 DEF ToldInv
<1>4. PipelineSpec /\ []Writable => []ProjectionInv
  BY PipelineInductive, ProjectionInductive, PTL
<1>5. storageUp /\ ~cancelled <=> Writable
  BY DEF Writable
<1> QED
  BY <1>1, <1>2, <1>3, <1>4, <1>5, PipelineInductive, PTL DEF PipelineSpec, ShownOnceConsumed

------------------------------------------------------------------------------
(* A window over a stretch of the topic *)

\* What defines the windows of d over messages b+1..n, step by step.
HeldOf(s, d, w, b, n, f) ==
    f = [i \in b..n |-> IF i = b THEN << >> ELSE WindowStep(f[i - 1], s[i], d, w)]

LEMMA HeldStep ==
  ASSUME NEW b \in Nat, NEW n \in Nat, b <= n, NEW d, NEW w, NEW s, NEW f, HeldOf(s, d, w, b, n, f)
  PROVE  /\ f[b] = << >>
         /\ \A i \in (b + 1)..n : f[i] = WindowStep(f[i - 1], s[i], d, w)
<1>1. PICK g : g = f
  OBVIOUS
<1>2. g = [i \in b..n |-> IF i = b THEN << >> ELSE WindowStep(f[i - 1], s[i], d, w)]
  BY <1>1, Zenon DEF HeldOf
<1>3. g[b] = << >> /\ \A i \in (b + 1)..n : g[i] = WindowStep(f[i - 1], s[i], d, w)
  BY ONLY <1>2, b \in Nat, n \in Nat, b <= n
<1> QED
  BY <1>1, <1>3, Zenon

\* There are such windows: else there were a least stretch without.
LEMMA HeldExist ==
  ASSUME NEW b \in Nat, NEW n \in Nat, b <= n, NEW d, NEW w, NEW s
  PROVE  \E f : HeldOf(s, d, w, b, n, f)
<1> DEFINE without == {m \in Nat : b <= m /\ ~ \E f : HeldOf(s, d, w, b, m, f)}
<1>1. SUFFICES ASSUME without # {} PROVE FALSE
  OBVIOUS
<1>2. PICK m \in without : \A k \in without : m <= k
  BY <1>1, Least
<1>3. m \in Nat /\ b <= m /\ ~ \E f : HeldOf(s, d, w, b, m, f)
  OBVIOUS
<1>4. CASE m = b
  <2>1. PICK g : g = [i \in {b} |-> << >>]
    OBVIOUS
  <2>2. g = [i \in b..b |-> IF i = b THEN << >> ELSE WindowStep(g[i - 1], s[i], d, w)]
    BY ONLY <2>1, b \in Nat
  <2> QED
    BY <1>3, <1>4, <2>2 DEF HeldOf
<1>5. CASE m > b
  <2>1. m - 1 \in Nat /\ b <= m - 1 /\ ~(m <= m - 1)
    BY <1>3, <1>5
  <2>2. PICK f : HeldOf(s, d, w, b, m - 1, f)
    BY <1>2, <2>1
  <2>3. /\ f[b] = << >>
        /\ \A i \in (b + 1)..(m - 1) : f[i] = WindowStep(f[i - 1], s[i], d, w)
    BY <2>1, <2>2, HeldStep
  <2>4. PICK g : g = [i \in b..m |-> IF i = m THEN WindowStep(f[m - 1], s[m], d, w) ELSE f[i]]
    OBVIOUS
  <2>5. g = [i \in b..m |-> IF i = b THEN << >> ELSE WindowStep(g[i - 1], s[i], d, w)]
    <3>1. \A i \in b..m : g[i] = IF i = b THEN << >> ELSE WindowStep(g[i - 1], s[i], d, w)
      BY <1>3, <1>5, <2>3, <2>4
    <3>2. DOMAIN g = b..m /\ g = [i \in b..m |-> g[i]]
      BY <2>4, Zenon
    <3> QED
      BY <3>1, <3>2, Zenon
  <2> QED
    BY <1>3, <2>5 DEF HeldOf
<1> QED
  BY <1>3, <1>4, <1>5

\* Topics that agree up to n make the same windows up to n.
LEMMA HeldAgree ==
  ASSUME NEW b \in Nat, NEW n \in Nat, b <= n, NEW m \in Nat, n <= m, NEW d, NEW w,
         NEW s, NEW longer, \A i \in (b + 1)..n : longer[i] = s[i],
         NEW f, HeldOf(s, d, w, b, n, f), NEW g, HeldOf(longer, d, w, b, m, g)
  PROVE  f[n] = g[n]
<1> DEFINE differ == {i \in b..n : f[i] # g[i]}
<1>1. SUFFICES ASSUME differ # {} PROVE FALSE
  OBVIOUS
<1>2. PICK k \in differ : \A j \in differ : k <= j
  <2>1. differ \in SUBSET Nat
    OBVIOUS
  <2> HIDE DEF differ
  <2> QED
    BY <1>1, <2>1, Least
<1>3. f[b] = << >> /\ g[b] = << >>
  <2>1. b <= m
    OBVIOUS
  <2> QED
    BY <2>1, HeldStep
<1>4. k \in (b + 1)..n /\ k - 1 \in b..n /\ ~(k <= k - 1)
  <2>1. k \in b..n /\ k # b
    BY <1>3
  <2> QED
    BY ONLY <2>1, b \in Nat, n \in Nat
<1>5. f[k] = WindowStep(f[k - 1], s[k], d, w)
  BY <1>4, HeldStep
<1>6. g[k] = WindowStep(g[k - 1], longer[k], d, w)
  <2>1. b <= m /\ k \in (b + 1)..m
    BY <1>4
  <2> QED
    BY <2>1, HeldStep
<1>7. f[k - 1] = g[k - 1]
  BY <1>2, <1>4
<1> QED
  BY <1>4, <1>5, <1>6, <1>7

LEMMA WindowOverHeld ==
  ASSUME NEW b \in Nat, NEW n \in Nat, b <= n, NEW d, NEW w, NEW s
  PROVE  \E f : HeldOf(s, d, w, b, n, f) /\ WindowOver(s, d, w, b, n) = f[n]
<1> DEFINE held == CHOOSE f : f = [i \in b..n |-> IF i = b THEN << >>
                                                  ELSE WindowStep(f[i - 1], s[i], d, w)]
<1>1. PICK f : HeldOf(s, d, w, b, n, f)
  BY HeldExist
<1>2. f = [i \in b..n |-> IF i = b THEN << >> ELSE WindowStep(f[i - 1], s[i], d, w)]
  BY <1>1, Zenon DEF HeldOf
<1>3. held = [i \in b..n |-> IF i = b THEN << >> ELSE WindowStep(held[i - 1], s[i], d, w)]
  BY <1>2, Zenon
<1>4. WindowOver(s, d, w, b, n) = held[n]
  BY Zenon DEF WindowOver
<1> HIDE DEF held
<1> QED
  BY <1>3, <1>4, Zenon DEF HeldOf

\* A window over no message is empty, and one message more is one step more.
LEMMA WindowOverStep ==
  ASSUME NEW b \in Nat, NEW n \in Nat, b <= n, NEW d, NEW w, NEW s
  PROVE  /\ WindowOver(s, d, w, b, b) = << >>
         /\ WindowOver(s, d, w, b, n + 1) = WindowStep(WindowOver(s, d, w, b, n), s[n + 1], d, w)
<1>1. PICK f : HeldOf(s, d, w, b, b, f) /\ WindowOver(s, d, w, b, b) = f[b]
  BY WindowOverHeld
<1>2. WindowOver(s, d, w, b, b) = << >>
  BY <1>1, HeldStep
<1>3. PICK h : HeldOf(s, d, w, b, n, h) /\ WindowOver(s, d, w, b, n) = h[n]
  BY WindowOverHeld
<1>4. b <= n + 1 /\ n + 1 \in Nat /\ n + 1 \in (b + 1)..(n + 1) /\ (n + 1) - 1 = n
  OBVIOUS
<1>5. PICK g : HeldOf(s, d, w, b, n + 1, g) /\ WindowOver(s, d, w, b, n + 1) = g[n + 1]
  BY <1>4, WindowOverHeld
<1>6. g[n + 1] = WindowStep(g[n], s[n + 1], d, w)
  BY <1>4, <1>5, HeldStep
<1>7. h[n] = g[n]
  BY <1>3, <1>4, <1>5, HeldAgree
<1> QED
  BY <1>2, <1>3, <1>5, <1>6, <1>7

\* What is appended later does not change it.
LEMMA WindowOverKept ==
  ASSUME NEW b \in Nat, NEW n \in Nat, b <= n, NEW d, NEW w,
         NEW s, NEW longer, \A i \in 1..n : longer[i] = s[i]
  PROVE  WindowOver(longer, d, w, b, n) = WindowOver(s, d, w, b, n)
<1>1. PICK f : HeldOf(s, d, w, b, n, f) /\ WindowOver(s, d, w, b, n) = f[n]
  BY WindowOverHeld
<1>2. PICK g : HeldOf(longer, d, w, b, n, g) /\ WindowOver(longer, d, w, b, n) = g[n]
  BY WindowOverHeld
<1>3. \A i \in (b + 1)..n : longer[i] = s[i]
  OBVIOUS
<1>4. n <= n
  OBVIOUS
<1> QED
  BY <1>1, <1>2, <1>3, <1>4, HeldAgree

------------------------------------------------------------------------------
(* What the windows hold and what was saved of them *)

Tele == log["telemetry"]

\* Nothing but a sample aggregated, or a message passed over, changes how far the windows
\* are, until the process ends or its reader starts again.
LEMMA GoneSteps ==
  ASSUME ReaderInv, StartInv, LifeInv, [Next]_vars, rejoins' = 0
  PROVE  \/ Restart \/ Aggregate
         \/ /\ Fetch("telemetry") /\ Message("telemetry") = Junk
            /\ Gone' = position["telemetry"] + 1 /\ Gone = position["telemetry"]
            /\ windows' = windows /\ position' = position
         \/ /\ Gone' = Gone /\ windows' = windows
            /\ position'["telemetry"] >= position["telemetry"]
<1> DEFINE Kept == Gone' = Gone /\ position'["telemetry"] >= position["telemetry"]
<1> USE DEF Gone, ReaderInv, Labels
<1>1. "telemetry" \in Topics
  BY DEF Topics
<1>2. windows' = windows \/ Aggregate \/ Restart
  BY Frames
<1>3. ASSUME NEW t \in Topics, Idling(t) PROVE Kept
  <2>1. PICK label \in {"check", "fetch", "backoff", "exited"} : pc' = [pc EXCEPT ![t] = label]
    BY <1>3, IdlingFrame
  <2>2. position' = position /\ pc[t] \in {"check", "fetch", "backoff"}
    BY <1>3, IdlingFrame
  <2> QED
    BY <1>1, <2>1, <2>2
<1>4. ASSUME NEW t \in Topics, Fetch(t), ~(t = "telemetry" /\ Message(t) = Junk) PROVE Kept
  BY <1>1, <1>4 DEF Fetch, FetchMessage, Goto
<1>5. ASSUME Fetch("telemetry"), Message("telemetry") = Junk
      PROVE  /\ Gone' = position["telemetry"] + 1 /\ Gone = position["telemetry"]
             /\ position' = position
  BY <1>1, <1>5 DEF Fetch, FetchMessage, Goto
<1>6. ASSUME NEW t \in Topics, SaveLatest(t) PROVE Kept
  BY <1>1, <1>6 DEF SaveLatest, Goto, AfterSave
<1>7. ASSUME NEW t \in Topics, SaveAnalysis(t) PROVE Kept
  BY <1>1, <1>7 DEF SaveAnalysis, Goto
<1>8. ASSUME NEW t \in Topics, Committing(t) PROVE Kept
  <2>1. position' = [position EXCEPT ![t] = @ + 1]
    BY <1>8 DEF Committing, CommitSucceeds, CommitFails, LifeInv
  <2>2. pc[t] = "commit" /\ pc' = [pc EXCEPT ![t] = "check"]
    BY <1>8 DEF Committing, CommitSucceeds, CommitFails, Goto
  <2> QED
    BY <1>1, <2>1, <2>2
<1>9. ASSUME NEW t \in Topics, Publish(t) PROVE Kept
  BY <1>1, <1>9 DEF Publish, readerVars
<1>10. ASSUME SaveRolling PROVE Kept
  BY <1>1, <1>2, <1>10 DEF SaveRolling, Goto, memoryVars
<1>11. ASSUME EvaluateMetrics PROVE Kept
  BY <1>1, <1>2, <1>11 DEF EvaluateMetrics, Goto, memoryVars
<1>12. ASSUME EvaluateHealth PROVE Kept
  BY <1>1, <1>2, <1>12 DEF EvaluateHealth, Goto, Topics
<1>13. ASSUME LaunchReaders PROVE Kept
  BY <1>1, <1>2, <1>13 DEF LaunchReaders, LaunchLoops, StartInv
<1>14. ASSUME Surroundings PROVE Kept
  BY <1>1, <1>14, SurroundingsFrame
<1> QED
  BY <1>1, <1>2, <1>3, <1>4, <1>5, <1>6, <1>7, <1>8, <1>9, <1>10, <1>11, <1>12, <1>13, <1>14, Steps

\* The windows are those over the messages from where the process began, which is no
\* farther than the message in hand.
WindowsInv ==
    rejoins = 0 =>
        \E b \in 0..position["telemetry"] : \A d \in Devices, w \in DOMAIN Windows :
            windows[d][w] = WindowOver(Tele, d, w, b, Gone)

LEMMA StepWindowsOver ==
  ASSUME IInv, StartInv, WindowsInv, [Next]_vars
  PROVE  WindowsInv'
<1> SUFFICES ASSUME rejoins' = 0
             PROVE  \E b \in 0..position'["telemetry"] : \A d \in Devices, w \in DOMAIN Windows :
                       windows'[d][w] = WindowOver(Tele', d, w, b, Gone')
  BY DEF WindowsInv
<1>1. ReaderInv /\ ReaderInv' /\ LifeInv /\ MemoryInv
  BY StepReaders DEF IInv
<1>2. "telemetry" \in Topics
  BY DEF Topics
<1>3. /\ position["telemetry"] \in Nat /\ position'["telemetry"] \in Nat
      /\ Gone \in Nat /\ Gone' \in Nat /\ Len(Tele) \in Nat /\ Gone <= Len(Tele)
  BY <1>1, <1>2, LenProperties DEF ReaderInv, Gone, Tele, Handling
<1>4. rejoins = 0
  BY <1>1, Frames DEF LifeInv, CommitFails
<1>5. PICK b \in 0..position["telemetry"] :
        \A d \in Devices, w \in DOMAIN Windows : windows[d][w] = WindowOver(Tele, d, w, b, Gone)
  BY <1>4 DEF WindowsInv
<1>6. b \in Nat /\ b <= Gone /\ b <= position["telemetry"]
  BY <1>3 DEF Gone
<1>7. \A i \in 1..Gone : Tele'[i] = Tele[i]
  <2>1. \A i \in 1..Len(Tele) : Tele'[i] = Tele[i]
    BY <1>1, <1>2, LogGrows DEF Tele
  <2> QED
    BY <1>3, <2>1
<1>8. \A d, w : WindowOver(Tele', d, w, b, Gone) = WindowOver(Tele, d, w, b, Gone)
  BY <1>3, <1>6, <1>7, WindowOverKept
<1>9. CASE Restart
  <2>1. \A d \in Devices, w \in DOMAIN Windows : windows'[d][w] = << >>
    BY <1>9 DEF Restart, EmptyWindows
  <2>2. \A d, w : WindowOver(Tele', d, w, Gone', Gone') = << >>
    BY <1>3, WindowOverStep
  <2>3. Gone' = position'["telemetry"]
    BY <1>2, <1>9 DEF Restart, Gone
  <2> QED
    BY <1>3, <2>1, <2>2, <2>3
<1>10. CASE Aggregate
  <2> DEFINE m == Message("telemetry")
             e == Device("telemetry")
  <2>1. Gone = position["telemetry"] /\ Gone' = Gone + 1
    BY <1>1, <1>2, <1>10 DEF Aggregate, Goto, Gone, ReaderInv
  <2>2. e \in Devices /\ m # Junk /\ m.device = e /\ m = Tele'[Gone + 1]
    <3>1. pc["telemetry"] \in Handling /\ Tele' = Tele
      BY <1>10 DEF Aggregate, Handling, brokerVars, Tele
    <3>2. e \in Devices /\ m \in Messages("telemetry") \ {Junk}
      BY <1>1, <1>2, <3>1, InHand
    <3> QED
      BY <2>1, <3>1, <3>2 DEF Message, Device, Tele
  <2>3. windows' = [windows EXCEPT ![e] = [w \in DOMAIN Windows |->
                                              AddSample(@[w], m.sample, Windows[w])]]
    BY <1>10 DEF Aggregate
  <2> HIDE DEF m, e
  <2>4. ASSUME NEW d \in Devices, NEW w \in DOMAIN Windows
        PROVE  windows'[d][w] = WindowStep(windows[d][w], m, d, w)
    <3>1. CASE d = e
      <4>1. windows'[e][w] = AddSample(windows[e][w], m.sample, Windows[w])
        BY <1>1, <2>2, <2>3 DEF MemoryInv
      <4>2. IsOf(m, d)
        BY <2>2, <3>1 DEF IsOf
      <4>3. WindowStep(windows[d][w], m, d, w) = AddSample(windows[d][w], m.sample, Windows[w])
        BY <4>2, Zenon DEF WindowStep
      <4> QED
        BY <3>1, <4>1, <4>3, Zenon
    <3>2. CASE d # e
      BY <1>1, <2>2, <2>3, <3>2 DEF WindowStep, IsOf, MemoryInv
    <3> QED
      BY <3>1, <3>2
  <2>5. \A d, w : WindowOver(Tele', d, w, b, Gone + 1)
                    = WindowStep(WindowOver(Tele', d, w, b, Gone), Tele'[Gone + 1], d, w)
    BY <1>3, <1>6, WindowOverStep
  <2>6. \A d \in Devices, w \in DOMAIN Windows :
           windows'[d][w] = WindowOver(Tele', d, w, b, Gone')
    BY <1>5, <1>8, <2>1, <2>2, <2>4, <2>5
  <2>7. b \in 0..position'["telemetry"]
    BY <1>3, <1>6, <1>10 DEF Aggregate
  <2> QED
    BY <2>6, <2>7
<1>11. CASE /\ Fetch("telemetry") /\ Message("telemetry") = Junk
            /\ Gone' = position["telemetry"] + 1 /\ Gone = position["telemetry"]
            /\ windows' = windows /\ position' = position
  <2>1. Tele'[Gone + 1] = Junk
    BY <1>11 DEF Fetch, brokerVars, Message, Tele
  <2>2. \A d, w, held : WindowStep(held, Tele'[Gone + 1], d, w) = held
    BY <2>1 DEF WindowStep, IsOf
  <2>3. \A d, w : WindowOver(Tele', d, w, b, Gone + 1)
                    = WindowStep(WindowOver(Tele', d, w, b, Gone), Tele'[Gone + 1], d, w)
    BY <1>3, <1>6, WindowOverStep
  <2>4. \A d \in Devices, w \in DOMAIN Windows :
           windows'[d][w] = WindowOver(Tele', d, w, b, Gone')
    BY <1>5, <1>8, <1>11, <2>2, <2>3
  <2>5. b \in 0..position'["telemetry"]
    BY <1>3, <1>6, <1>11
  <2> QED
    BY <2>4, <2>5
<1>12. CASE /\ Gone' = Gone /\ windows' = windows
            /\ position'["telemetry"] >= position["telemetry"]
  <2>1. b \in 0..position'["telemetry"]
    BY <1>3, <1>6, <1>12
  <2> QED
    BY <1>5, <1>8, <1>12, <2>1
<1> QED
  BY <1>1, <1>9, <1>10, <1>11, <1>12, GoneSteps

------------------------------------------------------------------------------
(* What was saved of the windows *)

\* Metrics that take in r messages take in fewer, and still do when more are published.
LEMMA TakesInKept ==
  ASSUME NEW r \in Nat, NEW q \in Int, q <= r, NEW s, NEW longer, NEW d, NEW w, NEW metrics,
         Len(s) \in Nat, Len(longer) \in Nat, r <= Len(s), Len(s) <= Len(longer),
         \A i \in 1..Len(s) : longer[i] = s[i], TakesIn(metrics, s, d, w, r)
  PROVE  TakesIn(metrics, longer, d, w, q)
<1>1. CASE metrics = None /\ \A i \in 1..r : ~IsOf(s[i], d)
  <2>1. \A i \in 1..q : i \in 1..r /\ longer[i] = s[i]
    OBVIOUS
  <2>2. \A i \in 1..q : ~IsOf(longer[i], d)
    BY <1>1, <2>1
  <2> QED
    BY <1>1, <2>2 DEF TakesIn
<1>2. ASSUME NEW n \in r..Len(s), NEW b \in 0..n, Covers(metrics, s, d, w, b, n)
      PROVE  TakesIn(metrics, longer, d, w, q)
  <2>1. n \in Nat /\ b \in Nat /\ b <= n /\ n \in q..Len(longer)
    OBVIOUS
  <2>2. \A i \in 1..n : longer[i] = s[i]
    OBVIOUS
  <2>3. WindowOver(longer, d, w, b, n) = WindowOver(s, d, w, b, n)
    BY <2>1, <2>2, WindowOverKept
  <2>4. \A i \in (b + 1)..n : i \in 1..n
    BY <2>1
  <2>5. PICK i \in (b + 1)..n : IsOf(s[i], d)
    BY <1>2 DEF Covers
  <2>6. IsOf(longer[i], d)
    BY <2>2, <2>4, <2>5
  <2>7. Covers(metrics, longer, d, w, b, n)
    BY <1>2, <2>3, <2>6 DEF Covers
  <2> QED
    BY <2>1, <2>7 DEF TakesIn
<1> QED
  BY <1>1, <1>2 DEF TakesIn

\* A message that is not of d brings nothing to take in.
LEMMA TakesInMore ==
  ASSUME NEW r \in Nat, NEW s, NEW d, NEW w, NEW metrics,
         Len(s) \in Nat, r < Len(s), ~IsOf(s[r + 1], d), TakesIn(metrics, s, d, w, r)
  PROVE  TakesIn(metrics, s, d, w, r + 1)
<1>1. CASE metrics = None /\ \A i \in 1..r : ~IsOf(s[i], d)
  <2>1. \A i \in 1..(r + 1) : i \in 1..r \/ i = r + 1
    OBVIOUS
  <2> QED
    BY <1>1, <2>1 DEF TakesIn
<1>2. ASSUME NEW n \in r..Len(s), NEW b \in 0..n, Covers(metrics, s, d, w, b, n)
      PROVE  TakesIn(metrics, s, d, w, r + 1)
  <2>1. CASE n = r
    <3>1. b \in Nat /\ b <= r /\ r + 1 \in (r + 1)..Len(s) /\ b \in 0..(r + 1)
      BY <2>1
    <3>2. WindowOver(s, d, w, b, r + 1) = WindowStep(WindowOver(s, d, w, b, r), s[r + 1], d, w)
      BY <3>1, WindowOverStep
    <3>3. WindowOver(s, d, w, b, r + 1) = WindowOver(s, d, w, b, r)
      BY <3>2, Zenon DEF WindowStep
    <3>4. PICK i \in (b + 1)..r : IsOf(s[i], d)
      BY <1>2, <2>1 DEF Covers
    <3>5. i \in (b + 1)..(r + 1)
      BY <3>1
    <3>6. Covers(metrics, s, d, w, b, r + 1)
      BY <1>2, <2>1, <3>3, <3>4, <3>5 DEF Covers
    <3> QED
      BY <3>1, <3>6 DEF TakesIn
  <2>2. CASE n # r
    <3>1. n \in (r + 1)..Len(s)
      BY <2>2
    <3> QED
      BY <1>2, <3>1 DEF TakesIn
  <2> QED
    BY <2>1, <2>2
<1> QED
  BY <1>1, <1>2 DEF TakesIn

\* How many telemetry messages the running process has saved window w of, or passed over.
RolledTo(w) == IF pc["telemetry"] = "roll" /\ w \in unsaved THEN position["telemetry"] ELSE Gone

\* Besides SaveRolling only a message passed over brings it on.
LEMMA RolledSteps ==
  ASSUME ReaderInv, StartInv, LifeInv, [Next]_vars, rejoins' = 0, NEW w \in DOMAIN Windows
  PROVE  \/ SaveRolling \/ RolledTo(w)' <= RolledTo(w)
         \/ /\ Fetch("telemetry") /\ Message("telemetry") = Junk
            /\ RolledTo(w)' = position["telemetry"] + 1 /\ RolledTo(w) = position["telemetry"]
<1>1. "telemetry" \in Topics
  BY DEF Topics
<1>2. /\ position["telemetry"] \in Nat /\ position'["telemetry"] \in Nat
      /\ Gone \in Nat /\ Gone' \in Nat /\ RolledTo(w) \in Nat /\ RolledTo(w)' \in Nat
      /\ position["telemetry"] <= Gone /\ position'["telemetry"] <= Gone'
      /\ pc["telemetry"] \in Labels
  <2>1. ReaderInv'
    BY StepReaders
  <2> QED
    BY <1>1, <2>1 DEF ReaderInv, Gone, RolledTo
<1>3. CASE Restart
  <2>1. RolledTo(w)' = committed["telemetry"]
    BY <1>1, <1>3 DEF Restart, RolledTo, Gone
  <2>2. committed["telemetry"] \in Nat /\ committed["telemetry"] <= position["telemetry"]
    BY <1>1 DEF ReaderInv
  <2>3. position["telemetry"] <= RolledTo(w)
    BY <1>2 DEF RolledTo
  <2> QED
    BY <1>2, <2>1, <2>2, <2>3
<1>4. CASE Aggregate
  <2>1. RolledTo(w)' = position["telemetry"] /\ RolledTo(w) = position["telemetry"]
    BY <1>1, <1>4 DEF Aggregate, Goto, RolledTo, Gone, ReaderInv
  <2> QED
    BY <1>2, <2>1
<1>5. ASSUME Fetch("telemetry"), Message("telemetry") = Junk
      PROVE  RolledTo(w)' = position["telemetry"] + 1 /\ RolledTo(w) = position["telemetry"]
  BY <1>1, <1>5 DEF Fetch, FetchMessage, Goto, RolledTo, Gone, ReaderInv
<1>6. CASE Gone' = Gone /\ ~SaveRolling /\ ~Restart /\ ~Aggregate
  <2>1. RolledTo(w)' <= Gone
    BY <1>2, <1>6 DEF RolledTo
  <2>2. CASE pc["telemetry"] = "roll" /\ w \in unsaved
    <3>1. ~SaveAnalysis("telemetry")
      BY <2>2 DEF SaveAnalysis
    <3>2. UNCHANGED <<pc["telemetry"], position["telemetry"]>>
      BY <1>6, <2>2, <3>1, MessageStays
    <3>3. unsaved' = unsaved
      BY <1>6, Frames
    <3> QED
      BY <1>2, <2>2, <3>2, <3>3 DEF RolledTo
  <2> QED
    BY <2>1, <2>2 DEF RolledTo
<1> QED
  BY <1>3, <1>4, <1>5, <1>6, GoneSteps

\* What is stored of a window takes in everything the process has saved or passed over.
RollingInv ==
    rejoins = 0 =>
        \A d \in Devices, w \in DOMAIN Windows :
            TakesIn(rolling[d][w], Tele, d, w, RolledTo(w))

\* What SaveRolling stores takes in the message in hand.
LEMMA SavedTakesIn ==
  ASSUME IInv, WindowsInv, rejoins = 0, SaveRolling, NEW w \in DOMAIN Windows
  PROVE  LET d == Device("telemetry")
         IN TakesIn(CalculateMetrics(windows[d][w]), Tele, d, w, position["telemetry"] + 1)
<1> DEFINE d == Device("telemetry")
           p == position["telemetry"]
           metrics == CalculateMetrics(windows[d][w])
<1>1. "telemetry" \in Topics /\ pc["telemetry"] = "roll"
  BY DEF Topics, SaveRolling
<1>2. Gone = p + 1
  BY <1>1 DEF Gone
<1>3. p \in Nat /\ Len(Tele) \in Nat /\ p < Len(Tele)
  BY <1>1, LenProperties DEF IInv, ReaderInv, Handling, Tele
<1>4. d \in Devices /\ IsOf(Tele[p + 1], d)
  BY <1>1, InHand DEF IInv, Handling, IsOf, Device, Message, Tele
<1> HIDE DEF d, p
<1>5. PICK b \in 0..p :
        \A e \in Devices, v \in DOMAIN Windows : windows[e][v] = WindowOver(Tele, e, v, b, Gone)
  BY DEF WindowsInv, p
<1>6. metrics = CalculateMetrics(WindowOver(Tele, d, w, b, p + 1))
  BY <1>2, <1>4, <1>5, Zenon
<1>7. p + 1 \in (b + 1)..(p + 1) /\ p + 1 \in (p + 1)..Len(Tele) /\ b \in 0..(p + 1)
  BY <1>3
<1> HIDE DEF metrics
<1>8. Covers(metrics, Tele, d, w, b, p + 1)
  BY <1>4, <1>6, <1>7 DEF Covers
<1>9. TakesIn(metrics, Tele, d, w, p + 1)
  BY <1>7, <1>8 DEF TakesIn
<1> QED
  BY <1>9 DEF metrics, d, p

LEMMA StepRolling ==
  ASSUME IInv, StartInv, WindowsInv, Writable, RollingInv, [Next]_vars
  PROVE  RollingInv'
<1> SUFFICES ASSUME rejoins' = 0, NEW d \in Devices, NEW w \in DOMAIN Windows
             PROVE  TakesIn(rolling'[d][w], Tele', d, w, RolledTo(w)')
  BY DEF RollingInv
<1>1. ReaderInv /\ ReaderInv' /\ LifeInv
  BY StepReaders DEF IInv
<1>2. "telemetry" \in Topics
  BY DEF Topics
<1>3. /\ position["telemetry"] \in Nat /\ position["telemetry"] <= Len(Tele)
      /\ Len(Tele) \in Nat /\ Len(Tele') \in Nat /\ Gone \in Nat /\ Gone <= Len(Tele)
      /\ RolledTo(w) \in Nat /\ RolledTo(w)' \in Nat /\ RolledTo(w) <= Len(Tele)
  BY <1>1, <1>2, LenProperties DEF ReaderInv, Gone, RolledTo, Tele, Handling
<1>4. rejoins = 0
  BY <1>1, Frames DEF LifeInv, CommitFails
<1>5. TakesIn(rolling[d][w], Tele, d, w, RolledTo(w))
  BY <1>4 DEF RollingInv
<1>6. /\ Len(Tele) <= Len(Tele')
      /\ \A i \in 1..Len(Tele) : Tele'[i] = Tele[i]
  BY <1>1, <1>2, LogGrows DEF Tele
<1>7. CASE RolledTo(w)' <= RolledTo(w) /\ rolling'[d][w] = rolling[d][w]
  <2>1. TakesIn(rolling[d][w], Tele', d, w, RolledTo(w)')
    BY <1>3, <1>5, <1>6, <1>7, TakesInKept
  <2> QED
    BY <1>7, <2>1
<1>8. CASE /\ RolledTo(w)' = position["telemetry"] + 1 /\ RolledTo(w) = position["telemetry"]
           /\ rolling'[d][w] = rolling[d][w] /\ Tele' = Tele
           /\ position["telemetry"] < Len(Tele) /\ ~IsOf(Message("telemetry"), d)
  <2>1. ~IsOf(Tele[position["telemetry"] + 1], d)
    BY <1>8 DEF Message, Tele
  <2>2. TakesIn(rolling[d][w], Tele, d, w, position["telemetry"] + 1)
    BY <1>3, <1>5, <1>8, <2>1, TakesInMore
  <2> QED
    BY <1>8, <2>2
<1>9. ASSUME Fetch("telemetry"), Message("telemetry") = Junk
      PROVE  /\ rolling' = rolling /\ Tele' = Tele /\ position["telemetry"] < Len(Tele)
             /\ ~IsOf(Message("telemetry"), d)
  BY <1>9 DEF Fetch, FetchMessage, repoVars, brokerVars, Tele, IsOf
<1>10. CASE SaveRolling
  <2> DEFINE e == Device("telemetry")
  <2>1. PICK v \in unsaved :
           /\ rolling' = [rolling EXCEPT ![e][v] = CalculateMetrics(windows[e][v])]
           /\ unsaved' = unsaved \ {v}
    <3>1. Landings = {TRUE}
      BY DEF Landings, Writable
    <3> QED
      BY <1>10, <3>1 DEF SaveRolling
  <2>2. /\ pc["telemetry"] = "roll" /\ position' = position /\ Tele' = Tele
        /\ pc'["telemetry"] = IF unsaved' = {} THEN "evaluate" ELSE "roll"
    BY <1>1, <1>2, <1>10 DEF SaveRolling, Goto, ReaderInv, brokerVars, Tele
  <2>3. Gone' = Gone /\ Gone = position["telemetry"] + 1
    BY <2>2 DEF Gone
  <2>4. /\ e \in Devices /\ Message("telemetry").device = e
        /\ position["telemetry"] < Len(Tele)
    BY <1>1, <1>2, <2>2, InHand DEF ReaderInv, Handling, Device, Tele
  <2>5. v \in DOMAIN Windows
    BY DEF IInv, MemoryInv
  <2> HIDE DEF e
  <2>6. CASE w = v /\ d = e
    <3>1. rolling'[d][w] = CalculateMetrics(windows[d][w])
      BY <2>1, <2>4, <2>5, <2>6 DEF IInv, RepositoryInv
    <3>2. TakesIn(CalculateMetrics(windows[e][w]), Tele, e, w, position["telemetry"] + 1)
      BY <1>4, <1>10, SavedTakesIn DEF e
    <3>3. RolledTo(w)' = position["telemetry"] + 1
      BY <2>1, <2>2, <2>3, <2>6 DEF RolledTo
    <3> QED
      BY <2>2, <2>6, <3>1, <3>2, <3>3
  <2>7. CASE w = v /\ d # e
    <3>1. rolling'[d][w] = rolling[d][w]
      BY <2>1, <2>7 DEF IInv, RepositoryInv
    <3>2. RolledTo(w)' = position["telemetry"] + 1 /\ RolledTo(w) = position["telemetry"]
      BY <2>1, <2>2, <2>3, <2>7 DEF RolledTo
    <3>3. ~IsOf(Message("telemetry"), d)
      BY <2>4, <2>7 DEF IsOf
    <3> QED
      BY <1>8, <2>2, <2>4, <3>1, <3>2, <3>3
  <2>8. CASE w # v
    <3>1. rolling'[d][w] = rolling[d][w]
      BY <2>1, <2>4, <2>8 DEF IInv, RepositoryInv
    <3>2. RolledTo(w)' = RolledTo(w)
      BY <2>1, <2>2, <2>3, <2>8 DEF RolledTo
    <3> QED
      BY <1>3, <1>7, <3>1, <3>2
  <2> QED
    BY <2>6, <2>7, <2>8
<1>11. SaveRolling \/ rolling' = rolling
  BY Frames
<1> QED
  BY <1>1, <1>7, <1>8, <1>9, <1>10, <1>11, RolledSteps

------------------------------------------------------------------------------
(* A request in flight *)

Parts == {"none", "health", "rolling", "windows", "analysis"}

\* The request's locals, and that what it saw was projected.
ViewInv ==
    /\ query \in [next : Parts, device : Devices \cup {None}, left : SUBSET DOMAIN Windows]
    /\ query.next \in {"health", "rolling", "windows"} => query.device \in Devices
    /\ seen \in Nat
    /\ rejoins = 0 => seen <= Projected

\* While the process lives, a message that is projected stays so.
LEMMA ProjectedStays ==
  ASSUME ReaderInv, StartInv, LifeInv, [Next]_vars, rejoins' = 0, ~Restart
  PROVE  Projected <= Projected'
<1>1. "telemetry" \in Topics
  BY DEF Topics
<1>2. /\ position["telemetry"] \in Nat /\ Gone \in Nat /\ Gone' \in Nat
      /\ Projected \in Nat /\ Projected' \in Nat /\ Gone' <= Projected'
      /\ pc["telemetry"] # "aggregate" => Projected = Gone
  <2>1. ReaderInv'
    BY StepReaders
  <2> QED
    BY <1>1, <2>1 DEF ReaderInv, Gone, Projected
<1>3. CASE Aggregate
  <2>1. Projected' = position["telemetry"] + 1 /\ Projected = position["telemetry"] + 1
    BY <1>1, <1>3 DEF Aggregate, Goto, Projected, ReaderInv
  <2> QED
    BY <1>2, <2>1
<1>4. CASE pc["telemetry"] = "aggregate" /\ ~Aggregate
  <2>1. ~SaveRolling /\ ~SaveAnalysis("telemetry")
    BY <1>4 DEF SaveRolling, SaveAnalysis
  <2>2. UNCHANGED <<pc["telemetry"], position["telemetry"]>>
    BY <1>4, <2>1, MessageStays
  <2> QED
    BY <1>2, <2>2 DEF Projected
<1>5. CASE pc["telemetry"] # "aggregate" /\ ~Aggregate
  <2>1. Gone <= Gone'
    BY <1>2, <1>5, GoneSteps
  <2> QED
    BY <1>2, <1>5, <2>1
<1> QED
  BY <1>3, <1>4, <1>5

LEMMA StepView ==
  ASSUME IInv, StartInv, ViewInv, [ViewNext]_<<vars, viewVars>>
  PROVE  ViewInv'
<1> USE DEF ViewInv, Parts
<1>1. ReaderInv /\ LifeInv
  BY DEF IInv
<1>2. Projected \in Nat /\ Projected' \in Nat
  <2>1. "telemetry" \in Topics
    BY DEF Topics
  <2>2. [Next]_vars
    BY DEF ViewNext, Query, Complete, BeginComplete, ReadHealth, ReadRolling, GiveUp,
       ReadAnalysis, BeginTelemetry, ReadWindow, ReadTelemetry, Reads, Next, Service
  <2>3. ReaderInv'
    BY <1>1, <2>2, StepReaders
  <2> QED
    BY <1>1, <2>1, <2>3 DEF ReaderInv, Projected
<1>3. CASE Next /\ restarts' = restarts /\ UNCHANGED viewVars
  <2>1. ~Restart
    BY <1>1, <1>3 DEF Restart, LifeInv
  <2>2. rejoins' = 0 => rejoins = 0
    BY <1>1, <1>3, Frames DEF LifeInv, CommitFails
  <2>3. rejoins' = 0 => Projected <= Projected'
    BY <1>1, <1>3, <2>1, ProjectedStays
  <2> QED
    BY <1>2, <1>3, <2>2, <2>3 DEF viewVars
<1>4. ASSUME Reply PROVE ViewInv'
  BY <1>2, <1>4 DEF Reply, NoQuery
<1>5. ASSUME UNCHANGED vars PROVE Projected' = Projected /\ rejoins' = rejoins
  BY <1>5 DEF vars, readerVars, pastVars, Projected
<1>6. ASSUME NEW part \in {"health", "windows"}, NEW ws \in SUBSET DOMAIN Windows,
             ReadTelemetry(part, ws)
      PROVE  ViewInv'
  BY <1>2, <1>5, <1>6 DEF ReadTelemetry, Reads
<1>7. CASE ReadHealth
  BY <1>5, <1>7 DEF ReadHealth, Reads
<1>8. CASE ReadRolling
  <2>1. query' = [next |-> "analysis", device |-> query.device, left |-> {}] /\ seen' = 0
    BY <1>8 DEF ReadRolling
  <2> QED
    BY <1>2, <2>1
<1>9. CASE ReadWindow
  BY <1>4, <1>5, <1>9 DEF ReadWindow, Reads
<1>10. CASE UNCHANGED <<vars, viewVars>>
  BY <1>5, <1>10 DEF viewVars
<1>11. CASE GiveUp \/ ReadAnalysis \/ (Restart /\ Reply)
  BY <1>4, <1>11 DEF GiveUp, ReadAnalysis
<1>12. CASE BeginComplete
  BY <1>6, <1>12 DEF BeginComplete
<1>13. CASE BeginTelemetry
  BY <1>6, <1>13 DEF BeginTelemetry
<1> QED
  BY <1>3, <1>7, <1>8, <1>9, <1>10, <1>11, <1>12, <1>13 DEF ViewNext, Query, Complete

\* A view never mixes its telemetry with metrics older than those of the event before,
\* whatever is projected between its reads, and whatever crashes, junk and commits fail.
THEOREM ViewsLagAtMostOne == ViewSpec => []ViewLagsAtMostOne
<1>1. Init => StartInv /\ WindowsInv /\ (Quiet => RollingInv)
  <2> SUFFICES ASSUME Init PROVE StartInv /\ WindowsInv /\ RollingInv
    OBVIOUS
  <2>1. Gone = 0 /\ position["telemetry"] = 0 /\ Len(Tele) = 0 /\ \A w : RolledTo(w) = 0
    BY EmptySeq DEF Init, Gone, RolledTo, Topics, Tele
  <2>2. \A d, w : WindowOver(Tele, d, w, 0, 0) = << >>
    BY WindowOverStep
  <2>3. WindowsInv
    BY <2>1, <2>2 DEF WindowsInv, Init, EmptyWindows
  <2>4. RollingInv
    BY <2>1 DEF RollingInv, Init, TakesIn
  <2> QED
    BY <2>3, <2>4 DEF Init, StartInv
<1>2. ViewInit => ViewInv
  BY DEF ViewInit, NoQuery, ViewInv, Parts, Projected, Init, Topics
<1>3. /\ IInv /\ StartInv /\ WindowsInv /\ (Quiet => RollingInv) /\ [Next]_vars
      => StartInv' /\ WindowsInv' /\ (Quiet => RollingInv)'
  <2> SUFFICES ASSUME IInv, StartInv, WindowsInv, Quiet => RollingInv, [Next]_vars
               PROVE  StartInv' /\ WindowsInv' /\ (Quiet => RollingInv')
    BY DEF Quiet
  <2>1. Quiet => Writable
    BY DEF IInv, SwitchInv, Writable
  <2> QED
    BY <2>1, StepStart, StepWindowsOver, StepRolling DEF IInv
<1>4. IInv /\ StartInv /\ ViewInv /\ [ViewNext]_<<vars, viewVars>> => ViewInv'
  BY StepView
<1>5. IInv /\ (Quiet => RollingInv) /\ ViewInv => ViewLagsAtMostOne
  <2> SUFFICES ASSUME IInv, RollingInv, ViewInv, rejoins = 0,
                      query.next \in {"health", "rolling", "windows"}, NEW w \in query.left
               PROVE  TakesIn(rolling[query.device][w], Tele, query.device, w, seen - 1)
    BY DEF ViewLagsAtMostOne, Quiet, Tele
  <2>1. query.device \in Devices /\ w \in DOMAIN Windows
    BY DEF ViewInv
  <2>2. TakesIn(rolling[query.device][w], Tele, query.device, w, RolledTo(w))
    BY <2>1 DEF RollingInv
  <2>3. /\ RolledTo(w) \in Nat /\ RolledTo(w) <= Len(Tele) /\ Len(Tele) \in Nat
        /\ Projected <= RolledTo(w) + 1 /\ Projected \in Nat
    <3>1. "telemetry" \in Topics
      BY DEF Topics
    <3> QED
      BY <3>1, LenProperties DEF IInv, ReaderInv, RolledTo, Gone, Projected, Tele, Handling
  <2>4. seen - 1 \in Int /\ seen - 1 <= RolledTo(w)
    BY <2>3 DEF ViewInv
  <2> QED
    BY <2>2, <2>3, <2>4, TakesInKept
<1> QED
  BY <1>1, <1>2, <1>3, <1>4, <1>5, ViewsOnlyRead, Inductive, PTL DEF ViewSpec, ViewInit, Spec

==============================================================================
