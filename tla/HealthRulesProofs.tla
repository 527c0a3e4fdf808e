-------------------------- MODULE HealthRulesProofs ---------------------------
(***************************************************************************)
(* What Evaluate returns, for every reading: lemmas used by the proofs     *)
(* about Monitoring.                                                       *)
(***************************************************************************)
EXTENDS HealthRules, FiniteSetTheorems, TLAPS

\* There are four metrics.
LEMMA FourMetrics == IsFiniteSet(Metrics) /\ Cardinality(Metrics) = 4
<1>1. IsFiniteSet({}) /\ Cardinality({}) = 0
  BY FS_EmptySet
<1>2. IsFiniteSet({"cpu"}) /\ Cardinality({"cpu"}) = 1
  BY FS_Singleton
<1>3. IsFiniteSet({"cpu"} \cup {"memory"}) /\ Cardinality({"cpu"} \cup {"memory"}) = 2
  BY <1>2, FS_AddElement
<1>4. /\ IsFiniteSet(({"cpu"} \cup {"memory"}) \cup {"latency"})
      /\ Cardinality(({"cpu"} \cup {"memory"}) \cup {"latency"}) = 3
  BY <1>3, FS_AddElement
<1>5. /\ IsFiniteSet((({"cpu"} \cup {"memory"}) \cup {"latency"}) \cup {"packetLoss"})
      /\ Cardinality((({"cpu"} \cup {"memory"}) \cup {"latency"}) \cup {"packetLoss"}) = 4
  BY <1>4, FS_AddElement
<1>6. Metrics = (({"cpu"} \cup {"memory"}) \cup {"latency"}) \cup {"packetLoss"}
  BY DEF Metrics
<1>. QED
  BY <1>5, <1>6

\* The violated metrics of a reading, and how many there can be.
LEMMA ViolatedMetrics ==
  ASSUME NEW t \in Telemetry
  PROVE  /\ IsFiniteSet(CriticalMetrics(t)) /\ IsFiniteSet(WarningMetrics(t))
         /\ Cardinality(CriticalMetrics(t)) \in Nat
         /\ Cardinality(WarningMetrics(t)) \in Nat
         /\ Cardinality(CriticalMetrics(t)) + Cardinality(WarningMetrics(t)) <= 4
         /\ IsFiniteSet(CriticalMetrics(t) \cup WarningMetrics(t))
         /\ Cardinality(CriticalMetrics(t) \cup WarningMetrics(t))
              = Cardinality(CriticalMetrics(t)) + Cardinality(WarningMetrics(t))
<1>1. CriticalMetrics(t) \in SUBSET Metrics /\ WarningMetrics(t) \in SUBSET Metrics
  BY DEF CriticalMetrics, WarningMetrics
<1>2. IsFiniteSet(CriticalMetrics(t)) /\ IsFiniteSet(WarningMetrics(t))
  BY <1>1, FourMetrics, FS_Subset
<1>3. Cardinality(CriticalMetrics(t)) \in Nat /\ Cardinality(WarningMetrics(t)) \in Nat
  BY <1>2, FS_CardinalityType
<1>4. CriticalMetrics(t) \cap WarningMetrics(t) = {}
  BY DEF CriticalMetrics, WarningMetrics, Telemetry, Metrics, Warning, Critical
<1>5. Cardinality(CriticalMetrics(t) \cap WarningMetrics(t)) = 0
  BY <1>4, FS_EmptySet
<1>6. /\ IsFiniteSet(CriticalMetrics(t) \cup WarningMetrics(t))
      /\ Cardinality(CriticalMetrics(t) \cup WarningMetrics(t))
           = Cardinality(CriticalMetrics(t)) + Cardinality(WarningMetrics(t))
               - Cardinality(CriticalMetrics(t) \cap WarningMetrics(t))
  BY <1>2, FS_Union
<1>7. CriticalMetrics(t) \cup WarningMetrics(t) \in SUBSET Metrics
  BY <1>1
<1>8. Cardinality(CriticalMetrics(t) \cup WarningMetrics(t)) <= 4
  BY <1>7, FourMetrics, FS_Subset
<1>. QED
  BY <1>2, <1>3, <1>5, <1>6, <1>8

\* An empty set of violations counts zero, any other at least one.
LEMMA CountsOfViolations ==
  ASSUME NEW t \in Telemetry
  PROVE  /\ CriticalMetrics(t) = {} <=> Cardinality(CriticalMetrics(t)) = 0
         /\ WarningMetrics(t) = {} <=> Cardinality(WarningMetrics(t)) = 0
  BY ViolatedMetrics, FS_EmptySet

\* The status and score of a reading, band by band.
LEMMA EvaluateBands ==
  ASSUME NEW t \in Telemetry, NEW down \in BOOLEAN
  PROVE  LET a == Evaluate(t, down)
         IN a \in Assessment /\ a.score \in Band[a.status]
<1>. DEFINE c == Cardinality(CriticalMetrics(t))
            w == Cardinality(WarningMetrics(t))
<1>1. /\ c \in Nat /\ w \in Nat /\ c + w <= 4
      /\ CriticalMetrics(t) = {} <=> c = 0
      /\ WarningMetrics(t) = {} <=> w = 0
  BY ViolatedMetrics, CountsOfViolations
<1>. HIDE DEF c, w
<1>2. Evaluate(t, down) =
        IF down \/ LinkLost(t)
          THEN [status |-> "DOWN", score |-> 100]
        ELSE IF CriticalMetrics(t) # {}
          THEN [status |-> "CRITICAL", score |-> Capped(50 + 10 * c + 5 * w)]
        ELSE IF WarningMetrics(t) # {}
          THEN [status |-> "WARNING", score |-> 10 + 5 * w]
        ELSE [status |-> "HEALTHY", score |-> 0]
  BY DEF Evaluate, c, w
<1>3. CASE down \/ LinkLost(t)
  BY <1>2, <1>3 DEF Assessment, HealthStatus, Band
<1>4. CASE ~(down \/ LinkLost(t)) /\ CriticalMetrics(t) # {}
  <2>1. Capped(50 + 10 * c + 5 * w) \in 60..95
    BY <1>1, <1>4 DEF Capped
  <2>. QED
    BY <1>2, <1>4, <2>1 DEF Assessment, HealthStatus, Band
<1>5. CASE ~(down \/ LinkLost(t)) /\ CriticalMetrics(t) = {} /\ WarningMetrics(t) # {}
  <2>1. 10 + 5 * w \in 15..30
    BY <1>1, <1>5
  <2>. QED
    BY <1>2, <1>5, <2>1 DEF Assessment, HealthStatus, Band
<1>6. CASE ~(down \/ LinkLost(t)) /\ CriticalMetrics(t) = {} /\ WarningMetrics(t) = {}
  BY <1>2, <1>6 DEF Assessment, HealthStatus, Band
<1>. QED
  BY <1>3, <1>4, <1>5, <1>6

\* An assessment is a status with a score.
LEMMA EvaluateType ==
  ASSUME NEW t \in Telemetry, NEW down \in BOOLEAN
  PROVE  Evaluate(t, down) \in Assessment
  BY EvaluateBands

\* A lost transport is DOWN whatever the reading says.
LEMMA EvaluateTransportDown ==
  ASSUME NEW t
  PROVE  /\ Evaluate(t, TRUE) = [status |-> "DOWN", score |-> 100]
         /\ Evaluate(t, TRUE).status = "DOWN"
  BY DEF Evaluate

\* A reading that is at least as bad never scores lower: the critical set grows, so does the
\* union of both sets, and 10c + 5w = 5c + 5(c + w).
LEMMA EvaluateMonotone ==
  ASSUME NEW t1 \in Telemetry, NEW t2 \in Telemetry, AtLeastAsBad(t2, t1),
         NEW down1 \in BOOLEAN, NEW down2 \in BOOLEAN, down1 => down2
  PROVE  Evaluate(t2, down2).score >= Evaluate(t1, down1).score
<1>. DEFINE c1 == Cardinality(CriticalMetrics(t1))
            c2 == Cardinality(CriticalMetrics(t2))
            w1 == Cardinality(WarningMetrics(t1))
            w2 == Cardinality(WarningMetrics(t2))
            a1 == Evaluate(t1, down1)
            a2 == Evaluate(t2, down2)
<1>1. /\ c1 \in Nat /\ w1 \in Nat /\ c1 + w1 <= 4
      /\ c2 \in Nat /\ w2 \in Nat /\ c2 + w2 <= 4
  BY ViolatedMetrics
<1>2. c1 <= c2
  <2>1. CriticalMetrics(t1) \in SUBSET CriticalMetrics(t2)
    BY DEF CriticalMetrics, AtLeastAsBad, Telemetry, Metrics, Critical
  <2>. QED
    BY <2>1, ViolatedMetrics, FS_Subset
<1>3. c1 + w1 <= c2 + w2
  <2>1. CriticalMetrics(t1) \cup WarningMetrics(t1)
          \in SUBSET (CriticalMetrics(t2) \cup WarningMetrics(t2))
    BY DEF CriticalMetrics, WarningMetrics, AtLeastAsBad, Telemetry, Metrics, Critical, Warning
  <2>2. Cardinality(CriticalMetrics(t1) \cup WarningMetrics(t1))
          <= Cardinality(CriticalMetrics(t2) \cup WarningMetrics(t2))
    BY <2>1, ViolatedMetrics, FS_Subset
  <2>. QED
    BY <2>2, ViolatedMetrics
<1>4. /\ CriticalMetrics(t1) = {} <=> c1 = 0
      /\ CriticalMetrics(t2) = {} <=> c2 = 0
      /\ WarningMetrics(t1) = {} <=> w1 = 0
      /\ WarningMetrics(t2) = {} <=> w2 = 0
  BY CountsOfViolations
<1>5. a1.score \in 0..100
  BY EvaluateType DEF Assessment
<1>6. CASE down2 \/ LinkLost(t2)
  <2>1. a2.score = 100
    BY <1>6 DEF Evaluate
  <2>. QED
    BY <1>5, <2>1
<1>7. CASE ~(down2 \/ LinkLost(t2))
  <2>1. ~(down1 \/ LinkLost(t1))
    BY <1>7 DEF LinkLost, AtLeastAsBad, Telemetry
  <2>2. a1.score = IF c1 # 0 THEN Capped(50 + 10 * c1 + 5 * w1)
                   ELSE IF w1 # 0 THEN 10 + 5 * w1 ELSE 0
    BY <2>1, <1>4 DEF Evaluate
  <2>3. a2.score = IF c2 # 0 THEN Capped(50 + 10 * c2 + 5 * w2)
                   ELSE IF w2 # 0 THEN 10 + 5 * w2 ELSE 0
    BY <1>7, <1>4 DEF Evaluate
  <2>. HIDE DEF c1, c2, w1, w2, a1, a2
  <2>. QED
    BY <2>2, <2>3, <1>1, <1>2, <1>3 DEF Capped, a1, a2
<1>. QED
  BY <1>6, <1>7
==============================================================================
