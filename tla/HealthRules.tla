----------------------------- MODULE HealthRules -----------------------------
(***************************************************************************)
(* The pure health evaluation of the monitoring service:                   *)
(* services/monitoring/health/evaluator.go.                                *)
(*                                                                         *)
(* A telemetry reading is abstracted to the four metric values the         *)
(* evaluator compares with its thresholds and the two link flags; a        *)
(* fractional value is rounded down, which changes no comparison because   *)
(* every threshold is a whole number.  An assessment keeps the status and  *)
(* the score; the wording of its reasons is left out (there is exactly one *)
(* reason per violated threshold or lost flag).                            *)
(***************************************************************************)
EXTENDS Integers, FiniteSets

Metrics == {"cpu", "memory", "latency", "packetLoss"}

Warning  == [cpu |-> 70, memory |-> 75, latency |-> 50, packetLoss |-> 1]
Critical == [cpu |-> 85, memory |-> 90, latency |-> 150, packetLoss |-> 5]

Telemetry == [value : [Metrics -> Int], interfaceUp : BOOLEAN, connectivity : BOOLEAN]

HealthStatus == {"HEALTHY", "WARNING", "CRITICAL", "DOWN"}
Assessment   == [status : HealthStatus, score : 0..100]

------------------------------------------------------------------------------

CriticalMetrics(t) == {m \in Metrics : t.value[m] >= Critical[m]}

\* A metric is counted once: the warning branch is the else of the critical one.
WarningMetrics(t) == {m \in Metrics : t.value[m] >= Warning[m] /\ t.value[m] < Critical[m]}

LinkLost(t) == ~t.interfaceUp \/ ~t.connectivity

\* Seeded faults, for checking that the properties of the runs can fail.
CappedAtFifty(score) == IF score > 50 THEN 50 ELSE score
EvaluateMetricsFirst(t, transportDown) ==
    LET critical == Cardinality(CriticalMetrics(t))
        warning  == Cardinality(WarningMetrics(t))
    IN CASE critical > 0 -> [status |-> "CRITICAL", score |-> 50 + 10 * critical + 5 * warning]
         [] critical = 0 /\ (transportDown \/ LinkLost(t)) -> [status |-> "DOWN", score |-> 100]
         [] critical = 0 /\ ~(transportDown \/ LinkLost(t)) /\ warning > 0
              -> [status |-> "WARNING", score |-> 10 + 5 * warning]
         [] OTHER -> [status |-> "HEALTHY", score |-> 0]

\* The cap of the CRITICAL band.  Four metrics can reach 90 at most, so it never binds.
Capped(score) == IF score > 95 THEN 95 ELSE score

\* Evaluate: DOWN takes precedence over CRITICAL, CRITICAL over WARNING.
Evaluate(t, transportDown) ==
    LET critical == Cardinality(CriticalMetrics(t))
        warning  == Cardinality(WarningMetrics(t))
    IN IF transportDown \/ LinkLost(t)
         THEN [status |-> "DOWN", score |-> 100]
       ELSE IF CriticalMetrics(t) # {}
         THEN [status |-> "CRITICAL", score |-> Capped(50 + 10 * critical + 5 * warning)]
       ELSE IF WarningMetrics(t) # {}
         THEN [status |-> "WARNING", score |-> 10 + 5 * warning]
       ELSE [status |-> "HEALTHY", score |-> 0]

------------------------------------------------------------------------------

\* The scores each status is documented to have.
Band == [HEALTHY |-> 0..0, WARNING |-> 15..30, CRITICAL |-> 60..95, DOWN |-> 100..100]

\* t2 is at least as bad as t1 in every signal.
AtLeastAsBad(t2, t1) ==
    /\ \A m \in Metrics : t2.value[m] >= t1.value[m]
    /\ t2.interfaceUp => t1.interfaceUp
    /\ t2.connectivity => t1.connectivity
==============================================================================
