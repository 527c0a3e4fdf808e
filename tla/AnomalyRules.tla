----------------------------- MODULE AnomalyRules -----------------------------
(***************************************************************************)
(* The pure part of the analysis service: the sliding window of            *)
(* services/analysis/aggregation/window.go and the rules of                *)
(* services/analysis/anomaly/detector.go.                                  *)
(*                                                                         *)
(* A sample keeps its timestamp and its four signals, in whole units; the  *)
(* rolling metrics keep the count and the totals, which determine every    *)
(* comparison of an average with a threshold (minimum, maximum and the     *)
(* first and last timestamps are only displayed).  An anomaly keeps its    *)
(* signal, severity and threshold; the wording of its reason is left out.  *)
(***************************************************************************)
EXTENDS Integers, Sequences

Signals == {"CPU", "MEMORY", "LATENCY", "PACKET_LOSS"}

WarningThreshold  == [CPU |-> 80, MEMORY |-> 85, LATENCY |-> 50, PACKET_LOSS |-> 1]
CriticalThreshold == [CPU |-> 90, MEMORY |-> 92, LATENCY |-> 150, PACKET_LOSS |-> 5]

MinSamplesForRollingAnomaly == 2

Statuses == {"HEALTHY", "WARNING", "CRITICAL", "DOWN"}
Sample   == [at : Int, value : [Signals -> Int]]

RollingMetrics == [count : Nat, total : [Signals -> Int]]
Anomaly == [signal : Signals \cup {"HEALTH"}, severity : {"WARNING", "CRITICAL"}, threshold : Nat]

------------------------------------------------------------------------------
(* SlidingWindow *)

\* A seeded fault: a sample exactly at the cutoff is evicted.
EvictThroughCutoff(samples, cutoff) == SelectSeq(samples, LAMBDA s : s.at > cutoff)

\* The samples from the first one that is not older than the cutoff: eviction stops
\* there, whatever follows.
Evict(samples, cutoff) ==
    LET fresh == {i \in DOMAIN samples : samples[i].at >= cutoff}
    IN IF fresh = {} THEN << >>
       ELSE SubSeq(samples, CHOOSE i \in fresh : \A j \in fresh : i <= j, Len(samples))

AddSample(samples, s, duration) == Evict(Append(samples, s), s.at - duration)

\* What signal g adds up to.
Total(samples, g) ==
    LET upTo[i \in 0..Len(samples)] == IF i = 0 THEN 0 ELSE upTo[i - 1] + samples[i].value[g]
    IN upTo[Len(samples)]

CalculateMetrics(samples) ==
    [count |-> Len(samples), total |-> [g \in Signals |-> Total(samples, g)]]

------------------------------------------------------------------------------
(* Detector *)

\* The average of signal g is at or above a threshold.
Reaches(m, g, threshold) == m.total[g] >= threshold[g] * m.count

\* A seeded fault: one sample is enough.
AnomaliesOfAnySample(m) ==
    {[signal |-> g, severity |-> "CRITICAL", threshold |-> CriticalThreshold[g]] :
        g \in {g \in Signals : m.count > 0 /\ Reaches(m, g, CriticalThreshold)}}

MetricAnomalies(m) ==
    LET critical == {g \in Signals : Reaches(m, g, CriticalThreshold)}
        warning  == {g \in Signals : Reaches(m, g, WarningThreshold)} \ critical
    IN IF m.count < MinSamplesForRollingAnomaly THEN {}
       ELSE {[signal |-> g, severity |-> "CRITICAL", threshold |-> CriticalThreshold[g]] : g \in critical}
            \cup
            {[signal |-> g, severity |-> "WARNING", threshold |-> WarningThreshold[g]] : g \in warning}

HealthToAnomaly(status) ==
    LET one(severity, threshold) ==
            {[signal |-> "HEALTH", severity |-> severity, threshold |-> threshold]}
    IN CASE status = "DOWN"     -> one("CRITICAL", 100)
         [] status = "CRITICAL" -> one("CRITICAL", 50)
         [] status = "WARNING"  -> one("WARNING", 10)
         [] OTHER               -> {}
==============================================================================
