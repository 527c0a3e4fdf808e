---------------------------- MODULE AnalysisValues ----------------------------
(***************************************************************************)
(* Values for model-checking the analysis service: a calm sample and, two  *)
(* minutes later, a spike that alone lifts the average of two over the     *)
(* critical threshold.  Of the two windows one has let go of the first     *)
(* when the second comes, the other has its cutoff at it exactly.          *)
(***************************************************************************)
EXTENDS Integers

Calm  == [at |-> 60, value |-> [CPU |-> 20, MEMORY |-> 30, LATENCY |-> 10, PACKET_LOSS |-> 0]]
Spike == [Calm EXCEPT !.at = 180, !.value["LATENCY"] = 300]

OnlySpikes   == {Spike}
CalmAndSpike == {Calm, Spike}

\* The numbers of telemetry and of health events.
Events(m, n)   == [t \in {"telemetry", "health"} |-> IF t = "telemetry" THEN m ELSE n]
TwoAndOne      == Events(2, 1)
TwoHealth      == Events(0, 2)
OneTelemetry   == Events(1, 0)
TwoTelemetry   == Events(2, 0)
OneAndTwo      == Events(1, 2)

OneWindow  == [w \in {"1m"} |-> 60]
TwoWindows == [w \in {"1m", "2m"} |-> IF w = "1m" THEN 60 ELSE 120]
==============================================================================
