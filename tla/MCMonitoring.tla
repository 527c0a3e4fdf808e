---------------------------- MODULE MCMonitoring -----------------------------
(***************************************************************************)
(* Values for model-checking Monitoring: readings of each health class.    *)
(***************************************************************************)
EXTENDS Monitoring

Nominal ==
    [value |-> [cpu |-> 20, memory |-> 30, latency |-> 10, packetLoss |-> 0],
     interfaceUp |-> TRUE, connectivity |-> TRUE]

Congested == [Nominal EXCEPT !.value["latency"] = 50]
Stalled   == [Nominal EXCEPT !.value["latency"] = 150]
Unplugged == [Congested EXCEPT !.interfaceUp = FALSE]

OneReading  == {Nominal}
TwoReadings == {Nominal, Congested}
\* WARNING and CRITICAL by the same metric, DOWN by the interface: the last two are each
\* at least as bad as the first, and not comparable.
RankedReadings == {Congested, Stalled, Unplugged}
==============================================================================
