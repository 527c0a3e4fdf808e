-------------------------------- MODULE Fleet --------------------------------
(***************************************************************************)
(* The device simulator: an update loop per device, requests that inject   *)
(* and clear failures, and the gauges that count the devices by condition. *)
(*                                                                         *)
(* Update loops and requests share a device under its lock.  An update     *)
(* takes it, looks whether the device is down, and writes the metrics      *)
(* later: two steps, between which requests wait.  A request's own         *)
(* sections, SetDown and a read, are one step each.                        *)
(* updateFleetConditionGauges has no lock of its own: it reads device by   *)
(* device and sets gauge by gauge, in requests that run concurrently.  Of  *)
(* a device's metrics, which drift with its degradation, only what decides *)
(* its condition is kept.  Loops and requests may cease at any time, so    *)
(* the shutdown in Run, which makes them, adds nothing.                    *)
(***************************************************************************)
EXTENDS Integers, FiniteSets

CONSTANTS Devices, Requests   \* Requests: bound, the requests in flight

\* NewMux refuses a fleet without its primary device.
ASSUME FleetAssumption == IsFiniteSet(Devices) /\ Devices # {}

Condition == {"NORMAL", "DEGRADED", "DOWN"}

VARIABLES
    \* the devices
    degraded,    \* degradation has reached degradedThreshold
    down,        \* a failure is injected
    condition, linkUp,
    updating,    \* the update loop is past its check of down and holds the lock
    \* the requests
    pc,          \* where a request stands
    toCount,     \* the devices it has yet to read
    tally,       \* what it has counted
    alone,       \* history: no other request was in flight since it came
    gauge        \* simDevicesTotal

deviceVars  == <<degraded, down, condition, linkUp, updating>>
requestVars == <<pc, toCount, tally, alone>>
vars == <<deviceVars, requestVars, gauge>>

Zero == [c \in Condition |-> 0]

\* NewMux sets the gauges before the loops start.
Init ==
    /\ degraded = [d \in Devices |-> FALSE]
    /\ down = [d \in Devices |-> FALSE]
    /\ condition = [d \in Devices |-> "NORMAL"]
    /\ linkUp = [d \in Devices |-> TRUE]
    /\ updating = [d \in Devices |-> FALSE]
    /\ pc = [r \in Requests |-> "none"]
    /\ toCount = [r \in Requests |-> {}]
    /\ tally = [r \in Requests |-> Zero]
    /\ alone = [r \in Requests |-> FALSE]
    /\ gauge = [Zero EXCEPT !["NORMAL"] = Cardinality(Devices)]

------------------------------------------------------------------------------
(* Simulator *)

ConditionForDegradation(worn) == IF worn THEN "DEGRADED" ELSE "NORMAL"

\* update takes the lock and finds the device running; of a failed one it changes nothing.
BeginUpdate(d) ==
    /\ ~updating[d] /\ ~down[d]
    /\ updating' = [updating EXCEPT ![d] = TRUE]
    /\ UNCHANGED <<degraded, down, condition, linkUp, requestVars, gauge>>

\* The metrics are written and the lock is released.  A rise of degradation is smaller than
\* the threshold and a fall is too, so an update can cross it either way or stay on its
\* side.
EndUpdate(d) ==
    /\ updating[d]
    /\ \E worn \in BOOLEAN :
          /\ degraded' = [degraded EXCEPT ![d] = worn]
          /\ condition' = [condition EXCEPT ![d] = ConditionForDegradation(worn)]
    /\ updating' = [updating EXCEPT ![d] = FALSE]
    /\ UNCHANGED <<down, linkUp, requestVars, gauge>>

\* A seeded fault: SetDown does not take the lock.
SetDownUnlocked(d, failed) ==
    /\ down' = [down EXCEPT ![d] = failed]
    /\ condition' = [condition EXCEPT ![d] =
                        IF failed THEN "DOWN" ELSE ConditionForDegradation(degraded[d])]
    /\ linkUp' = [linkUp EXCEPT ![d] = ~failed]
    /\ UNCHANGED <<degraded, updating>>

SetDown(d, failed) ==
    /\ ~updating[d]
    /\ down' = [down EXCEPT ![d] = failed]
    /\ condition' = [condition EXCEPT ![d] =
                        IF failed THEN "DOWN" ELSE ConditionForDegradation(degraded[d])]
    /\ linkUp' = [linkUp EXCEPT ![d] = ~failed]
    /\ UNCHANGED <<degraded, updating>>

------------------------------------------------------------------------------
(* Requests: POST /control/{id}/{down,recover} and GET /metrics count the fleet; those *)
(* that read one device or nothing change nothing.                                      *)

InFlight == {r \in Requests : pc[r] # "none"}

\* updateFleetConditionGauges begins.
BeginCount(r) ==
    /\ pc[r] = "none"
    /\ pc' = [pc EXCEPT ![r] = "count"]
    /\ toCount' = [toCount EXCEPT ![r] = Devices]
    /\ tally' = [tally EXCEPT ![r] = Zero]
    /\ alone' = [q \in Requests |-> q = r /\ InFlight = {}]
    /\ UNCHANGED <<gauge>>

Control(r) ==
    /\ \E d \in Devices, failed \in BOOLEAN : SetDown(d, failed)
    /\ BeginCount(r)

Scrape(r) == BeginCount(r) /\ UNCHANGED deviceVars

\* currentTelemetry of the next device, in map order.
CountDevice(r) ==
    /\ pc[r] = "count"
    /\ \E d \in toCount[r] :
          /\ ~updating[d]
          /\ toCount' = [toCount EXCEPT ![r] = @ \ {d}]
          /\ tally' = [tally EXCEPT ![r][condition[d]] = @ + 1]
    /\ pc' = [pc EXCEPT ![r] = IF toCount'[r] = {} THEN "NORMAL" ELSE @]
    /\ UNCHANGED <<deviceVars, alone, gauge>>

\* A seeded fault: the DOWN gauge is forgotten.
NextGaugeNotDown(c) == IF c = "NORMAL" THEN "DEGRADED" ELSE "respond"

\* The gauge that is set after c.
NextGauge(c) ==
    CASE c = "NORMAL" -> "DEGRADED" [] c = "DEGRADED" -> "DOWN" [] c = "DOWN" -> "respond"

\* A seeded fault: a gauge is only ever raised.
RaiseGauge(r) ==
    /\ pc[r] \in Condition
    /\ gauge' = [gauge EXCEPT ![pc[r]] = IF tally[r][pc[r]] > @ THEN tally[r][pc[r]] ELSE @]
    /\ pc' = [pc EXCEPT ![r] = NextGauge(@)]
    /\ UNCHANGED <<deviceVars, toCount, tally, alone>>

\* A seeded fault: the count is added to the gauge.
AddToGauge(r) ==
    /\ pc[r] \in Condition
    /\ gauge' = [gauge EXCEPT ![pc[r]] = @ + tally[r][pc[r]]]
    /\ pc' = [pc EXCEPT ![r] = NextGauge(@)]
    /\ UNCHANGED <<deviceVars, toCount, tally, alone>>

SetGauge(r) ==
    /\ pc[r] \in Condition
    /\ gauge' = [gauge EXCEPT ![pc[r]] = tally[r][pc[r]]]
    /\ pc' = [pc EXCEPT ![r] = NextGauge(@)]
    /\ UNCHANGED <<deviceVars, toCount, tally, alone>>

Respond(r) ==
    /\ pc[r] = "respond"
    /\ pc' = [pc EXCEPT ![r] = "none"]
    /\ tally' = [tally EXCEPT ![r] = Zero]
    /\ alone' = [alone EXCEPT ![r] = FALSE]
    /\ UNCHANGED <<deviceVars, toCount, gauge>>

Progress(r) == CountDevice(r) \/ SetGauge(r) \/ Respond(r)

------------------------------------------------------------------------------
Next ==
    \/ \E d \in Devices : BeginUpdate(d) \/ EndUpdate(d)
    \/ \E r \in Requests : Control(r) \/ Scrape(r) \/ Progress(r)

Spec == Init /\ [][Next]_vars

\* An update that has begun ends, and requests make progress: strongly fair, since an
\* RWMutex lets no waiter starve however often updates take it.  Nothing is assumed of
\* clients, nor of when updates begin.
FairSpec ==
    /\ Spec
    /\ \A d \in Devices : WF_vars(EndUpdate(d))
    /\ \A r \in Requests : SF_vars(Progress(r))

------------------------------------------------------------------------------
(* Properties *)

\* The shape of the state; no count and no gauge exceeds the fleet.
TypeOK ==
    /\ condition \in [Devices -> Condition] /\ linkUp \in [Devices -> BOOLEAN]
    /\ degraded \in [Devices -> BOOLEAN] /\ down \in [Devices -> BOOLEAN]
    /\ updating \in [Devices -> BOOLEAN]
    /\ pc \in [Requests -> Condition \cup {"none", "count", "respond"}]
    /\ toCount \in [Requests -> SUBSET Devices]
    /\ tally \in [Requests -> [Condition -> 0..Cardinality(Devices)]]
    /\ alone \in [Requests -> BOOLEAN]
    /\ gauge \in [Condition -> 0..Cardinality(Devices)]

\* An injected failure holds until it is cleared: however updates, injections and recoveries
\* interleave, a device says DOWN, and its link is down, exactly while it is failed.  An
\* update that found it running writes nothing over a failure injected since (the lock that
\* update holds from its check of down to its last write, and that SetDown takes).
FailureHolds ==
    \A d \in Devices : (condition[d] = "DOWN" <=> down[d]) /\ (linkUp[d] <=> ~down[d])

Total(counts) == counts["NORMAL"] + counts["DEGRADED"] + counts["DOWN"]

\* A request that overlaps no other finds, when it responds, gauges that add up to the
\* fleet, whatever earlier requests that did overlap have left in them.
LoneScrapeAddsUp ==
    \A r \in Requests :
        pc[r] = "respond" /\ alone[r] => Total(gauge) = Cardinality(Devices)

Counts == [c \in Condition |-> Cardinality({d \in Devices : condition[d] = c})]

\* The gauges heal: if the conditions settle while requests that count keep coming, the
\* gauges come to show them and stay so, however requests had overlapped before.
GaugesSettle ==
    \A c \in Condition, n \in 0..Cardinality(Devices) :
        <>[](Counts[c] = n) /\ []<>(InFlight # {}) => <>[](gauge[c] = n)
==============================================================================
