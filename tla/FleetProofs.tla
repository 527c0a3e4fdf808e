----------------------------- MODULE FleetProofs -----------------------------
(***************************************************************************)
(* For any fleet and any number of requests, a request that overlaps no    *)
(* other finds gauges that add up to the fleet, and an injected failure    *)
(* holds until it is cleared.                                              *)
(***************************************************************************)
EXTENDS Fleet, FiniteSetTheorems, TLAPS

Size == Cardinality(Devices)

Labels == Condition \cup {"none", "count", "respond"}

Types ==
    /\ condition \in [Devices -> Condition]
    /\ pc \in [Requests -> Labels]
    /\ toCount \in [Requests -> SUBSET Devices]
    /\ tally \in [Requests -> [Condition -> Nat]]
    /\ alone \in [Requests -> BOOLEAN]
    /\ gauge \in [Condition -> Nat]

\* A request that is alone is the only one in flight.
AloneInv == \A r, q \in Requests : alone[r] /\ q # r => pc[q] = "none"

\* What is counted and what is yet to be counted make the fleet.
CountInv ==
    \A r \in Requests :
        /\ pc[r] = "count" => Total(tally[r]) + Cardinality(toCount[r]) = Size
        /\ pc[r] \in Condition \cup {"respond"} => Total(tally[r]) = Size

\* A request that is alone finds the gauges it has set as it set them.
GaugeInv ==
    \A r \in Requests : alone[r] =>
        /\ pc[r] \in {"DEGRADED", "DOWN", "respond"} => gauge["NORMAL"] = tally[r]["NORMAL"]
        /\ pc[r] \in {"DOWN", "respond"} => gauge["DEGRADED"] = tally[r]["DEGRADED"]
        /\ pc[r] = "respond" => gauge["DOWN"] = tally[r]["DOWN"]

IInv == Types /\ AloneInv /\ CountInv /\ GaugeInv

LEMMA SizeNat == Size \in Nat
BY FleetAssumption, FS_CardinalityType DEF Size

\* Counting one device more adds one to the tally.
LEMMA TallyGrows ==
    ASSUME NEW counts \in [Condition -> Nat], NEW c \in Condition
    PROVE  /\ [counts EXCEPT ![c] = @ + 1] \in [Condition -> Nat]
           /\ Total([counts EXCEPT ![c] = @ + 1]) = Total(counts) + 1
BY DEF Total, Condition

LEMMA InitInv == Init => IInv
<1> SUFFICES ASSUME Init PROVE IInv
  OBVIOUS
<1>1. Types
  BY SizeNat DEF Init, Types, Labels, Condition, Zero, Size
<1> QED
  BY <1>1 DEF Init, IInv, AloneInv, CountInv, GaugeInv, Condition

LEMMA BeginKeepsInv ==
    ASSUME IInv, NEW r \in Requests, BeginCount(r), condition' \in [Devices -> Condition]
    PROVE  IInv'
<1> USE DEF IInv, Types
<1>1. Types'
  BY DEF BeginCount, Labels, Zero, Condition
<1>2. AloneInv'
  BY DEF BeginCount, AloneInv, InFlight
<1>3. CountInv'
  <2>1. Total(Zero) = 0
    BY DEF Total, Zero, Condition
  <2>2. Total(Zero) + Cardinality(Devices) = Size
    BY <2>1, SizeNat DEF Size
  <2> QED
    BY <2>2 DEF BeginCount, CountInv, Condition
<1>4. GaugeInv'
  BY DEF BeginCount, GaugeInv
<1> QED
  BY <1>1, <1>2, <1>3, <1>4

LEMMA CountKeepsInv ==
    ASSUME IInv, NEW r \in Requests, CountDevice(r)
    PROVE  IInv'
<1> USE DEF IInv, Types
<1> PICK d \in toCount[r] :
        /\ toCount' = [toCount EXCEPT ![r] = @ \ {d}]
        /\ tally' = [tally EXCEPT ![r][condition[d]] = @ + 1]
  BY DEF CountDevice
<1>1. d \in Devices /\ condition[d] \in Condition
  OBVIOUS
<1>2. tally'[r] = [tally[r] EXCEPT ![condition[d]] = @ + 1]
  OBVIOUS
<1>3. tally'[r] \in [Condition -> Nat] /\ Total(tally'[r]) = Total(tally[r]) + 1
  BY <1>1, <1>2, TallyGrows
<1>4. Types'
  <2>1. tally' \in [Requests -> [Condition -> Nat]]
    BY <1>3
  <2> QED
    BY <2>1 DEF CountDevice, deviceVars, Labels, Condition
<1>5. AloneInv'
  BY DEF CountDevice, AloneInv
<1>6. IsFiniteSet(toCount[r])
  BY FleetAssumption, FS_Subset
<1>7. /\ Cardinality(toCount[r] \ {d}) = Cardinality(toCount[r]) - 1
      /\ Cardinality(toCount[r]) \in Nat
  BY <1>6, FS_RemoveElement, FS_CardinalityType
<1>8. Total(tally[r]) \in Nat
  BY DEF Total, Condition
<1>9. Total(tally'[r]) + Cardinality(toCount'[r]) = Size
  <2>1. Total(tally[r]) + Cardinality(toCount[r]) = Size
    BY DEF CountInv, CountDevice
  <2>2. toCount'[r] = toCount[r] \ {d}
    OBVIOUS
  <2>3. Cardinality(toCount'[r]) = Cardinality(toCount[r]) - 1
    BY <1>7, <2>2
  <2> HIDE DEF IInv, Types
  <2>4. Size \in Nat
    BY SizeNat
  <2> QED
    BY ONLY <1>3, <1>7, <1>8, <2>1, <2>3, <2>4
<1>10. toCount'[r] = {} => Cardinality(toCount'[r]) = 0
  BY FS_EmptySet
<1>11. CountInv'
  <2>1. /\ pc'[r] = "count" => Total(tally'[r]) + Cardinality(toCount'[r]) = Size
        /\ pc'[r] # "count" => Total(tally'[r]) = Size
    BY <1>3, <1>8, <1>9, <1>10 DEF CountDevice
  <2>2. \A q \in Requests : q # r =>
            pc'[q] = pc[q] /\ tally'[q] = tally[q] /\ toCount'[q] = toCount[q]
    BY DEF CountDevice
  <2> QED
    BY <2>1, <2>2 DEF CountInv, Condition, Size
<1>12. GaugeInv'
  BY DEF CountDevice, GaugeInv, AloneInv
<1> QED
  BY <1>4, <1>5, <1>11, <1>12

LEMMA SetKeepsInv ==
    ASSUME IInv, NEW r \in Requests, SetGauge(r)
    PROVE  IInv'
<1> USE DEF IInv, Types
<1>1. Types'
  BY DEF SetGauge, deviceVars, Labels, Condition, NextGauge
<1>2. AloneInv'
  BY DEF SetGauge, AloneInv, Condition
<1>3. CountInv'
  BY DEF SetGauge, CountInv, NextGauge, Condition
<1>4. GaugeInv'
  <2> SUFFICES ASSUME NEW q \in Requests, alone[q]
               PROVE  /\ pc'[q] \in {"DEGRADED", "DOWN", "respond"} => gauge'["NORMAL"] = tally[q]["NORMAL"]
                      /\ pc'[q] \in {"DOWN", "respond"} => gauge'["DEGRADED"] = tally[q]["DEGRADED"]
                      /\ pc'[q] = "respond" => gauge'["DOWN"] = tally[q]["DOWN"]
    BY DEF SetGauge, GaugeInv
  <2>1. CASE q = r
    BY <2>1 DEF SetGauge, GaugeInv, NextGauge, Condition
  <2>2. CASE q # r
    BY <2>2 DEF SetGauge, AloneInv, Condition
  <2> QED
    BY <2>1, <2>2
<1> QED
  BY <1>1, <1>2, <1>3, <1>4

LEMMA RespondKeepsInv ==
    ASSUME IInv, NEW r \in Requests, Respond(r)
    PROVE  IInv'
<1> USE DEF IInv, Types
<1>1. Types'
  BY DEF Respond, deviceVars, Labels, Zero, Condition
<1>2. AloneInv'
  BY DEF Respond, AloneInv
<1>3. CountInv'
  BY DEF Respond, CountInv, Condition
<1>4. GaugeInv'
  BY DEF Respond, GaugeInv
<1> QED
  BY <1>1, <1>2, <1>3, <1>4

LEMMA StepInv == IInv /\ [Next]_vars => IInv'
<1> SUFFICES ASSUME IInv, [Next]_vars PROVE IInv'
  OBVIOUS
<1>1. ASSUME NEW d \in Devices, BeginUpdate(d) \/ EndUpdate(d) PROVE IInv'
  <2>1. condition' \in [Devices -> Condition]
    BY <1>1 DEF BeginUpdate, EndUpdate, IInv, Types, Condition, ConditionForDegradation
  <2> QED
    BY <1>1, <2>1
       DEF BeginUpdate, EndUpdate, requestVars, IInv, Types, AloneInv, CountInv, GaugeInv
<1>2. ASSUME NEW r \in Requests, Control(r) PROVE IInv'
  <2>1. condition' \in [Devices -> Condition]
    BY <1>2 DEF Control, SetDown, IInv, Types, Condition, ConditionForDegradation
  <2> QED
    BY <1>2, <2>1, BeginKeepsInv DEF Control
<1>3. ASSUME NEW r \in Requests, Scrape(r) PROVE IInv'
  BY <1>3, BeginKeepsInv DEF Scrape, deviceVars, IInv, Types
<1>4. ASSUME NEW r \in Requests, Progress(r) PROVE IInv'
  BY <1>4, CountKeepsInv, SetKeepsInv, RespondKeepsInv DEF Progress
<1>5. CASE UNCHANGED vars
  BY <1>5 DEF vars, deviceVars, requestVars, IInv, Types, AloneInv, CountInv, GaugeInv
<1> QED
  BY <1>1, <1>2, <1>3, <1>4, <1>5 DEF Next

\* A request that overlaps no other responds with gauges that add up to the fleet, for
\* any number of devices and whatever overlapping requests did before.
THEOREM LoneScrape == Spec => []LoneScrapeAddsUp
<1>1. IInv => LoneScrapeAddsUp
  <2> SUFFICES ASSUME IInv, NEW r \in Requests, pc[r] = "respond", alone[r]
               PROVE  Total(gauge) = Size
    BY DEF LoneScrapeAddsUp, Size
  <2>1. Total(gauge) = Total(tally[r])
    BY DEF IInv, GaugeInv, Total
  <2> QED
    BY <2>1 DEF IInv, CountInv
<1> QED
  BY InitInv, StepInv, <1>1, PTL DEF Spec

\* The parts of a device that Types leaves out.
DeviceTypes ==
    /\ condition \in [Devices -> Condition]
    /\ degraded \in [Devices -> BOOLEAN]
    /\ down \in [Devices -> BOOLEAN]
    /\ linkUp \in [Devices -> BOOLEAN]
    /\ updating \in [Devices -> BOOLEAN]

\* What the lock is for: between update's check of down and its writes no failure is injected.
UpdatingRuns == \A d \in Devices : updating[d] => ~down[d]

\* Whatever updates, injections and recoveries do, an injected failure holds until it is
\* cleared, for any fleet and any number of requests.
THEOREM FailuresHold == Spec => []FailureHolds
<1> DEFINE FInv == DeviceTypes /\ UpdatingRuns /\ FailureHolds
<1>1. Init => FInv
  BY DEF Init, DeviceTypes, UpdatingRuns, FailureHolds, Condition
<1>2. FInv /\ [Next]_vars => FInv'
  <2> SUFFICES ASSUME FInv, [Next]_vars PROVE FInv'
    OBVIOUS
  <2> USE DEF DeviceTypes, UpdatingRuns, FailureHolds, Condition
  <2>1. ASSUME NEW d \in Devices, BeginUpdate(d) PROVE FInv'
    BY <2>1 DEF BeginUpdate
  <2>2. ASSUME NEW d \in Devices, EndUpdate(d) PROVE FInv'
    BY <2>2 DEF EndUpdate, ConditionForDegradation
  <2>3. ASSUME NEW r \in Requests, Control(r) PROVE FInv'
    BY <2>3 DEF Control, SetDown, ConditionForDegradation
  <2>4. ASSUME NEW r \in Requests, Scrape(r) \/ Progress(r) PROVE UNCHANGED deviceVars
    BY <2>4 DEF Scrape, Progress, CountDevice, SetGauge, Respond
  <2>5. ASSUME UNCHANGED deviceVars PROVE FInv'
    BY <2>5 DEF deviceVars
  <2> QED
    BY <2>1, <2>2, <2>3, <2>4, <2>5 DEF Next, vars
<1> QED
  BY <1>1, <1>2, PTL DEF Spec

------------------------------------------------------------------------------

\* What a request has counted never exceeds the fleet: it and what is yet to be counted
\* make the fleet.
Bounded == \A r \in Requests : pc[r] # "none" => tally[r] \in [Condition -> 0..Size]

LEMMA TallyBounded == IInv => Bounded
<1> SUFFICES ASSUME IInv, NEW r \in Requests, pc[r] # "none"
             PROVE  tally[r] \in [Condition -> 0..Size]
  BY DEF Bounded
<1> USE DEF IInv, Types
<1>1. IsFiniteSet(toCount[r])
  BY FleetAssumption, FS_Subset
<1>2. Cardinality(toCount[r]) \in Nat
  BY <1>1, FS_CardinalityType
<1>3. Total(tally[r]) <= Size
  <2>1. Total(tally[r]) \in Nat
    BY DEF Total, Condition
  <2>2. CASE pc[r] = "count"
    BY <1>2, <2>1, <2>2, SizeNat DEF CountInv
  <2>3. CASE pc[r] # "count"
    BY <2>1, <2>3, SizeNat DEF CountInv, Labels
  <2> QED
    BY <2>2, <2>3
<1>4. \A c \in Condition : tally[r][c] <= Total(tally[r])
  BY DEF Total, Condition
<1>5. ASSUME NEW c \in Condition PROVE tally[r][c] \in 0..Size
  <2>1. tally[r][c] \in Nat /\ tally[r][c] <= Total(tally[r]) /\ Total(tally[r]) \in Nat
    BY <1>4 DEF Total, Condition
  <2> HIDE DEF IInv, Types
  <2> QED
    BY <1>3, <2>1, SizeNat
<1> QED
  BY <1>5

\* Every variable keeps its type: no count and no gauge ever exceeds the fleet, also when
\* requests overlap.
THEOREM TypeCorrect == Spec => []TypeOK
<1>1. Zero \in [Condition -> 0..Size]
  BY SizeNat DEF Zero
<1>2. Init => TypeOK
  <2> SUFFICES ASSUME Init PROVE TypeOK
    OBVIOUS
  <2>1. gauge \in [Condition -> 0..Size] /\ tally \in [Requests -> [Condition -> 0..Size]]
    BY <1>1, SizeNat DEF Init, Size, Zero, Condition
  <2> QED
    BY <2>1 DEF Init, TypeOK, Size, Condition
<1>3. IInv /\ Bounded' /\ TypeOK /\ [Next]_vars => TypeOK'
  <2> SUFFICES ASSUME IInv, Bounded', TypeOK, [Next]_vars PROVE TypeOK'
    OBVIOUS
  <2> USE DEF TypeOK, Size
  <2>1. ASSUME NEW r \in Requests, BeginCount(r)
        PROVE  /\ pc' \in [Requests -> Condition \cup {"none", "count", "respond"}]
               /\ toCount' \in [Requests -> SUBSET Devices]
               /\ tally' \in [Requests -> [Condition -> 0..Size]]
               /\ alone' \in [Requests -> BOOLEAN]
               /\ gauge' = gauge
    BY <1>1, <2>1 DEF BeginCount
  <2>2. ASSUME NEW d \in Devices, BeginUpdate(d) \/ EndUpdate(d) PROVE TypeOK'
    <3>1. UNCHANGED <<requestVars, gauge, down, linkUp>>
      BY <2>2 DEF BeginUpdate, EndUpdate
    <3>2. updating' \in [Devices -> BOOLEAN]
      BY <2>2 DEF BeginUpdate, EndUpdate
    <3>3. condition' \in [Devices -> Condition] /\ degraded' \in [Devices -> BOOLEAN]
      BY <2>2 DEF BeginUpdate, EndUpdate, ConditionForDegradation, Condition
    <3> QED
      BY <3>1, <3>2, <3>3 DEF requestVars
  <2>3. ASSUME NEW r \in Requests, Control(r) PROVE TypeOK'
    <3>1. /\ condition' \in [Devices -> Condition] /\ linkUp' \in [Devices -> BOOLEAN]
          /\ degraded' \in [Devices -> BOOLEAN] /\ down' \in [Devices -> BOOLEAN]
          /\ updating' \in [Devices -> BOOLEAN]
      BY <2>3 DEF Control, SetDown, ConditionForDegradation, Condition
    <3>2. BeginCount(r)
      BY <2>3 DEF Control
    <3> QED
      BY <2>1, <3>1, <3>2
  <2>4. ASSUME NEW r \in Requests, Scrape(r) PROVE TypeOK'
    BY <2>1, <2>4 DEF Scrape, deviceVars
  <2>5. ASSUME NEW r \in Requests, CountDevice(r) PROVE TypeOK'
    <3>1. tally' \in [Requests -> [Condition -> Nat]]
      BY <2>5, CountKeepsInv DEF IInv, Types
    <3>2. /\ pc' \in [Requests -> Condition \cup {"none", "count", "respond"}]
          /\ pc'[r] # "none"
          /\ toCount' \in [Requests -> SUBSET Devices]
          /\ UNCHANGED <<deviceVars, alone, gauge>>
      BY <2>5 DEF CountDevice, Condition
    <3>3. tally'[r] \in [Condition -> 0..Size]
      BY <3>2 DEF Bounded
    <3>4. \A q \in Requests \ {r} : tally'[q] = tally[q]
      BY <2>5 DEF CountDevice
    <3>5. tally' \in [Requests -> [Condition -> 0..Size]]
      <4>1. tally' = [q \in Requests |-> tally'[q]]
        BY <3>1
      <4>2. \A q \in Requests : tally'[q] \in [Condition -> 0..Size]
        BY <3>3, <3>4
      <4> QED
        BY <4>1, <4>2
    <3> QED
      BY <3>2, <3>5 DEF deviceVars
  <2>6. ASSUME NEW r \in Requests, SetGauge(r) PROVE TypeOK'
    <3>1. tally[r][pc[r]] \in 0..Size
      BY <2>6 DEF SetGauge
    <3>2. gauge' \in [Condition -> 0..Size]
      BY <2>6, <3>1 DEF SetGauge
    <3> QED
      BY <2>6, <3>2 DEF SetGauge, NextGauge, Condition, deviceVars
  <2>7. ASSUME NEW r \in Requests, Respond(r) PROVE TypeOK'
    BY <1>1, <2>7 DEF Respond, deviceVars
  <2>8. CASE UNCHANGED vars
    BY <2>8 DEF vars, deviceVars, requestVars
  <2> QED
    BY <2>2, <2>3, <2>4, <2>5, <2>6, <2>7, <2>8 DEF Next, Progress
<1> QED
  BY InitInv, StepInv, TallyBounded, <1>2, <1>3, PTL DEF Spec
==============================================================================
