--------------------------- MODULE MonitoringViews ---------------------------
(***************************************************************************)
(* The monitoring service with one summary of its read API being built:    *)
(* buildDeviceSummary reads the tracker, the telemetry store and the       *)
(* health store, each under its own lock, while the workers write them.    *)
(* GET /devices/{id} builds one summary, GET /devices one after the other. *)
(* The requests that read one store or none (metrics, health, readiness)   *)
(* mix nothing and are left out.                                           *)
(***************************************************************************)
EXTENDS Monitoring, Sequences

VARIABLE summary

NoSummary ==
    [device |-> None, read |-> 0, tracker |-> FALSE, telemetry |-> FALSE, health |-> FALSE]

\* A seeded fault: the telemetry is read before the tracker.
TelemetryFirst == <<"telemetry", "tracker", "health">>

\* The order in which a summary is put together.
Parts == <<"tracker", "telemetry", "health">>

\* What is kept of each part: whether it shows a success, whether there is any.
Shown(part, d) ==
    CASE part = "tracker"   -> tracker[d] # None /\ tracker[d].failures = 0
      [] part = "telemetry" -> store[d] # None
      [] part = "health"    -> health[d] # None

BeginSummary ==
    /\ summary = NoSummary
    /\ run = "serving"
    /\ \E d \in Devices : summary' = [NoSummary EXCEPT !.device = d]
    /\ UNCHANGED vars

ReadPart ==
    /\ summary # NoSummary /\ summary.read < Len(Parts)
    /\ LET part == Parts[summary.read + 1]
       IN summary' = [summary EXCEPT ![part] = Shown(part, summary.device), !.read = @ + 1]
    /\ UNCHANGED vars

\* The response is written.
EndSummary ==
    /\ summary.read = Len(Parts)
    /\ summary' = NoSummary
    /\ UNCHANGED vars

Summarise == BeginSummary \/ ReadPart \/ EndSummary

ViewInit == Init /\ summary = NoSummary

ViewNext == (Next /\ UNCHANGED summary) \/ Summarise

ViewSpec == ViewInit /\ [][ViewNext]_<<vars, summary>>

------------------------------------------------------------------------------
(* Properties *)

\* The parts of a summary are of different moments, but a summary that shows a device
\* after an answered poll, UP and without failures, always has telemetry of the device to
\* show as well, whatever the workers do between the reads (pollOnce stores the telemetry
\* before the success, buildDeviceSummary reads them in the opposite order).
UpImpliesTelemetry ==
    summary.read = Len(Parts) /\ summary.tracker => summary.telemetry
==============================================================================
