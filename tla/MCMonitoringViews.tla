-------------------------- MODULE MCMonitoringViews --------------------------
(***************************************************************************)
(* Instances of the monitoring service with its read API.                  *)
(***************************************************************************)
EXTENDS MonitoringViews, MCMonitoring
==============================================================================
