---------------------------- MODULE HealthPipeline ----------------------------
(***************************************************************************)
(* The two services end to end: the monitoring service, by what HealthFeed *)
(* says of it, publishes the health topic that the analysis service        *)
(* consumes.  The monitoring process may be started again, with no status  *)
(* of any device; a change it had not announced yet is lost with it.       *)
(***************************************************************************)
EXTENDS Analysis

CONSTANTS Unknown,           \* no status yet
          MaxFeedRestarts    \* bound: restarts of the monitoring process

VARIABLES assessed, owed, announced,   \* see HealthFeed
          feedRestarts

feedVars == <<assessed, owed, announced, feedRestarts>>

\* What a first event names as the previous status is not looked at here.
Feed == INSTANCE HealthFeed WITH
            Statuses <- Reported, Initial <- Unknown, NoEvent <- None,
            Presumed <- {Unknown}, MayLose <- FALSE

HealthEvent == [device : Devices, status : Reported]

ASSUME FeedAssumption ==
    /\ MaxFeedRestarts \in Nat
    /\ None \notin HealthEvent /\ Junk \notin HealthEvent
    /\ None \notin Feed!Event

PipelineInit == Init /\ Feed!Init /\ feedRestarts = 0

\* There is room in the topic for what is owed and one event more.
Room == Len(log["health"]) + Cardinality({d \in Devices : owed[d] # None}) < MaxEvents["health"]

AssessDevice(d) ==
    /\ Room
    /\ Feed!Change(d)
    /\ UNCHANGED <<vars, feedRestarts>>

\* A seeded fault: a first status is not announced.
AnnounceLaterChanges(d) ==
    /\ Feed!Announce(d)
    /\ log' = IF owed[d].prev = Unknown THEN log
              ELSE [log EXCEPT !["health"] = Append(@, [device |-> d, status |-> owed[d].curr])]
    /\ UNCHANGED <<committed, readerVars, memoryVars, repoVars, storageUp, runVars, pastVars,
                   feedRestarts>>

AnnounceHealth(d) ==
    /\ Feed!Announce(d)
    /\ log' = [log EXCEPT !["health"] = Append(@, [device |-> d, status |-> owed[d].curr])]
    /\ UNCHANGED <<committed, readerVars, memoryVars, repoVars, storageUp, runVars, pastVars,
                   feedRestarts>>

FeedRestarts ==
    /\ feedRestarts < MaxFeedRestarts
    /\ feedRestarts' = feedRestarts + 1
    /\ assessed' = [d \in Devices |-> Unknown]
    /\ owed' = [d \in Devices |-> None]
    /\ UNCHANGED <<vars, announced>>

PipelineNext ==
    \/ (Service \/ Publish("telemetry")) /\ UNCHANGED feedVars
    \/ \E d \in Devices : AssessDevice(d) \/ AnnounceHealth(d)
    \/ FeedRestarts

pipelineVars == <<vars, feedVars>>

\* The worker that changed a status goes on to announce it.
PipelineSpec ==
    /\ PipelineInit /\ [][PipelineNext]_pipelineVars
    /\ Fairness
    /\ \A d \in Devices : WF_pipelineVars(AnnounceHealth(d))

------------------------------------------------------------------------------
(* Properties *)

Shown ==
    ( /\ pc["health"] \in {"check", "fetch", "backoff"}
      /\ position["health"] = Len(log["health"]) ) =>
        \A d \in Devices :
            (owed[d] = None /\ assessed[d] # Unknown) =>
                latest["health"][d] # None /\ latest["health"][d].status = assessed[d]

\* Nothing stale stays behind: with nothing left to announce and the health topic consumed,
\* the repository shows the status the monitoring service holds of the device, whatever was
\* restarted on either side, whichever commits failed and whatever was replayed
\* (EventPublisher announces every change, a first one included; the offset moves only after
\* the projection, and a replay goes on to the newest event).  The premise is that the
\* analysis service can write.
ShownOnceConsumed == [](storageUp /\ ~cancelled) => []Shown

\* What the monitoring service comes to hold of a device for good, DOWN or any other
\* status, the repository of the analysis service comes to show for good: a restarted
\* monitoring process, which has forgotten what it announced (NewServiceWithProducer),
\* announces it again as a first status, and nothing stale stays behind.  The premise is
\* that the analysis service can write.
OutageShown ==
    [](storageUp /\ ~cancelled) =>
        \A d \in Devices, s \in Reported :
            <>[](assessed[d] = s) =>
                <>[](latest["health"][d] # None /\ latest["health"][d].status = s)
==============================================================================
