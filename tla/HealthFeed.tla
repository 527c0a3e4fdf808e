------------------------------ MODULE HealthFeed ------------------------------
(***************************************************************************)
(* What the monitoring service promises the readers of its health topic,   *)
(* device by device and without saying how polling works.                  *)
(*                                                                         *)
(*   assessed   the status the service currently holds for the device      *)
(*   owed       the change it has made but not yet offered to the topic    *)
(*   announced  the last event of the topic with the device as its key     *)
(*                                                                         *)
(* Every change of status is offered exactly once, before the next change, *)
(* as an event that names the two statuses it lies between.  An offer may  *)
(* be lost only if MayLose says so; the service never repeats it.          *)
(***************************************************************************)

CONSTANTS Devices,     \* the monitored devices
          Statuses,    \* the statuses a device can be assessed to have
          Initial,     \* the status written for "never assessed"
          Presumed,    \* the statuses a first event may name as the previous one
          NoEvent,     \* nothing owed, nothing announced
          MayLose      \* whether the topic may refuse an event

VARIABLES assessed, owed, announced

vars == <<assessed, owed, announced>>

Event == [prev : Statuses \cup Presumed, curr : Statuses]

TypeOK ==
    /\ assessed \in [Devices -> Statuses \cup {Initial}]
    /\ owed \in [Devices -> Event \cup {NoEvent}]
    /\ announced \in [Devices -> Event \cup {NoEvent}]

Init ==
    /\ assessed = [d \in Devices |-> Initial]
    /\ owed = [d \in Devices |-> NoEvent]
    /\ announced = [d \in Devices |-> NoEvent]

\* The statuses an event about d may name as the one before.
Previous(d) == IF assessed[d] = Initial THEN Presumed ELSE {assessed[d]}

Change(d) ==
    /\ owed[d] = NoEvent
    /\ \E s \in Statuses, p \in Previous(d) :
          /\ s # p
          /\ assessed' = [assessed EXCEPT ![d] = s]
          /\ owed' = [owed EXCEPT ![d] = [prev |-> p, curr |-> s]]
    /\ UNCHANGED announced

Announce(d) ==
    /\ owed[d] # NoEvent
    /\ announced' = [announced EXCEPT ![d] = owed[d]]
    /\ owed' = [owed EXCEPT ![d] = NoEvent]
    /\ UNCHANGED assessed

Lose(d) ==
    /\ MayLose
    /\ owed[d] # NoEvent
    /\ owed' = [owed EXCEPT ![d] = NoEvent]
    /\ UNCHANGED <<assessed, announced>>

Next == \E d \in Devices : Change(d) \/ Announce(d) \/ Lose(d)

Spec == Init /\ [][Next]_vars

Fairness == \A d \in Devices : WF_vars(Announce(d) \/ Lose(d))

FairSpec == Spec /\ Fairness
==============================================================================
