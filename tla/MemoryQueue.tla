----------------------------- MODULE MemoryQueue -----------------------------
(***************************************************************************)
(* MemoryConsumer, the queue that takes Kafka's place offline and in       *)
(* tests: producers in Enqueue, one goroutine in Start, one caller of      *)
(* Close, the one lock they share and the channel of bounded capacity.     *)
(*                                                                         *)
(* A critical section that cannot block is one action, enabled while the   *)
(* lock is free.  Enqueue blocks in its own: it sends on the channel while *)
(* it holds the lock.                                                      *)
(***************************************************************************)
EXTENDS Integers, Sequences

CONSTANTS Producers,
          Capacity,      \* bufferSize
          MaxMessages,   \* bound: messages accepted
          Nobody         \* no holder of the lock

ASSUME QueueAssumption ==
    /\ Capacity \in Nat \ {0} /\ MaxMessages \in Nat
    /\ Nobody \notin Producers

VARIABLES
    holder,         \* the producer that holds mu beyond a step, or Nobody
    pc,             \* where Start stands
    sending,        \* the producers that are at the send
    queue,          \* msgCh: the numbers of the messages
    current,        \* the message being processed, 0 for none
    accepted,       \* how many messages have been sent
    handled,        \* how many have been processed
    closed,         \* the flag
    channelClosed,  \* msgCh is closed
    injected,       \* injectedErr is set
    cancelled,      \* Start's context is done
    closing         \* the caller of Close: "no", "waiting" for the lock or "done"

queueVars == <<queue, current, accepted, handled>>
stopVars  == <<closed, channelClosed, injected, cancelled, closing>>
vars == <<holder, pc, sending, queueVars, stopVars>>

Init ==
    /\ holder = Nobody
    /\ pc = "check"
    /\ sending = {}
    /\ queue = << >> /\ current = 0 /\ accepted = 0 /\ handled = 0
    /\ closed = FALSE /\ channelClosed = FALSE
    /\ injected = FALSE /\ cancelled = FALSE
    /\ closing = "no"

Unlocked == holder = Nobody

------------------------------------------------------------------------------
(* Enqueue *)

\* A seeded fault: the lock is given back before the send.
EnqueueUnlocked(p) ==
    /\ Unlocked /\ ~closed
    /\ p \notin sending /\ accepted < MaxMessages
    /\ sending' = sending \cup {p}
    /\ UNCHANGED <<holder, pc, queueVars, stopVars>>

\* It locks and finds the queue open; a closed queue refuses, which changes nothing.
Enqueue(p) ==
    /\ Unlocked /\ ~closed
    /\ accepted < MaxMessages
    /\ holder' = p
    /\ sending' = sending \cup {p}
    /\ UNCHANGED <<pc, queueVars, stopVars>>

\* The send goes through and the deferred Unlock runs.
Send(p) ==
    /\ p \in sending
    /\ Len(queue) < Capacity
    /\ accepted' = accepted + 1
    /\ queue' = Append(queue, accepted')
    /\ sending' = sending \ {p}
    /\ holder' = IF holder = p THEN Nobody ELSE holder
    /\ UNCHANGED <<pc, current, handled, stopVars>>

------------------------------------------------------------------------------
(* Start *)

\* The checks under the lock.
Check ==
    /\ pc = "check"
    /\ Unlocked
    /\ pc' = IF closed \/ injected THEN "returned" ELSE "select"
    /\ UNCHANGED <<holder, sending, queueVars, stopVars>>

\* The three outcomes of the select.
Cancelled ==
    /\ pc = "select"
    /\ cancelled
    /\ pc' = "returned"
    /\ UNCHANGED <<holder, sending, queueVars, stopVars>>

Receive ==
    /\ pc = "select"
    /\ queue # << >>
    /\ current' = Head(queue)
    /\ queue' = Tail(queue)
    /\ pc' = "process"
    /\ UNCHANGED <<holder, sending, accepted, handled, stopVars>>

ReceiveClosed ==
    /\ pc = "select"
    /\ queue = << >> /\ channelClosed
    /\ pc' = "returned"
    /\ UNCHANGED <<holder, sending, queueVars, stopVars>>

\* A seeded fault: an error of the handler ends the loop.
ProcessOrQuit ==
    /\ pc = "process"
    /\ current' = 0
    /\ handled' = handled + 1
    /\ pc' \in {"check", "returned"}
    /\ UNCHANGED <<holder, sending, queue, accepted, stopVars>>

\* Dispatcher.ProcessMessage; its error is logged.
Process ==
    /\ pc = "process"
    /\ current' = 0
    /\ handled' = handled + 1
    /\ pc' = "check"
    /\ UNCHANGED <<holder, sending, queue, accepted, stopVars>>

Start == Check \/ Cancelled \/ Receive \/ ReceiveClosed \/ Process

------------------------------------------------------------------------------
(* Close and SetInjectedError *)

CallClose ==
    /\ closing = "no"
    /\ closing' = "waiting"
    /\ UNCHANGED <<holder, pc, sending, queueVars, closed, channelClosed, injected, cancelled>>

\* A seeded fault: the channel stays open.
CloseFlagOnly ==
    /\ closing = "waiting"
    /\ Unlocked
    /\ closed' = TRUE
    /\ closing' = "done"
    /\ UNCHANGED <<holder, pc, sending, queueVars, channelClosed, injected, cancelled>>

Close ==
    /\ closing = "waiting"
    /\ Unlocked
    /\ closed' = TRUE
    /\ channelClosed' = TRUE
    /\ closing' = "done"
    /\ UNCHANGED <<holder, pc, sending, queueVars, injected, cancelled>>

SetInjectedError ==
    /\ Unlocked
    /\ injected' \in BOOLEAN
    /\ UNCHANGED <<holder, pc, sending, queueVars, closed, channelClosed, cancelled, closing>>

\* Start's context is cancelled from outside.
Cancel ==
    /\ ~cancelled
    /\ cancelled' = TRUE
    /\ UNCHANGED <<holder, pc, sending, queueVars, closed, channelClosed, injected, closing>>

------------------------------------------------------------------------------
Next ==
    \/ \E p \in Producers : Enqueue(p) \/ Send(p)
    \/ Start
    \/ CallClose \/ Close \/ SetInjectedError \/ Cancel

Spec == Init /\ [][Next]_vars

\* Goroutines are scheduled and handlers return; sync.Mutex lets no waiter starve, and
\* select chooses among ready cases at random.
Fairness ==
    /\ WF_vars(Start) /\ SF_vars(Check) /\ SF_vars(Cancelled) /\ SF_vars(Close)
    /\ \A p \in Producers : WF_vars(Send(p))

FairSpec == Spec /\ Fairness

------------------------------------------------------------------------------
(* Properties *)

\* The lock is held by the one producer that is at the send; the messages sent are those
\* processed, being processed and queued, in order.
TypeOK ==
    /\ holder \in Producers \cup {Nobody}
    /\ sending = {holder} \ {Nobody}
    /\ pc \in {"check", "select", "process", "returned"}
    /\ current = IF pc = "process" THEN handled + 1 ELSE 0
    /\ accepted \in 0..MaxMessages
    /\ Len(queue) <= Capacity
    /\ queue = [i \in 1..Len(queue) |-> accepted - Len(queue) + i]
    /\ accepted = handled + Len(queue) + (IF pc = "process" THEN 1 ELSE 0)
    /\ closing \in {"no", "waiting", "done"} /\ closed = (closing = "done")
    /\ \A flag \in {closed, channelClosed, injected, cancelled} : flag \in BOOLEAN

\* A send on a closed channel would panic: no producer that found the queue open is
\* still at its send when Close closes the channel (the lock Enqueue holds over the send).
NeverSendsOnClosed == channelClosed => sending = {}

\* The price of that lock: a producer holds it at the full channel, and Start, which alone
\* could make room, waits for the lock or has returned.
Jammed == sending # {} /\ Len(queue) = Capacity /\ pc \in {"check", "returned"}

\* consumer.go:140 Start processes "until context cancellation or Close": it returns, and
\* so does Close, however producers, handlers and injected errors interleave, unless the
\* queue jams.
ReturnsUnlessJammed ==
    /\ cancelled \/ closed ~> pc = "returned" \/ Jammed
    /\ closing = "waiting" ~> closing = "done" \/ Jammed

\* While Start runs only the jam, a stop or an injected error keeps an accepted message
\* from its handler: errors of the handler do not end the loop.
HandledUnlessStopped ==
    \A n \in 1..MaxMessages :
        accepted >= n /\ pc # "returned" ~> handled >= n \/ cancelled \/ closed \/ injected \/ Jammed
==============================================================================
