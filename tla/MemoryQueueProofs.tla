-------------------------- MODULE MemoryQueueProofs --------------------------
(***************************************************************************)
(* For any number of producers and any capacity, no producer sends on a    *)
(* closed channel, and what is sent is processed in order, each once.      *)
(***************************************************************************)
EXTENDS MemoryQueue, SequenceTheorems, TLAPS

\* Who is at the send holds the lock, and the lock of a closed queue stays free of
\* producers: Close takes it after they have left and Enqueue looks at the flag first.
LockInv ==
    /\ holder \in Producers \cup {Nobody}
    /\ sending = {holder} \ {Nobody}
    /\ channelClosed = closed
    /\ closed => holder = Nobody

LEMMA InitLock == Init => LockInv
BY DEF Init, LockInv

LEMMA StepLock == LockInv /\ [Next]_vars => LockInv'
<1> SUFFICES ASSUME LockInv, [Next]_vars PROVE LockInv'
  OBVIOUS
<1> USE QueueAssumption DEF LockInv, Unlocked
<1>1. ASSUME NEW p \in Producers, Enqueue(p) PROVE LockInv'
  BY <1>1 DEF Enqueue, stopVars
<1>2. ASSUME NEW p \in Producers, Send(p) PROVE LockInv'
  <2>1. holder = p
    BY <1>2 DEF Send
  <2>2. holder' = Nobody /\ sending' = {}
    BY <1>2, <2>1 DEF Send
  <2> QED
    BY <1>2, <2>2 DEF Send, stopVars
<1>3. CASE Start
  BY <1>3 DEF Start, Check, Cancelled, Receive, ReceiveClosed, Process, stopVars
<1>4. CASE CallClose
  BY <1>4 DEF CallClose
<1>5. CASE Close
  BY <1>5 DEF Close
<1>6. CASE SetInjectedError
  BY <1>6 DEF SetInjectedError
<1>7. CASE Cancel
  BY <1>7 DEF Cancel
<1>8. CASE UNCHANGED vars
  BY <1>8 DEF vars, stopVars
<1> QED
  BY <1>1, <1>2, <1>3, <1>4, <1>5, <1>6, <1>7, <1>8 DEF Next

\* No producer is at its send when the channel is closed: Enqueue's lock suffices for
\* every number of producers and messages.
THEOREM NoSendOnClosed == Spec => []NeverSendsOnClosed
<1>1. LockInv => NeverSendsOnClosed
  BY DEF LockInv, NeverSendsOnClosed
<1> QED
  BY InitLock, StepLock, <1>1, PTL DEF Spec

------------------------------------------------------------------------------

\* The numbers of the last n messages of those accepted.
Newest(n, of) == [i \in 1..n |-> of - n + i]

\* A queue of consecutive numbers stays one when the next is appended and when the head
\* is taken, which is the oldest.
LEMMA QueueMoves ==
    ASSUME NEW n \in Nat, NEW of \in Nat
    PROVE  /\ Newest(n, of) \in Seq(Int) /\ Len(Newest(n, of)) = n
           /\ Append(Newest(n, of), of + 1) = Newest(n + 1, of + 1)
           /\ n > 0 => /\ Head(Newest(n, of)) = of - n + 1
                       /\ Tail(Newest(n, of)) = Newest(n - 1, of)
<1> DEFINE s == Newest(n, of)
<1>1. s \in Seq(Int) /\ Len(s) = n /\ \A i \in 1..n : s[i] = of - n + i
  BY DEF Newest
<1>2. Append(s, of + 1) = Newest(n + 1, of + 1)
  <2>1. /\ Append(s, of + 1) \in Seq(Int) /\ Len(Append(s, of + 1)) = n + 1
        /\ \A i \in 1..(n + 1) : Append(s, of + 1)[i] = IF i <= n THEN s[i] ELSE of + 1
    BY <1>1, AppendProperties
  <2>2. /\ Newest(n + 1, of + 1) \in Seq(Int) /\ Len(Newest(n + 1, of + 1)) = n + 1
        /\ \A i \in 1..(n + 1) : Newest(n + 1, of + 1)[i] = of - n + i
    BY DEF Newest
  <2> HIDE DEF s
  <2>3. \A i \in 1..(n + 1) : Append(s, of + 1)[i] = Newest(n + 1, of + 1)[i]
    BY <1>1, <2>1, <2>2
  <2> QED
    BY <2>1, <2>2, <2>3, SeqEqual
<1>3. ASSUME n > 0
      PROVE  Head(s) = of - n + 1 /\ Tail(s) = Newest(n - 1, of)
  <2>1. s # << >>
    BY <1>1, <1>3
  <2>2. /\ Head(s) = s[1] /\ Tail(s) \in Seq(Int) /\ Len(Tail(s)) = n - 1
        /\ \A i \in 1..(n - 1) : Tail(s)[i] = s[i + 1]
    BY <1>1, <2>1, HeadTailProperties
  <2>3. /\ Newest(n - 1, of) \in Seq(Int) /\ Len(Newest(n - 1, of)) = n - 1
        /\ \A i \in 1..(n - 1) : Newest(n - 1, of)[i] = of - n + 1 + i
    BY <1>3 DEF Newest
  <2> HIDE DEF s
  <2>4. \A i \in 1..(n - 1) : Tail(s)[i] = Newest(n - 1, of)[i]
    BY <1>1, <2>2, <2>3
  <2>5. Head(s) = of - n + 1
    BY <1>1, <1>3, <2>2
  <2> QED
    BY <2>2, <2>3, <2>4, <2>5, SeqEqual
<1> QED
  BY <1>1, <1>2, <1>3

\* TypeOK, with the queue as a value of Newest, and: a producer at the send was let in
\* while the bound on messages had room for its own.
QueueInv ==
    /\ holder \in Producers \cup {Nobody}
    /\ sending = {holder} \ {Nobody}
    /\ sending # {} => accepted < MaxMessages
    /\ pc \in {"check", "select", "process", "returned"}
    /\ accepted \in 0..MaxMessages /\ handled \in Nat
    /\ current = IF pc = "process" THEN handled + 1 ELSE 0
    /\ queue = Newest(Len(queue), accepted) /\ Len(queue) \in 0..Capacity
    /\ accepted = handled + Len(queue) + (IF pc = "process" THEN 1 ELSE 0)
    /\ closing \in {"no", "waiting", "done"} /\ closed = (closing = "done")
    /\ closed \in BOOLEAN /\ channelClosed \in BOOLEAN
    /\ injected \in BOOLEAN /\ cancelled \in BOOLEAN

LEMMA StepQueue == QueueInv /\ [Next]_vars => QueueInv'
<1> SUFFICES ASSUME QueueInv, [Next]_vars PROVE QueueInv'
  OBVIOUS
<1> USE QueueAssumption DEF QueueInv, Unlocked
<1> DEFINE n == Len(queue)
<1>1. n \in Nat /\ accepted \in Nat /\ queue = Newest(n, accepted)
  OBVIOUS
<1>2. ASSUME NEW p \in Producers, Enqueue(p) PROVE QueueInv'
  BY <1>2 DEF Enqueue, queueVars, stopVars
<1>3. ASSUME NEW p \in Producers, Send(p) PROVE QueueInv'
  <2>1. /\ holder' = Nobody /\ sending' = {} /\ accepted' = accepted + 1
        /\ accepted < MaxMessages /\ Len(queue) < Capacity
    BY <1>3 DEF Send
  <2>2. queue' = Append(queue, accepted + 1)
    BY <1>3 DEF Send
  <2>3. queue' = Newest(n + 1, accepted + 1)
    <3> HIDE DEF QueueInv, n
    <3> QED
      BY <1>1, <2>2, QueueMoves
  <2>4. Len(queue') = n + 1
    <3> HIDE DEF QueueInv, n
    <3>1. n + 1 \in Nat /\ accepted + 1 \in Nat
      BY <1>1
    <3>2. Len(Newest(n + 1, accepted + 1)) = n + 1
      BY <3>1, QueueMoves
    <3> QED
      BY <2>3, <3>2
  <2> QED
    BY <1>1, <1>3, <2>1, <2>3, <2>4 DEF Send, stopVars
<1>4. CASE Check
  BY <1>4 DEF Check, queueVars, stopVars
<1>5. CASE Cancelled
  BY <1>5 DEF Cancelled, queueVars, stopVars
<1>6. CASE Receive
  <2>1. queue # << >> /\ current' = Head(queue) /\ queue' = Tail(queue)
    BY <1>6 DEF Receive
  <2>2. n > 0
    <3> HIDE DEF QueueInv, n
    <3>1. queue \in Seq(Int) /\ Len(queue) = n
      BY <1>1, QueueMoves
    <3> QED
      BY <2>1, <3>1
  <2>3. /\ current' = accepted - n + 1
        /\ queue' = Newest(n - 1, accepted)
    <3> HIDE DEF QueueInv, n
    <3> QED
      BY <1>1, <2>1, <2>2, QueueMoves
  <2>4. Len(queue') = n - 1
    <3> HIDE DEF QueueInv, n
    <3>1. n - 1 \in Nat
      BY <1>1, <2>2
    <3> QED
      BY <1>1, <2>3, <3>1, QueueMoves
  <2> QED
    BY <1>1, <1>6, <2>2, <2>3, <2>4 DEF Receive, stopVars
<1>7. CASE ReceiveClosed
  BY <1>7 DEF ReceiveClosed, queueVars, stopVars
<1>8. CASE Process
  BY <1>1, <1>8 DEF Process, stopVars
<1>9. CASE CallClose
  BY <1>9 DEF CallClose, queueVars
<1>10. CASE Close
  BY <1>10 DEF Close, queueVars
<1>11. CASE SetInjectedError
  BY <1>11 DEF SetInjectedError, queueVars
<1>12. CASE Cancel
  BY <1>12 DEF Cancel, queueVars
<1>13. CASE UNCHANGED vars
  BY <1>13 DEF vars, queueVars, stopVars
<1> QED
  BY <1>2, <1>3, <1>4, <1>5, <1>6, <1>7, <1>8, <1>9, <1>10, <1>11, <1>12, <1>13
     DEF Next, Start

\* Every variable keeps its type: one holder of the lock at most, never more messages than
\* the channel holds, and every message accepted is processed, being processed or queued,
\* in order and once.
THEOREM TypeCorrect == Spec => []TypeOK
<1>1. Init => QueueInv
  <2> SUFFICES ASSUME Init PROVE QueueInv
    OBVIOUS
  <2>1. << >> = Newest(0, 0) /\ Len(<< >>) = 0
    BY DEF Newest
  <2>2. queue = Newest(Len(queue), accepted) /\ Len(queue) = 0
    BY <2>1, Zenon DEF Init
  <2>3. /\ holder \in Producers \cup {Nobody} /\ sending = {holder} \ {Nobody}
        /\ accepted \in 0..MaxMessages /\ accepted = handled + Len(queue) /\ 0 \in 0..Capacity
    BY <2>1, QueueAssumption DEF Init
  <2> QED
    BY <2>2, <2>3, QueueAssumption, Zenon DEF Init, QueueInv
<1>2. QueueInv => TypeOK
  <2> SUFFICES ASSUME QueueInv PROVE TypeOK
    OBVIOUS
  <2>1. queue = [i \in 1..Len(queue) |-> accepted - Len(queue) + i]
    BY Zenon DEF QueueInv, Newest
  <2>2. \A flag \in {closed, channelClosed, injected, cancelled} : flag \in BOOLEAN
    BY DEF QueueInv
  <2>3. /\ holder \in Producers \cup {Nobody} /\ sending = {holder} \ {Nobody}
        /\ pc \in {"check", "select", "process", "returned"}
        /\ closing \in {"no", "waiting", "done"} /\ closed = (closing = "done")
    BY DEF QueueInv
  <2>4. current = IF pc = "process" THEN handled + 1 ELSE 0
    BY DEF QueueInv
  <2>5. accepted = handled + Len(queue) + (IF pc = "process" THEN 1 ELSE 0)
    BY DEF QueueInv
  <2>6. accepted \in 0..MaxMessages /\ Len(queue) <= Capacity
    BY QueueAssumption DEF QueueInv
  <2> QED
    BY <2>1, <2>2, <2>3, <2>4, <2>5, <2>6, Zenon DEF TypeOK
<1> QED
  BY <1>1, <1>2, StepQueue, PTL DEF Spec
==============================================================================
