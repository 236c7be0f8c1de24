--------------------------- MODULE DeliveryProofs ---------------------------
(***************************************************************************)
(* Proofs about Delivery, for any workers, topics, partitions, documents,  *)
(* retry limit and number of faults, and whatever the relay publishes.     *)
(***************************************************************************)
EXTENDS Delivery, BrokerProofs, FiniteSetTheorems

-----------------------------------------------------------------------------
(* Types. *)

(* A worker's record is an envelope from the moment it is fetched. *)
LEMMA BusyHasMessage ==
    ASSUME DeliveryTypeOK, NEW w \in Workers, pc[w] # "idle"
    PROVE  inflight[w] \in Message
  BY DEF DeliveryTypeOK

LEMMA EventOfType ==
    ASSUME DeliveryTypeOK, NEW w \in Workers, pc[w] # "idle"
    PROVE  EventOf(w) \in Topics \X EventIds
  BY BusyHasMessage, WorkerAssumption DEF EventOf, Message

LEMMA InitTypeOK == DeliveryInit => DeliveryTypeOK
  <1> SUFFICES ASSUME DeliveryInit PROVE DeliveryTypeOK
    OBVIOUS
  <1>1. BrokerTypeOK
    BY DEF DeliveryInit, BrokerInit, BrokerTypeOK
  <1>2. dlq \in [Topics -> SUBSET Message]
    BY DEF DeliveryInit
  <1>3. QED
    BY <1>1, <1>2, NoMessageAssumption, WorkerAssumption
    DEF DeliveryInit, DeliveryTypeOK, Steps

LEMMA NextTypeOK ==
    ASSUME DeliveryTypeOK, [DeliveryNext]_deliveryVars
    PROVE  DeliveryTypeOK'
  <1> USE DEF DeliveryTypeOK, Steps, consumerVars
  <1>0. \A w \in Workers : WorkerTopic[w] \in Topics
    BY WorkerAssumption
  <1>1. ASSUME NEW t \in Topics, NEW id \in EventIds, NEW d \in Docs,
               Deliver(t, id, d)
        PROVE  DeliveryTypeOK'
    <2>1. BrokerTypeOK'
      BY <1>1, EnvelopeType, ProduceAppends DEF Deliver
    <2>2. QED
      BY <1>1, <2>1 DEF Deliver, Assignment
  <1>2. ASSUME NEW w \in Workers, NEW p \in Partitions, Fetch(w, p)
        PROVE  DeliveryTypeOK'
    <2> DEFINE s == <<WorkerTopic[w], p>>
    <2>1. s \in Streams
      BY <1>0 DEF Streams
    <2>2. log[s][position[s] + 1] \in Message
      BY <1>2, <2>1 DEF Fetch, BrokerTypeOK
    <2>3. /\ inflight' = [inflight EXCEPT ![w] = log[s][position[s] + 1]]
          /\ position' = [position EXCEPT ![s] = position[s] + 1]
          /\ pc' = [pc EXCEPT ![w] = "received"]
          /\ UNCHANGED <<log, dlq, faults, committed, owner, claims>>
      BY <1>2 DEF Fetch, Goto
    <2> HIDE DEF s
    <2>4. /\ inflight' \in [Workers -> Message \cup {NoMessage}]
          /\ pc' \in [Workers -> Steps]
          /\ \A v \in Workers : pc'[v] = "idle" <=> inflight'[v] = NoMessage
      BY <2>2, <2>3, NoMessageAssumption
    <2>5. position' \in [Streams -> Nat]
      BY <2>1, <2>3
    <2>6. QED
      BY <2>3, <2>4, <2>5 DEF BrokerTypeOK, Assignment
  <1>3. ASSUME NEW w \in Workers, Claim(w)
        PROVE  DeliveryTypeOK'
    BY <1>3 DEF Claim, Goto, BrokerTypeOK, Assignment
  <1>4. ASSUME NEW w \in Workers, SkipDuplicate(w)
        PROVE  DeliveryTypeOK'
    BY <1>4 DEF SkipDuplicate, Goto, BrokerTypeOK, Assignment
  <1>5. ASSUME NEW w \in Workers, WorkSucceeds(w)
        PROVE  DeliveryTypeOK'
    <2>1. claims' \subseteq Topics \X EventIds
      BY <1>5, EventOfType DEF WorkSucceeds, Goto
    <2>2. QED
      BY <1>5, <2>1 DEF WorkSucceeds, Goto, BrokerTypeOK, Assignment
  <1>6. ASSUME NEW w \in Workers, WorkFails(w)
        PROVE  DeliveryTypeOK'
    BY <1>6 DEF WorkFails, Goto, BrokerTypeOK, Assignment
  <1>7. ASSUME NEW w \in Workers, Requeue(w)
        PROVE  DeliveryTypeOK'
    <2>1. /\ inflight[w] \in Message
          /\ inflight[w].attempt + 1 < MaxAttempts
      <3>1. inflight[w] \in Message
        BY <1>7, BusyHasMessage DEF Requeue, Goto
      <3>2. NextAttempt(inflight[w]).attempt = inflight[w].attempt + 1
        BY <3>1 DEF NextAttempt, Message
      <3>3. QED
        BY <1>7, <3>1, <3>2 DEF Requeue
    <2>2. BrokerTypeOK'
      BY <1>0, <1>7, <2>1, EnvelopeType, ProduceAppends DEF Requeue
    <2>3. QED
      BY <1>7, <2>2 DEF Requeue, Goto, Assignment
  <1>8. ASSUME NEW w \in Workers, DeadLetter(w)
        PROVE  DeliveryTypeOK'
    <2>1. dlq' \in [Topics -> SUBSET Message]
      BY <1>8, BusyHasMessage DEF DeadLetter, Goto
    <2>2. QED
      BY <1>8, <2>1 DEF DeadLetter, Goto, BrokerTypeOK, Assignment
  <1>9. ASSUME NEW w \in Workers, OnDlqReturns(w)
        PROVE  DeliveryTypeOK'
    BY <1>9 DEF OnDlqReturns, Goto, BrokerTypeOK, Assignment
  <1>10. ASSUME NEW w \in Workers, CommitOffset(w)
         PROVE  DeliveryTypeOK'
    <2>1. committed' \in [Streams -> Nat]
      BY <1>10 DEF CommitOffset
    <2>2. QED
      BY <1>10, <2>1, NoMessageAssumption
      DEF CommitOffset, Goto, BrokerTypeOK, Assignment
  <1>11. ASSUME NEW w \in Workers, WorkSucceedsUnacked(w)
         PROVE  DeliveryTypeOK'
    <2>1. claims' \subseteq Topics \X EventIds
      BY <1>11, EventOfType DEF WorkSucceedsUnacked, Goto
    <2>2. faults' \in 0 .. MaxFaults
      BY <1>11, WorkerAssumption DEF WorkSucceedsUnacked, Fault
    <2>3. QED
      BY <1>11, <2>1, <2>2 DEF WorkSucceedsUnacked, Goto, BrokerTypeOK, Assignment
  <1>12. ASSUME NEW w \in Workers, Crash(w)
         PROVE  DeliveryTypeOK'
    <2>1. faults' \in 0 .. MaxFaults
      BY <1>12, WorkerAssumption DEF Crash, Fault
    <2>2. QED
      BY <1>12, <2>1, NoMessageAssumption DEF Crash, BrokerTypeOK, Assignment
  <1>13. ASSUME NEW t \in Topics, Rebalance(t)
         PROVE  DeliveryTypeOK'
    <2>1. faults' \in 0 .. MaxFaults
      BY <1>13, WorkerAssumption DEF Rebalance, Fault
    <2>2. QED
      BY <1>13, <2>1 DEF Rebalance, BrokerTypeOK, Assignment
  <1>14. ASSUME NEW w \in Workers, LoseSession(w)
         PROVE  DeliveryTypeOK'
    <2>1. faults' \in 0 .. MaxFaults
      BY <1>14, WorkerAssumption DEF LoseSession, Fault
    <2>2. QED
      BY <1>14, <2>1 DEF LoseSession, Goto, BrokerTypeOK, Assignment
  <1>15. CASE UNCHANGED deliveryVars
    BY <1>15 DEF deliveryVars, BrokerTypeOK, Assignment
  <1>16. QED
    BY <1>1, <1>2, <1>3, <1>4, <1>5, <1>6, <1>7, <1>8, <1>9, <1>10, <1>11,
       <1>12, <1>13, <1>14, <1>15 DEF DeliveryNext, WorkerStep, DeliveryFault

(* Every variable of the consumer loop keeps its type. *)
THEOREM DeliveryTypeCorrect == DeliverySpec => []DeliveryTypeOK
  BY InitTypeOK, NextTypeOK, PTL DEF DeliverySpec

-----------------------------------------------------------------------------
(* Nothing that counts for an event is ever withdrawn. *)

(* What is on the bus, in a DLQ or in processed_events stays there. *)
Grows ==
    /\ claims \subseteq claims'
    /\ \A t \in Topics : dlq[t] \subseteq dlq'[t]
    /\ \A s \in Streams :
          /\ Len(log[s]) <= Len(log'[s])
          /\ \A i \in 1 .. Len(log[s]) : log'[s][i] = log[s][i]

LEMMA ProduceGrows ==
    ASSUME BrokerTypeOK, NEW t \in Topics, NEW m \in Message, Produce(t, m)
    PROVE  \A s \in Streams :
              /\ Len(log[s]) <= Len(log'[s])
              /\ \A i \in 1 .. Len(log[s]) : log'[s][i] = log[s][i]
  <1>1. \A s \in Streams : Len(log[s]) \in Nat
    BY DEF BrokerTypeOK
  <1>2. QED
    BY <1>1, ProduceAppends

(* A requeued event is the envelope in the worker's hands, one attempt on. *)
LEMMA RequeueProduces ==
    ASSUME DeliveryTypeOK, NEW w \in Workers, Requeue(w)
    PROVE  /\ inflight[w] \in Message
           /\ NextAttempt(inflight[w]) \in Message
           /\ NextAttempt(inflight[w]).id = inflight[w].id
           /\ NextAttempt(inflight[w]).doc = inflight[w].doc
           /\ NextAttempt(inflight[w]).attempt = inflight[w].attempt + 1
           /\ Produce(WorkerTopic[w], NextAttempt(inflight[w]))
           /\ WorkerTopic[w] \in Topics
  <1>1. inflight[w] \in Message
    BY BusyHasMessage DEF Requeue, Goto
  <1>2. NextAttempt(inflight[w]).attempt = inflight[w].attempt + 1
    BY <1>1 DEF NextAttempt, Message
  <1>3. QED
    BY <1>1, <1>2, EnvelopeType, WorkerAssumption DEF Requeue

LEMMA NextGrows ==
    ASSUME DeliveryTypeOK, [DeliveryNext]_deliveryVars
    PROVE  Grows
  <1>0. BrokerTypeOK /\ \A s \in Streams : Len(log[s]) \in Nat
    BY DEF DeliveryTypeOK, BrokerTypeOK
  <1>1. ASSUME NEW t \in Topics, NEW id \in EventIds, NEW d \in Docs,
               Deliver(t, id, d)
        PROVE  Grows
    BY <1>0, <1>1, EnvelopeType, ProduceGrows DEF Deliver, Grows
  <1>2. ASSUME NEW w \in Workers, Requeue(w)
        PROVE  Grows
    BY <1>0, <1>2, RequeueProduces, ProduceGrows DEF Requeue, Grows
  <1>3. ASSUME NEW w \in Workers, DeadLetter(w)
        PROVE  Grows
    BY <1>0, <1>3 DEF DeadLetter, Grows, DeliveryTypeOK
  <1>4. ASSUME NEW w \in Workers, WorkSucceeds(w) \/ WorkSucceedsUnacked(w)
        PROVE  Grows
    BY <1>0, <1>4 DEF WorkSucceeds, WorkSucceedsUnacked, Grows
  <1>5. CASE UNCHANGED <<log, dlq, claims>>
    BY <1>0, <1>5 DEF Grows
  <1>6. ASSUME NEW w \in Workers,
               \/ \E p \in Partitions : Fetch(w, p)
               \/ Claim(w) \/ SkipDuplicate(w) \/ WorkFails(w)
               \/ LoseSession(w) \/ OnDlqReturns(w) \/ CommitOffset(w) \/ Crash(w)
        PROVE  UNCHANGED <<log, dlq, claims>>
    BY <1>6 DEF Fetch, Claim, SkipDuplicate, WorkFails, LoseSession,
                OnDlqReturns, CommitOffset, Crash
  <1>7. ASSUME NEW t \in Topics, Rebalance(t)
        PROVE  UNCHANGED <<log, dlq, claims>>
    BY <1>7 DEF Rebalance
  <1>8. CASE UNCHANGED deliveryVars
    BY <1>5, <1>8 DEF deliveryVars
  <1>9. QED
    BY <1>1, <1>2, <1>3, <1>4, <1>5, <1>6, <1>7, <1>8
    DEF DeliveryNext, WorkerStep, DeliveryFault

(* So an event that is covered stays covered. *)
LEMMA CoveredStays ==
    ASSUME DeliveryTypeOK, Grows, NEW s \in Streams, NEW id, NEW i \in Nat,
           Covered(s, id, i)
    PROVE  Covered(s, id, i)'
  <1>1. CASE Settled(s[1], id)
    BY <1>1 DEF Settled, Covered, Grows, Streams
  <1>2. CASE \E j \in 1 .. Len(log[s]) : j > i /\ log[s][j].id = id
    <2>1. PICK j \in 1 .. Len(log[s]) : j > i /\ log[s][j].id = id
      BY <1>2
    <2>2. Len(log[s]) <= Len(log'[s]) /\ log'[s][j] = log[s][j]
      BY <2>1 DEF Grows
    <2>3. QED
      BY <2>1, <2>2 DEF Covered
  <1>3. QED
    BY <1>1, <1>2 DEF Covered

-----------------------------------------------------------------------------
(* At-least-once delivery.

   NoEventLost is not inductive: CommitOffset moves the offset past a record
   on the strength of what the worker did in earlier steps.  It takes the
   four facts below, and the last one ties them to the offset: a position is
   at most one record ahead of the committed offset, that record is in the
   hands of the partition's owner, and a worker about to commit has left it
   covered. *)

(* A record is in the partition its document's key selects. *)
RecordsInPlace ==
    \A s \in Streams : \A i \in 1 .. Len(log[s]) : StreamOf(s[1], log[s][i]) = s

(* A position is ahead of the committed offset by the one record its owner is
   busy with, or not at all. *)
Ahead(s) ==
    /\ position[s] <= Len(log[s])
    /\ \/ position[s] = committed[s]
       \/ /\ position[s] = committed[s] + 1
          /\ pc[owner[s]] # "idle"
          /\ inflight[owner[s]] = log[s][position[s]]

OneRecordAhead == \A s \in Streams : Ahead(s)

(* The on_dlq callback runs after the event has reached the DLQ. *)
DeadIsParked ==
    \A w \in Workers : pc[w] = "dead" =>
        \E m \in dlq[WorkerTopic[w]] : m.id = inflight[w].id

(* A worker that is done with the record it will commit has left it covered. *)
DoneIsCovered ==
    \A w \in Workers, s \in Streams :
        pc[w] = "done" /\ owner[s] = w /\ position[s] = committed[s] + 1 =>
            Covered(s, inflight[w].id, position[s])

DeliveryInv ==
    /\ DeliveryTypeOK
    /\ RecordsInPlace
    /\ OneRecordAhead
    /\ DeadIsParked
    /\ DoneIsCovered
    /\ NoEventLost

LEMMA InitDeliveryInv == DeliveryInit => DeliveryInv
  <1> SUFFICES ASSUME DeliveryInit PROVE DeliveryInv
    OBVIOUS
  <1>1. DeliveryTypeOK
    BY InitTypeOK
  <1>2. \A s \in Streams : /\ Len(log[s]) = 0
                           /\ committed[s] = 0
                           /\ position[s] = 0
    BY DEF DeliveryInit, BrokerInit
  <1>3. \A w \in Workers : pc[w] = "idle"
    BY DEF DeliveryInit
  <1>4. QED
    BY <1>1, <1>2, <1>3
    DEF DeliveryInv, RecordsInPlace, OneRecordAhead, Ahead, DeadIsParked,
        DoneIsCovered, NoEventLost

(* Records never move, and new ones go where their key says. *)
LEMMA NextRecordsInPlace ==
    ASSUME DeliveryTypeOK, RecordsInPlace, [DeliveryNext]_deliveryVars
    PROVE  RecordsInPlace'
  <1>0. BrokerTypeOK /\ \A s \in Streams : Len(log[s]) \in Nat
    BY DEF DeliveryTypeOK, BrokerTypeOK
  <1>1. ASSUME NEW t \in Topics, NEW m \in Message, Produce(t, m)
        PROVE  RecordsInPlace'
    <2> SUFFICES ASSUME NEW s \in Streams, NEW i \in 1 .. Len(log'[s])
                 PROVE  StreamOf(s[1], log'[s][i]) = s
      BY DEF RecordsInPlace, StreamOf
    <2>1. CASE i \in 1 .. Len(log[s])
      BY <1>0, <1>1, <2>1, ProduceAppends DEF RecordsInPlace
    <2>2. CASE i \notin 1 .. Len(log[s])
      <3>1. s = StreamOf(t, m) /\ log'[s][i] = m
        BY <1>0, <1>1, <2>2, ProduceAppends
      <3>2. QED
        BY <3>1 DEF StreamOf
    <2>3. QED
      BY <2>1, <2>2
  <1>2. ASSUME NEW t \in Topics, NEW id \in EventIds, NEW d \in Docs,
               Deliver(t, id, d)
        PROVE  RecordsInPlace'
    BY <1>1, <1>2, EnvelopeType DEF Deliver
  <1>3. ASSUME NEW w \in Workers, Requeue(w)
        PROVE  RecordsInPlace'
    BY <1>1, <1>3, RequeueProduces
  <1>4. CASE UNCHANGED log
    BY <1>4 DEF RecordsInPlace, StreamOf
  <1>5. ASSUME \/ \E w \in Workers :
                     \/ \E p \in Partitions : Fetch(w, p)
                     \/ Claim(w) \/ SkipDuplicate(w) \/ WorkSucceeds(w)
                     \/ WorkFails(w) \/ DeadLetter(w) \/ OnDlqReturns(w)
                     \/ CommitOffset(w)
               \/ DeliveryFault
               \/ UNCHANGED deliveryVars
        PROVE  UNCHANGED log
    BY <1>5 DEF Fetch, Claim, SkipDuplicate, WorkSucceeds, WorkFails,
                DeadLetter, OnDlqReturns, CommitOffset, DeliveryFault,
                WorkSucceedsUnacked, LoseSession, Crash, Rebalance, deliveryVars
  <1>6. QED
    BY <1>2, <1>3, <1>4, <1>5 DEF DeliveryNext, WorkerStep

(* Most steps leave records and offsets where they are. *)
HandsKept ==
    /\ UNCHANGED <<committed, position, owner, inflight>>
    /\ \A w \in Workers : pc[w] # "idle" => pc'[w] # "idle"

LEMMA StepMovesRecords ==
    ASSUME DeliveryTypeOK, [DeliveryNext]_deliveryVars
    PROVE  \/ HandsKept
           \/ \E w \in Workers : \/ \E p \in Partitions : Fetch(w, p)
                                 \/ CommitOffset(w)
                                 \/ Crash(w)
           \/ \E t \in Topics : Rebalance(t)
  <1> USE DEF HandsKept, consumerVars, DeliveryTypeOK
  <1>1. ASSUME NEW t \in Topics, NEW id \in EventIds, NEW d \in Docs,
               Deliver(t, id, d)
        PROVE  HandsKept
    BY <1>1 DEF Deliver
  <1>2. ASSUME NEW w \in Workers,
               \/ Claim(w) \/ SkipDuplicate(w) \/ WorkSucceeds(w)
               \/ WorkSucceedsUnacked(w) \/ WorkFails(w) \/ LoseSession(w)
        PROVE  HandsKept
    BY <1>2 DEF Claim, SkipDuplicate, WorkSucceeds, WorkSucceedsUnacked,
                WorkFails, LoseSession, Goto
  <1>3. ASSUME NEW w \in Workers,
               Requeue(w) \/ DeadLetter(w) \/ OnDlqReturns(w)
        PROVE  HandsKept
    BY <1>3 DEF Requeue, DeadLetter, OnDlqReturns, Goto
  <1>4. CASE UNCHANGED deliveryVars
    BY <1>4 DEF deliveryVars
  <1>5. QED
    BY <1>1, <1>2, <1>3, <1>4 DEF DeliveryNext, WorkerStep, DeliveryFault

LEMMA NextOneRecordAhead ==
    ASSUME DeliveryTypeOK, OneRecordAhead, Grows, [DeliveryNext]_deliveryVars
    PROVE  OneRecordAhead'
  <1> SUFFICES ASSUME NEW s \in Streams PROVE Ahead(s)'
    BY DEF OneRecordAhead
  <1> USE DEF Ahead
  <1>0. /\ committed[s] \in Nat /\ position[s] \in Nat
        /\ owner[s] \in Workers
        /\ Len(log[s]) \in Nat
        /\ WorkerTopic[owner[s]] = s[1]
    BY DEF DeliveryTypeOK, BrokerTypeOK, Assignment
  <1>1. /\ position[s] <= Len(log[s])
        /\ \/ position[s] = committed[s]
           \/ /\ position[s] = committed[s] + 1
              /\ pc[owner[s]] # "idle"
              /\ inflight[owner[s]] = log[s][position[s]]
    BY DEF OneRecordAhead
  <1>2. /\ Len(log[s]) <= Len(log'[s])
        /\ \A i \in 1 .. Len(log[s]) : log'[s][i] = log[s][i]
    BY DEF Grows
  <1>3. Len(log'[s]) \in Nat
    BY NextTypeOK DEF DeliveryTypeOK, BrokerTypeOK
  <1>4. CASE HandsKept
    BY <1>0, <1>1, <1>2, <1>3, <1>4 DEF HandsKept
  <1>5. ASSUME NEW w \in Workers, NEW p \in Partitions, Fetch(w, p)
        PROVE  Ahead(s)'
    <2>1. CASE s = <<WorkerTopic[w], p>>
      <3>1. /\ pc[w] = "idle" /\ owner[s] = w
            /\ pc'[w] = "received"
            /\ position[s] < Len(log[s])
            /\ inflight'[w] = log[s][position[s] + 1]
            /\ position'[s] = position[s] + 1
            /\ UNCHANGED <<log, committed, owner>>
        BY <1>5, <2>1 DEF Fetch, Goto, DeliveryTypeOK
      <3>2. QED
        BY <1>0, <1>1, <3>1
    <2>2. CASE s # <<WorkerTopic[w], p>>
      <3>1. /\ position'[s] = position[s]
            /\ pc[w] = "idle"
            /\ \A v \in Workers : v # w => /\ pc'[v] = pc[v]
                                           /\ inflight'[v] = inflight[v]
            /\ UNCHANGED <<log, committed, owner>>
        BY <1>5, <2>2 DEF Fetch, Goto, DeliveryTypeOK
      <3>2. QED
        BY <1>0, <1>1, <3>1
    <2>3. QED
      BY <2>1, <2>2
  <1>6. ASSUME NEW w \in Workers, CommitOffset(w) \/ Crash(w)
        PROVE  Ahead(s)'
    <2>1. /\ UNCHANGED <<log, owner>>
          /\ \A v \in Workers : v # w => /\ pc'[v] = pc[v]
                                         /\ inflight'[v] = inflight[v]
          /\ owner[s] = w => position'[s] = committed'[s]
          /\ owner[s] = w => position'[s] \in {position[s], committed[s]}
          /\ owner[s] # w => /\ position'[s] = position[s]
                             /\ committed'[s] = committed[s]
      BY <1>6 DEF CommitOffset, Crash, Goto, Assigned, DeliveryTypeOK
    <2>2. QED
      BY <1>0, <1>1, <2>1
  <1>7. ASSUME NEW t \in Topics, Rebalance(t)
        PROVE  Ahead(s)'
    <2>1. /\ UNCHANGED <<log, committed, pc, inflight>>
          /\ s[1] = t => position'[s] = committed[s]
          /\ s[1] # t => position'[s] = position[s] /\ owner'[s] = owner[s]
      BY <1>7 DEF Rebalance
    <2>2. QED
      BY <1>0, <1>1, <2>1
  <1>8. QED
    BY <1>4, <1>5, <1>6, <1>7, StepMovesRecords

(* A worker is in a state after a step because it was before, with the same
   record, or because this step took it there. *)
LEMMA DeadComesFromDeadLetter ==
    ASSUME DeliveryTypeOK, [DeliveryNext]_deliveryVars,
           NEW v \in Workers, pc'[v] = "dead"
    PROVE  \/ pc[v] = "dead" /\ inflight'[v] = inflight[v]
           \/ DeadLetter(v)
  <1> USE DEF DeliveryTypeOK
  <1>1. ASSUME NEW w \in Workers,
               \/ \E p \in Partitions : Fetch(w, p)
               \/ Claim(w) \/ SkipDuplicate(w) \/ WorkSucceeds(w)
               \/ WorkSucceedsUnacked(w) \/ WorkFails(w) \/ LoseSession(w)
        PROVE  pc[v] = "dead" /\ inflight'[v] = inflight[v]
    BY <1>1 DEF Fetch, Claim, SkipDuplicate, WorkSucceeds,
                WorkSucceedsUnacked, WorkFails, LoseSession, Goto
  <1>2. ASSUME NEW w \in Workers,
               \/ Requeue(w) \/ OnDlqReturns(w) \/ CommitOffset(w) \/ Crash(w)
               \/ DeadLetter(w) /\ v # w
        PROVE  pc[v] = "dead" /\ inflight'[v] = inflight[v]
    BY <1>2 DEF Requeue, OnDlqReturns, CommitOffset, Crash, DeadLetter, Goto
  <1>3. ASSUME \/ \E t \in Topics : Rebalance(t)
               \/ \E t \in Topics, id \in EventIds, d \in Docs :
                     Deliver(t, id, d)
               \/ UNCHANGED deliveryVars
        PROVE  pc[v] = "dead" /\ inflight'[v] = inflight[v]
    BY <1>3 DEF Rebalance, Deliver, deliveryVars
  <1>4. QED
    BY <1>1, <1>2, <1>3 DEF DeliveryNext, WorkerStep, DeliveryFault

LEMMA NextDeadIsParked ==
    ASSUME DeliveryTypeOK, DeadIsParked, Grows, [DeliveryNext]_deliveryVars
    PROVE  DeadIsParked'
  <1> SUFFICES ASSUME NEW v \in Workers, pc'[v] = "dead"
               PROVE  \E m \in dlq'[WorkerTopic[v]] : m.id = inflight'[v].id
    BY DEF DeadIsParked
  <1>0. WorkerTopic[v] \in Topics
    BY WorkerAssumption
  <1>1. CASE pc[v] = "dead" /\ inflight'[v] = inflight[v]
    BY <1>0, <1>1 DEF DeadIsParked, Grows
  <1>2. CASE DeadLetter(v)
    BY <1>0, <1>2 DEF DeadLetter, DeliveryTypeOK
  <1>3. QED
    BY <1>1, <1>2, DeadComesFromDeadLetter

LEMMA DoneComesFromItsStep ==
    ASSUME DeliveryTypeOK, [DeliveryNext]_deliveryVars,
           NEW v \in Workers, pc'[v] = "done"
    PROVE  /\ inflight'[v] = inflight[v]
           /\ \/ pc[v] = "done"
              \/ /\ \/ SkipDuplicate(v) \/ WorkSucceeds(v) \/ Requeue(v)
                    \/ DeadLetter(v) \/ OnDlqReturns(v)
                 /\ UNCHANGED consumerVars
  <1> USE DEF DeliveryTypeOK
  <1>1. ASSUME NEW w \in Workers,
               \/ \E p \in Partitions : Fetch(w, p)
               \/ Claim(w) \/ WorkSucceedsUnacked(w) \/ WorkFails(w)
               \/ LoseSession(w)
        PROVE  inflight'[v] = inflight[v] /\ pc[v] = "done"
    BY <1>1 DEF Fetch, Claim, WorkSucceedsUnacked, WorkFails, LoseSession, Goto
  <1>2. ASSUME NEW w \in Workers, CommitOffset(w) \/ Crash(w)
        PROVE  inflight'[v] = inflight[v] /\ pc[v] = "done"
    BY <1>2 DEF CommitOffset, Crash, Goto
  <1>3. ASSUME NEW w \in Workers,
               \/ SkipDuplicate(w) \/ WorkSucceeds(w) \/ Requeue(w)
               \/ DeadLetter(w) \/ OnDlqReturns(w)
        PROVE  /\ inflight'[v] = inflight[v]
               /\ UNCHANGED consumerVars
               /\ v # w => pc[v] = "done"
    BY <1>3 DEF SkipDuplicate, WorkSucceeds, Requeue, DeadLetter,
                OnDlqReturns, Goto
  <1>4. ASSUME \/ \E t \in Topics : Rebalance(t)
               \/ \E t \in Topics, id \in EventIds, d \in Docs :
                     Deliver(t, id, d)
               \/ UNCHANGED deliveryVars
        PROVE  inflight'[v] = inflight[v] /\ pc[v] = "done"
    BY <1>4 DEF Rebalance, Deliver, deliveryVars
  <1>5. QED
    BY <1>1, <1>2, <1>3, <1>4 DEF DeliveryNext, WorkerStep, DeliveryFault

(* A partition that is a record ahead after a step, in the hands of a worker
   that is done, was so before. *)
LEMMA AheadWasAhead ==
    ASSUME DeliveryTypeOK, [DeliveryNext]_deliveryVars,
           NEW v \in Workers, NEW s \in Streams, pc'[v] = "done",
           owner'[s] = v, position'[s] = committed'[s] + 1
    PROVE  /\ owner[s] = v
           /\ position[s] = committed[s] + 1
           /\ position'[s] = position[s]
  <1> USE DEF DeliveryTypeOK
  <1>0. committed[s] \in Nat /\ position[s] \in Nat
    OBVIOUS
  <1>1. CASE HandsKept
    BY <1>1 DEF HandsKept
  <1>2. ASSUME NEW w \in Workers, NEW p \in Partitions, Fetch(w, p)
        PROVE  /\ owner[s] = v
               /\ position[s] = committed[s] + 1
               /\ position'[s] = position[s]
    <2>1. pc'[w] = "received" /\ UNCHANGED <<owner, committed>>
      BY <1>2 DEF Fetch, Goto
    <2>2. s # <<WorkerTopic[w], p>>
      BY <1>2, <2>1 DEF Fetch
    <2>3. QED
      BY <1>2, <2>1, <2>2 DEF Fetch
  <1>3. ASSUME NEW w \in Workers, CommitOffset(w) \/ Crash(w)
        PROVE  /\ owner[s] = v
               /\ position[s] = committed[s] + 1
               /\ position'[s] = position[s]
    BY <1>0, <1>3 DEF CommitOffset, Crash, Goto, Assigned
  <1>4. ASSUME NEW t \in Topics, Rebalance(t)
        PROVE  /\ owner[s] = v
               /\ position[s] = committed[s] + 1
               /\ position'[s] = position[s]
    BY <1>0, <1>4 DEF Rebalance
  <1>5. QED
    BY <1>1, <1>2, <1>3, <1>4, StepMovesRecords

LEMMA NextDoneIsCovered ==
    ASSUME DeliveryTypeOK, RecordsInPlace, OneRecordAhead, DeadIsParked,
           DoneIsCovered, Grows, [DeliveryNext]_deliveryVars
    PROVE  DoneIsCovered'
  <1> SUFFICES ASSUME NEW v \in Workers, NEW s \in Streams, NEW id, NEW n,
                      id = inflight'[v].id, n = position'[s],
                      pc'[v] = "done",
                      owner'[s] = v, position'[s] = committed'[s] + 1
               PROVE  Covered(s, id, n)'
    BY DEF DoneIsCovered, Covered, Settled
  <1>0. /\ position[s] \in Nat
        /\ Len(log[s]) \in Nat
        /\ WorkerTopic[owner[s]] = s[1]
        /\ s[1] \in Topics
    BY DEF DeliveryTypeOK, BrokerTypeOK, Assignment, Streams
  <1>1. /\ owner[s] = v
        /\ position[s] = committed[s] + 1
        /\ n = position[s] /\ n \in Nat
        /\ id = inflight[v].id
    BY <1>0, AheadWasAhead, DoneComesFromItsStep
  <1>2. WorkerTopic[v] = s[1]
    BY <1>0, <1>1
  <1>3. CASE pc[v] = "done"
    <2>1. Covered(s, id, n)
      BY <1>1, <1>3 DEF DoneIsCovered
    <2>2. QED
      BY <1>1, <2>1, CoveredStays
  <1>4. CASE SkipDuplicate(v) \/ WorkSucceeds(v)
    BY <1>1, <1>2, <1>4
    DEF SkipDuplicate, WorkSucceeds, EventOf, Covered, Settled
  <1>5. CASE DeadLetter(v)
    BY <1>0, <1>1, <1>2, <1>5
    DEF DeadLetter, Covered, Settled, DeliveryTypeOK
  <1>6. CASE OnDlqReturns(v)
    BY <1>1, <1>2, <1>6
    DEF OnDlqReturns, Goto, DeadIsParked, Covered, Settled
  <1>7. CASE Requeue(v)
    <2> DEFINE m == NextAttempt(inflight[v])
    <2>1. /\ inflight[v] \in Message /\ m \in Message
          /\ m.id = id /\ m.doc = inflight[v].doc
          /\ Produce(s[1], m)
      BY <1>1, <1>2, <1>7, RequeueProduces
    <2> HIDE DEF m
    <2>2. /\ inflight[v] = log[s][n]
          /\ n \in 1 .. Len(log[s])
      BY <1>0, <1>1 DEF OneRecordAhead, Ahead, DeliveryTypeOK
    <2>3. StreamOf(s[1], m) = s
      BY <2>1, <2>2 DEF RecordsInPlace, StreamOf
    <2>4. Len(log'[s]) = Len(log[s]) + 1 /\ log'[s][Len(log[s]) + 1] = m
      BY <1>0, <2>1, <2>3, ProduceAppends DEF DeliveryTypeOK
    <2>5. \E j \in 1 .. Len(log'[s]) : j > n /\ log'[s][j].id = id
      BY <1>0, <2>1, <2>2, <2>4
    <2>6. QED
      BY <2>5 DEF Covered
  <1>8. QED
    BY <1>3, <1>4, <1>5, <1>6, <1>7, DoneComesFromItsStep

LEMMA NextNoEventLost ==
    ASSUME DeliveryTypeOK, OneRecordAhead, DoneIsCovered, NoEventLost, Grows,
           [DeliveryNext]_deliveryVars
    PROVE  NoEventLost'
  <1> SUFFICES ASSUME NEW s \in Streams, NEW i \in 1 .. committed'[s],
                      NEW id, NEW n, id = log'[s][i].id, n = committed'[s]
               PROVE  Covered(s, id, n)'
    BY DEF NoEventLost, Covered, Settled
  <1>0. /\ committed[s] \in Nat /\ position[s] \in Nat
        /\ Len(log[s]) \in Nat
        /\ owner[s] \in Workers
    BY DEF DeliveryTypeOK, BrokerTypeOK, Assignment
  <1>1. position[s] <= Len(log[s]) /\ committed[s] <= Len(log[s])
    BY <1>0 DEF OneRecordAhead, Ahead
  <1>2. CASE committed'[s] = committed[s]
    <2>1. id = log[s][i].id
      BY <1>0, <1>1, <1>2 DEF Grows
    <2>2. Covered(s, id, n)
      BY <1>2, <2>1 DEF NoEventLost
    <2>3. QED
      BY <1>0, <1>2, <2>2, CoveredStays
  <1>3. CASE committed'[s] # committed[s]
    <2>1. PICK w \in Workers : CommitOffset(w)
      <3>1. \A w \in Workers : Crash(w) \/ (\E p \in Partitions : Fetch(w, p))
                => committed' = committed
        BY DEF Crash, Fetch
      <3>2. \A t \in Topics : Rebalance(t) => committed' = committed
        BY DEF Rebalance
      <3>3. QED
        BY <1>3, <3>1, <3>2, StepMovesRecords DEF HandsKept
    <2>2. /\ UNCHANGED <<log, dlq, claims>>
          /\ owner[s] = w /\ n = position[s]
          /\ pc[w] = "done"
      BY <1>3, <2>1 DEF CommitOffset, Goto, Assigned
    <2>3. /\ position[s] = committed[s] + 1
          /\ inflight[w] = log[s][n]
      BY <1>3, <2>2 DEF OneRecordAhead, Ahead
    <2>4. Covered(s, log[s][n].id, n)
      BY <2>2, <2>3 DEF DoneIsCovered
    <2>5. id = log[s][i].id
      BY <2>2
    <2>6. Covered(s, id, n)
      <3>1. CASE i = n
        BY <2>4, <2>5, <3>1
      <3>2. CASE i \in 1 .. committed[s]
        <4>1. Covered(s, id, committed[s])
          BY <2>5, <3>2 DEF NoEventLost
        <4>2. CASE Settled(s[1], id)
          BY <4>2 DEF Covered
        <4>3. CASE \E j \in 1 .. Len(log[s]) :
                      j > committed[s] /\ log[s][j].id = id
          <5>1. PICK j \in 1 .. Len(log[s]) :
                   j > committed[s] /\ log[s][j].id = id
            BY <4>3
          <5>2. CASE j = n
            BY <2>4, <5>1, <5>2
          <5>3. CASE j > n
            BY <5>1, <5>3 DEF Covered
          <5>4. QED
            BY <1>0, <2>2, <2>3, <5>1, <5>2, <5>3
        <4>4. QED
          BY <4>1, <4>2, <4>3 DEF Covered
      <3>3. QED
        BY <1>0, <2>2, <2>3, <3>1, <3>2
    <2>7. QED
      BY <2>2, <2>6 DEF Covered, Settled
  <1>4. QED
    BY <1>2, <1>3

LEMMA NextDeliveryInv ==
    ASSUME DeliveryInv, [DeliveryNext]_deliveryVars
    PROVE  DeliveryInv'
  <1> USE DEF DeliveryInv
  <1>1. Grows
    BY NextGrows
  <1>2. DeliveryTypeOK' /\ RecordsInPlace'
    BY NextTypeOK, NextRecordsInPlace
  <1>3. OneRecordAhead' /\ DeadIsParked'
    BY <1>1, NextOneRecordAhead, NextDeadIsParked
  <1>4. DoneIsCovered' /\ NoEventLost'
    BY <1>1, NextDoneIsCovered, NextNoEventLost
  <1>5. QED
    BY <1>2, <1>3, <1>4

(* The invariant behind at-least-once delivery holds of every behaviour. *)
THEOREM DeliveryInvariant == DeliverySpec => []DeliveryInv
  BY InitDeliveryInv, NextDeliveryInv, PTL DEF DeliverySpec

(* At-least-once: no committed offset loses an event, for any number of
   workers, partitions, retries, crashes and rebalances. *)
THEOREM DeliveryLosesNothing == DeliverySpec => []NoEventLost
  <1>1. DeliveryInv => NoEventLost
    BY DEF DeliveryInv
  <1>2. QED
    BY <1>1, DeliveryInvariant, PTL

(* Offsets and claims only go forward. *)
THEOREM DeliveryKeepsProgress == DeliverySpec => NoProgressLost
  <1>1. ASSUME DeliveryInv, [DeliveryNext]_deliveryVars
        PROVE  /\ \A s \in Streams : committed'[s] >= committed[s]
               /\ claims \subseteq claims'
    <2>1. claims \subseteq claims'
      BY <1>1, NextGrows DEF DeliveryInv, Grows
    <2> SUFFICES ASSUME NEW s \in Streams PROVE committed'[s] >= committed[s]
      BY <2>1
    <2>2. /\ committed[s] \in Nat
          /\ position[s] \in {committed[s], committed[s] + 1}
      BY <1>1 DEF DeliveryInv, DeliveryTypeOK, OneRecordAhead, Ahead
    <2>3. CASE committed' = committed
      BY <2>2, <2>3
    <2>4. ASSUME NEW w \in Workers, CommitOffset(w)
          PROVE  committed'[s] >= committed[s]
      BY <2>2, <2>4 DEF CommitOffset
    <2>5. ASSUME \/ \E w \in Workers : \/ \E p \in Partitions : Fetch(w, p)
                                       \/ Crash(w)
                 \/ \E t \in Topics : Rebalance(t)
                 \/ HandsKept
          PROVE  committed' = committed
      BY <2>5 DEF Fetch, Crash, Rebalance, HandsKept
    <2>6. QED
      BY <1>1, <2>3, <2>4, <2>5, StepMovesRecords DEF DeliveryInv
  <1>2. QED
    BY <1>1, DeliveryInvariant, PTL DEF DeliverySpec, NoProgressLost

-----------------------------------------------------------------------------
(* An event's work takes effect once.

   No two handlers hold the claim of one event at a time, and none holds it
   once it is committed: the unique index makes the later one wait.  A handler
   whose session is gone holds nothing, and cannot commit. *)

ClaimExclusive ==
    \A w \in Workers : pc[w] = "working" =>
        /\ EventOf(w) \notin claims
        /\ \A v \in Workers :
              v # w /\ pc[v] = "working" => EventOf(v) # EventOf(w)

LEMMA WorkingComesFromClaim ==
    ASSUME DeliveryTypeOK, [DeliveryNext]_deliveryVars,
           NEW v \in Workers, pc'[v] = "working"
    PROVE  /\ inflight'[v] = inflight[v]
           /\ pc[v] = "working" \/ Claim(v)
           /\ ~WorkSucceeds(v) /\ ~WorkSucceedsUnacked(v)
  <1> USE DEF DeliveryTypeOK
  <1>0. ~WorkSucceeds(v) /\ ~WorkSucceedsUnacked(v)
    BY DEF WorkSucceeds, WorkSucceedsUnacked, Goto
  <1>1. ASSUME NEW w \in Workers,
               \/ \E p \in Partitions : Fetch(w, p)
               \/ SkipDuplicate(w) \/ WorkSucceeds(w)
               \/ WorkSucceedsUnacked(w) \/ WorkFails(w) \/ LoseSession(w)
        PROVE  inflight'[v] = inflight[v] /\ pc[v] = "working"
    BY <1>1 DEF Fetch, SkipDuplicate, WorkSucceeds, WorkSucceedsUnacked,
                WorkFails, LoseSession, Goto
  <1>2. ASSUME NEW w \in Workers,
               \/ Requeue(w) \/ DeadLetter(w) \/ OnDlqReturns(w)
               \/ CommitOffset(w) \/ Crash(w)
        PROVE  inflight'[v] = inflight[v] /\ pc[v] = "working"
    BY <1>2 DEF Requeue, DeadLetter, OnDlqReturns, CommitOffset, Crash, Goto
  <1>3. ASSUME NEW w \in Workers, Claim(w)
        PROVE  inflight'[v] = inflight[v] /\ (pc[v] = "working" \/ v = w)
    BY <1>3 DEF Claim, Goto
  <1>4. ASSUME \/ \E t \in Topics : Rebalance(t)
               \/ \E t \in Topics, id \in EventIds, d \in Docs :
                     Deliver(t, id, d)
               \/ UNCHANGED deliveryVars
        PROVE  inflight'[v] = inflight[v] /\ pc[v] = "working"
    BY <1>4 DEF Rebalance, Deliver, deliveryVars
  <1>5. QED
    BY <1>0, <1>1, <1>2, <1>3, <1>4
    DEF DeliveryNext, WorkerStep, DeliveryFault

LEMMA ClaimsComeFromWork ==
    ASSUME DeliveryTypeOK, [DeliveryNext]_deliveryVars,
           NEW e \in claims' \ claims
    PROVE  \E w \in Workers : /\ WorkSucceeds(w) \/ WorkSucceedsUnacked(w)
                              /\ pc[w] = "working"
                              /\ e = EventOf(w)
  <1>1. ASSUME NEW w \in Workers, WorkSucceeds(w) \/ WorkSucceedsUnacked(w)
        PROVE  pc[w] = "working" /\ e = EventOf(w)
    BY <1>1 DEF WorkSucceeds, WorkSucceedsUnacked, Goto
  <1>2. ASSUME NEW w \in Workers,
               \/ \E p \in Partitions : Fetch(w, p)
               \/ Claim(w) \/ SkipDuplicate(w) \/ WorkFails(w)
               \/ LoseSession(w) \/ Requeue(w)
               \/ DeadLetter(w) \/ OnDlqReturns(w) \/ CommitOffset(w)
               \/ Crash(w)
        PROVE  claims' = claims
    BY <1>2 DEF Fetch, Claim, SkipDuplicate, WorkFails, LoseSession, Requeue,
                DeadLetter, OnDlqReturns, CommitOffset, Crash
  <1>3. ASSUME \/ \E t \in Topics : Rebalance(t)
               \/ \E t \in Topics, id \in EventIds, d \in Docs :
                     Deliver(t, id, d)
               \/ UNCHANGED deliveryVars
        PROVE  claims' = claims
    BY <1>3 DEF Rebalance, Deliver, deliveryVars
  <1>4. QED
    BY <1>1, <1>2, <1>3 DEF DeliveryNext, WorkerStep, DeliveryFault

LEMMA NextClaimExclusive ==
    ASSUME DeliveryTypeOK, ClaimExclusive, [DeliveryNext]_deliveryVars
    PROVE  ClaimExclusive'
  <1> SUFFICES ASSUME NEW w \in Workers, pc'[w] = "working"
               PROVE  /\ EventOf(w)' \notin claims'
                      /\ \A v \in Workers :
                            v # w /\ pc'[v] = "working" =>
                                EventOf(v)' # EventOf(w)'
    BY DEF ClaimExclusive
  <1>1. \A v \in Workers : pc'[v] = "working" => EventOf(v)' = EventOf(v)
    BY WorkingComesFromClaim DEF EventOf
  <1>2. EventOf(w) \notin claims
    BY WorkingComesFromClaim DEF ClaimExclusive, Claim
  <1>3. \A v \in Workers : v # w /\ pc[v] = "working" => EventOf(v) # EventOf(w)
    BY WorkingComesFromClaim DEF ClaimExclusive, Claim
  <1>4. EventOf(w) \notin claims'
    <2> SUFFICES ASSUME EventOf(w) \in claims' PROVE FALSE
      OBVIOUS
    <2>1. PICK v \in Workers : /\ WorkSucceeds(v) \/ WorkSucceedsUnacked(v)
                               /\ pc[v] = "working"
                               /\ EventOf(w) = EventOf(v)
      BY <1>2, ClaimsComeFromWork
    <2>2. v # w
      BY <2>1, WorkingComesFromClaim
    <2>3. QED
      BY <1>3, <2>1, <2>2
  <1>5. ASSUME NEW v \in Workers, v # w, pc'[v] = "working"
        PROVE  EventOf(v) # EventOf(w)
    <2>1. CASE pc[v] = "working"
      BY <1>3, <1>5, <2>1
    <2>2. CASE Claim(v)
      <3>1. pc'[w] = pc[w]
        BY <1>5, <2>2 DEF Claim, Goto, DeliveryTypeOK
      <3>2. QED
        BY <2>2, <3>1 DEF Claim
    <2>3. QED
      BY <1>5, <2>1, <2>2, WorkingComesFromClaim
  <1>6. QED
    BY <1>1, <1>4, <1>5

LEMMA DeliveryClaimsExclusive ==
    DeliverySpec => [](DeliveryTypeOK /\ ClaimExclusive)
  <1>1. DeliveryInit => ClaimExclusive
    BY DEF DeliveryInit, ClaimExclusive
  <1>2. QED
    BY <1>1, InitTypeOK, NextTypeOK, NextClaimExclusive, PTL DEF DeliverySpec

(* No event is worked off twice, whatever the rebalances do and whichever
   handlers lose their session. *)
THEOREM DeliveryWorksOnce == DeliverySpec => WorkedOnce
  <1>1. ASSUME DeliveryTypeOK /\ ClaimExclusive
        PROVE  \A w \in Workers : WorkSucceeds(w) \/ WorkSucceedsUnacked(w) =>
                   EventOf(w) \notin claims
    BY <1>1 DEF WorkSucceeds, WorkSucceedsUnacked, Goto, ClaimExclusive
  <1>2. QED
    BY <1>1, DeliveryClaimsExclusive, PTL DEF WorkedOnce

-----------------------------------------------------------------------------
(* Every try is counted.  Takes, besides RecordsInPlace, that what a worker
   holds is still on the bus. *)

HeldIsOnBus ==
    \A w \in Workers : pc[w] # "idle" =>
        \E i \in 1 .. Len(log[StreamOf(WorkerTopic[w], inflight[w])]) :
            log[StreamOf(WorkerTopic[w], inflight[w])][i] = inflight[w]

HeldInv ==
    /\ DeliveryTypeOK
    /\ RecordsInPlace
    /\ HeldIsOnBus
    /\ TriesCounted

LEMMA HeldComesFromFetch ==
    ASSUME DeliveryTypeOK, [DeliveryNext]_deliveryVars,
           NEW v \in Workers, pc'[v] # "idle"
    PROVE  \/ pc[v] # "idle" /\ inflight'[v] = inflight[v]
           \/ \E p \in Partitions : Fetch(v, p)
  <1> USE DEF DeliveryTypeOK
  <1>1. ASSUME NEW w \in Workers, CommitOffset(w) \/ Crash(w)
        PROVE  pc[v] # "idle" /\ inflight'[v] = inflight[v]
    BY <1>1 DEF CommitOffset, Crash, Goto
  <1>2. ASSUME NEW w \in Workers, NEW p \in Partitions, Fetch(w, p), v # w
        PROVE  pc[v] # "idle" /\ inflight'[v] = inflight[v]
    BY <1>2 DEF Fetch, Goto
  <1>3. ASSUME NEW w \in Workers,
               \/ Claim(w) \/ SkipDuplicate(w) \/ WorkSucceeds(w)
               \/ WorkSucceedsUnacked(w) \/ WorkFails(w)
               \/ LoseSession(w) \/ Requeue(w)
               \/ DeadLetter(w) \/ OnDlqReturns(w)
        PROVE  pc[v] # "idle" /\ inflight'[v] = inflight[v]
    BY <1>3 DEF Claim, SkipDuplicate, WorkSucceeds, WorkSucceedsUnacked,
                WorkFails, LoseSession, Requeue, DeadLetter, OnDlqReturns, Goto
  <1>4. ASSUME \/ \E t \in Topics : Rebalance(t)
               \/ \E t \in Topics, id \in EventIds, d \in Docs :
                     Deliver(t, id, d)
               \/ UNCHANGED deliveryVars
        PROVE  pc[v] # "idle" /\ inflight'[v] = inflight[v]
    BY <1>4 DEF Rebalance, Deliver, deliveryVars
  <1>5. QED
    BY <1>1, <1>2, <1>3, <1>4 DEF DeliveryNext, WorkerStep, DeliveryFault

LEMMA HeldInItsStream ==
    ASSUME DeliveryTypeOK, NEW w \in Workers, pc[w] # "idle"
    PROVE  StreamOf(WorkerTopic[w], inflight[w]) \in Streams
  BY BusyHasMessage, BrokerAssumption, WorkerAssumption
  DEF StreamOf, Streams, Message

LEMMA NextHeldIsOnBus ==
    ASSUME DeliveryTypeOK, RecordsInPlace, HeldIsOnBus, Grows,
           [DeliveryNext]_deliveryVars
    PROVE  HeldIsOnBus'
  <1> SUFFICES ASSUME NEW v \in Workers, NEW m, m = inflight'[v],
                      NEW s, s = StreamOf(WorkerTopic[v], m),
                      pc'[v] # "idle"
               PROVE  \E i \in 1 .. Len(log'[s]) : log'[s][i] = m
    BY DEF HeldIsOnBus, StreamOf
  <1>1. CASE pc[v] # "idle" /\ inflight'[v] = inflight[v]
    <2>1. s \in Streams
      BY <1>1, HeldInItsStream
    <2>2. PICK i \in 1 .. Len(log[s]) : log[s][i] = m
      BY <1>1 DEF HeldIsOnBus
    <2>3. Len(log[s]) <= Len(log'[s]) /\ log'[s][i] = m
      BY <2>1, <2>2 DEF Grows
    <2>4. QED
      BY <2>2, <2>3
  <1>2. ASSUME NEW p \in Partitions, Fetch(v, p)
        PROVE  \E i \in 1 .. Len(log'[s]) : log'[s][i] = m
    <2> DEFINE r == <<WorkerTopic[v], p>>
    <2>1. r \in Streams
      BY WorkerAssumption DEF Streams
    <2>2. /\ position[r] < Len(log[r])
          /\ m = log[r][position[r] + 1]
          /\ log' = log
      BY <1>2 DEF Fetch, DeliveryTypeOK
    <2>3. position[r] + 1 \in 1 .. Len(log[r])
      BY <2>1, <2>2 DEF DeliveryTypeOK, BrokerTypeOK
    <2>4. s = r
      BY <2>1, <2>2, <2>3 DEF RecordsInPlace
    <2>5. QED
      BY <2>2, <2>3, <2>4
  <1>3. QED
    BY <1>1, <1>2, HeldComesFromFetch

LEMMA LogGrowsByProduce ==
    ASSUME DeliveryTypeOK, [DeliveryNext]_deliveryVars, log' # log
    PROVE  \/ \E t \in Topics, id \in EventIds, d \in Docs : Deliver(t, id, d)
           \/ \E w \in Workers : Requeue(w)
  <1>1. \A w \in Workers :
           ~Requeue(w) /\ WorkerStep(w) => UNCHANGED log
    BY DEF WorkerStep, Fetch, Claim, SkipDuplicate, WorkSucceeds, WorkFails,
           DeadLetter, OnDlqReturns, CommitOffset
  <1>2. DeliveryFault \/ UNCHANGED deliveryVars => UNCHANGED log
    BY DEF DeliveryFault, WorkSucceedsUnacked, LoseSession, Crash, Rebalance,
           deliveryVars
  <1>3. QED
    BY <1>1, <1>2 DEF DeliveryNext

(* The predecessor of a record in its partition, by attempt. *)
Follows(s, i) ==
    log[s][i].attempt > 0 =>
        \E j \in 1 .. (i - 1) : NextAttempt(log[s][j]) = log[s][i]

LEMMA NextTriesCounted ==
    ASSUME HeldInv, Grows, [DeliveryNext]_deliveryVars
    PROVE  TriesCounted'
  <1> USE DEF HeldInv
  <1>0. BrokerTypeOK /\ \A s \in Streams : Len(log[s]) \in Nat
    BY DEF DeliveryTypeOK, BrokerTypeOK
  <1>1. ASSUME NEW s \in Streams, NEW i \in 1 .. Len(log'[s])
        PROVE  Follows(s, i)'
    <2>1. CASE i \in 1 .. Len(log[s])
      <3>1. Follows(s, i)
        BY <2>1 DEF TriesCounted, Follows
      <3>2. \A j \in 1 .. i : log'[s][j] = log[s][j]
        BY <1>0, <2>1 DEF Grows
      <3>3. i \in Nat \ {0}
        BY <1>0, <2>1
      <3>4. log'[s][i] = log[s][i]
        BY <3>2, <3>3
      <3>5. CASE log[s][i].attempt > 0
        <4>1. PICK j \in 1 .. (i - 1) : NextAttempt(log[s][j]) = log[s][i]
          BY <3>1, <3>5 DEF Follows
        <4>2. log'[s][j] = log[s][j]
          BY <3>2, <3>3, <4>1
        <4>3. NextAttempt(log'[s][j]) = log'[s][i]
          BY <3>4, <4>1, <4>2
        <4>4. QED
          BY <4>1, <4>3 DEF Follows, NextAttempt
      <3>6. QED
        BY <3>4, <3>5 DEF Follows
    <2>2. CASE i \notin 1 .. Len(log[s])
      <3>1. log' # log
        BY <2>2
      <3>2. ASSUME NEW t \in Topics, NEW id \in EventIds, NEW d \in Docs,
                   Deliver(t, id, d)
            PROVE  Follows(s, i)'
        <4>1. log'[s][i] = FirstAttempt(id, d)
          BY <1>0, <2>2, <3>2, EnvelopeType, ProduceAppends DEF Deliver
        <4>2. log'[s][i].attempt = 0
          BY <4>1 DEF FirstAttempt
        <4>3. QED
          BY <4>2 DEF Follows
      <3>3. ASSUME NEW w \in Workers, Requeue(w)
            PROVE  Follows(s, i)'
        <4> DEFINE m == NextAttempt(inflight[w])
                   r == StreamOf(WorkerTopic[w], inflight[w])
        <4>1. m \in Message /\ m.doc = inflight[w].doc
              /\ Produce(WorkerTopic[w], m) /\ WorkerTopic[w] \in Topics
          BY <3>3, RequeueProduces
        <4>2. StreamOf(WorkerTopic[w], m) = r
          BY <4>1 DEF StreamOf
        <4> HIDE DEF m, r
        <4>3. /\ s = r /\ i = Len(log[s]) + 1
              /\ log'[s][i] = m
          BY <1>0, <2>2, <4>1, <4>2, ProduceAppends
        <4>4. PICK j \in 1 .. Len(log[s]) : log[s][j] = inflight[w]
          BY <3>3, <4>3 DEF HeldIsOnBus, Requeue, Goto, r
        <4>5. log'[s][j] = inflight[w] /\ j \in 1 .. (i - 1)
          BY <1>0, <4>3, <4>4 DEF Grows
        <4>6. NextAttempt(log'[s][j]) = log'[s][i]
          BY <4>3, <4>5 DEF m
        <4>7. QED
          BY <4>5, <4>6 DEF Follows, NextAttempt
      <3>4. QED
        BY <3>1, <3>2, <3>3, LogGrowsByProduce
    <2>3. QED
      BY <2>1, <2>2
  <1>2. ASSUME NEW t \in Topics, NEW m \in dlq'[t]
        PROVE  /\ m.attempt = MaxAttempts - 1
               /\ \E i \in 1 .. Len(log'[StreamOf(t, m)]) :
                     log'[StreamOf(t, m)][i] = m
    <2>1. CASE m \in dlq[t]
      <3>1. m \in Message
        BY <2>1 DEF DeliveryTypeOK
      <3>2. StreamOf(t, m) \in Streams
        BY <3>1, BrokerAssumption DEF StreamOf, Streams, Message
      <3>3. QED
        BY <1>0, <2>1, <3>2 DEF TriesCounted, Grows
    <2>2. CASE m \notin dlq[t]
      <3>1. PICK w \in Workers : DeadLetter(w)
        <4>1. \A w \in Workers :
                 ~DeadLetter(w) /\ WorkerStep(w) => UNCHANGED dlq
          BY DEF WorkerStep, Fetch, Claim, SkipDuplicate, WorkSucceeds,
                 WorkFails, Requeue, OnDlqReturns, CommitOffset
        <4>2. DeliveryFault \/ UNCHANGED deliveryVars => UNCHANGED dlq
          BY DEF DeliveryFault, WorkSucceedsUnacked, LoseSession, Crash, Rebalance,
                 deliveryVars
        <4>3. \A u \in Topics, id \in EventIds, d \in Docs :
                 Deliver(u, id, d) => UNCHANGED dlq
          BY DEF Deliver
        <4>4. QED
          BY <1>2, <2>2, <4>1, <4>2, <4>3 DEF DeliveryNext
      <3>2. /\ pc[w] = "failed"
            /\ m = inflight[w] /\ t = WorkerTopic[w]
            /\ m.attempt + 1 >= MaxAttempts
            /\ log' = log
        BY <1>2, <2>2, <3>1 DEF DeadLetter, Goto, DeliveryTypeOK
      <3>3. m \in Message
        BY <3>2, BusyHasMessage
      <3>4. m.attempt = MaxAttempts - 1
        BY <3>2, <3>3, BrokerAssumption DEF Message
      <3>5. QED
        BY <3>2, <3>4 DEF HeldIsOnBus
    <2>3. QED
      BY <2>1, <2>2
  <1>3. QED
    BY <1>1, <1>2 DEF TriesCounted, Follows, StreamOf, NextAttempt

LEMMA InitHeldInv == DeliveryInit => HeldInv
  <1> SUFFICES ASSUME DeliveryInit PROVE HeldInv
    OBVIOUS
  <1>1. /\ \A s \in Streams : Len(log[s]) = 0
        /\ \A t \in Topics : dlq[t] = {}
        /\ \A w \in Workers : pc[w] = "idle"
    BY DEF DeliveryInit, BrokerInit
  <1>2. QED
    BY <1>1, InitTypeOK DEF HeldInv, RecordsInPlace, HeldIsOnBus, TriesCounted

LEMMA NextHeldInv ==
    ASSUME HeldInv, [DeliveryNext]_deliveryVars
    PROVE  HeldInv'
  BY NextTypeOK, NextGrows, NextRecordsInPlace, NextHeldIsOnBus,
     NextTriesCounted DEF HeldInv

(* A retry always follows its previous attempt in the same partition, and an
   event reaches the DLQ only after all max_attempts tries. *)
THEOREM DeliveryCountsTries == DeliverySpec => []TriesCounted
  <1>1. HeldInv => TriesCounted
    BY DEF HeldInv
  <1>2. QED
    BY <1>1, InitHeldInv, NextHeldInv, PTL DEF DeliverySpec

-----------------------------------------------------------------------------
(* No more retries than publications and faults.

   RetriesBounded counts what is on the bus.  What makes it inductive is to
   count with the records at attempt a the ones that may yet lead to such a
   record: those not consumed yet, and those in a worker's hands, that are at
   an attempt before a.  A record that is fetched, tried and requeued moves
   from one count to the next; a fault may bring one record of a partition
   back from consumed to not consumed, since a position is at most one record
   ahead of the committed offset. *)

Trying == {"received", "working", "detached", "failed"}

ComingBefore(s, id, a) ==
    {i \in 1 .. Len(log[s]) :
        i > position[s] /\ log[s][i].id = id /\ log[s][i].attempt < a}

TriedBefore(s, id, a) ==
    {w \in Workers : /\ pc[w] \in Trying
                     /\ StreamOf(WorkerTopic[w], inflight[w]) = s
                     /\ inflight[w].id = id
                     /\ inflight[w].attempt < a}

Owed(s, id, a) ==
    Cardinality(TriesAt(s, id, a)) + Cardinality(ComingBefore(s, id, a))
        + Cardinality(TriedBefore(s, id, a))

RetriesOwed ==
    \A s \in Streams, id \in EventIds, a \in Nat :
        Owed(s, id, a) <= Cardinality(TriesAt(s, id, 0)) + faults

LEMMA CardinalityMonotone ==
    ASSUME NEW S, IsFiniteSet(S), NEW T, NEW x
    PROVE  /\ Cardinality(S) \in Nat
           /\ T \subseteq S \cup {x} =>
                  /\ Cardinality(T) \in Nat
                  /\ Cardinality(T) <= Cardinality(S) + 1
           /\ T \subseteq S => /\ Cardinality(T) \in Nat
                               /\ Cardinality(T) <= Cardinality(S)
           /\ x \in S /\ T \subseteq S \ {x} =>
                  Cardinality(T) <= Cardinality(S) - 1
           /\ x \notin S => Cardinality(S \cup {x}) = Cardinality(S) + 1
  <1>1. Cardinality(S) \in Nat
    BY FS_CardinalityType
  <1>2. T \subseteq S => /\ Cardinality(T) \in Nat
                         /\ Cardinality(T) <= Cardinality(S)
    BY FS_Subset, FS_CardinalityType
  <1>3. /\ IsFiniteSet(S \cup {x})
        /\ x \in S => Cardinality(S \cup {x}) = Cardinality(S)
        /\ x \notin S => Cardinality(S \cup {x}) = Cardinality(S) + 1
    BY FS_AddElement
  <1>4. /\ IsFiniteSet(S \ {x})
        /\ x \in S => Cardinality(S \ {x}) = Cardinality(S) - 1
    BY FS_RemoveElement
  <1>5. T \subseteq S \cup {x} => /\ Cardinality(T) \in Nat
                                  /\ Cardinality(T) <= Cardinality(S \cup {x})
    BY <1>3, FS_Subset, FS_CardinalityType
  <1>6. x \in S /\ T \subseteq S \ {x} => Cardinality(T) <= Cardinality(S \ {x})
    BY <1>4, FS_Subset
  <1>7. T \subseteq S \cup {x} => Cardinality(T) <= Cardinality(S) + 1
    BY <1>1, <1>3, <1>5
  <1>8. x \in S /\ T \subseteq S \ {x} => Cardinality(T) <= Cardinality(S) - 1
    BY <1>4, <1>6
  <1>9. QED
    BY <1>1, <1>2, <1>3, <1>5, <1>7, <1>8

LEMMA CountsFinite ==
    ASSUME DeliveryTypeOK, NEW s \in Streams, NEW id, NEW a
    PROVE  /\ IsFiniteSet(TriesAt(s, id, a))
           /\ IsFiniteSet(ComingBefore(s, id, a))
           /\ IsFiniteSet(TriedBefore(s, id, a))
           /\ Cardinality(TriesAt(s, id, a)) \in Nat
           /\ Cardinality(ComingBefore(s, id, a)) \in Nat
           /\ Cardinality(TriedBefore(s, id, a)) \in Nat
  <1>1. Len(log[s]) \in Nat
    BY DEF DeliveryTypeOK, BrokerTypeOK
  <1>2. IsFiniteSet(1 .. Len(log[s])) /\ IsFiniteSet(Workers)
    BY <1>1, FS_Interval, WorkerAssumption
  <1>3. /\ TriesAt(s, id, a) \subseteq 1 .. Len(log[s])
        /\ ComingBefore(s, id, a) \subseteq 1 .. Len(log[s])
        /\ TriedBefore(s, id, a) \subseteq Workers
    BY DEF TriesAt, ComingBefore, TriedBefore
  <1>4. /\ IsFiniteSet(TriesAt(s, id, a))
        /\ IsFiniteSet(ComingBefore(s, id, a))
        /\ IsFiniteSet(TriedBefore(s, id, a))
    BY <1>2, <1>3, FS_Subset
  <1>5. QED
    BY <1>4, FS_CardinalityType

(* A record put on the bus is counted at its own attempt, and as to come. *)
LEMMA ProduceCounts ==
    ASSUME DeliveryTypeOK, NEW t \in Topics, NEW m \in Message, Produce(t, m),
           UNCHANGED position,
           NEW s \in Streams, NEW id \in EventIds, NEW a \in Nat
    PROVE  /\ TriesAt(s, id, a)' =
                 IF s = StreamOf(t, m) /\ m.id = id /\ m.attempt = a
                 THEN TriesAt(s, id, a) \cup {Len(log[s]) + 1}
                 ELSE TriesAt(s, id, a)
           /\ Len(log[s]) + 1 \notin TriesAt(s, id, a)
           /\ ComingBefore(s, id, a)' \subseteq
                 IF s = StreamOf(t, m) /\ m.id = id /\ m.attempt < a
                 THEN ComingBefore(s, id, a) \cup {Len(log[s]) + 1}
                 ELSE ComingBefore(s, id, a)
  <1>1. Len(log[s]) \in Nat /\ position[s] \in Nat
    BY DEF DeliveryTypeOK, BrokerTypeOK
  <1>2. /\ s # StreamOf(t, m) => log'[s] = log[s]
        /\ s = StreamOf(t, m) => /\ Len(log'[s]) = Len(log[s]) + 1
                                 /\ log'[s][Len(log[s]) + 1] = m
        /\ \A i \in 1 .. Len(log[s]) : log'[s][i] = log[s][i]
    BY ProduceAppends DEF DeliveryTypeOK
  <1>3. CASE s # StreamOf(t, m)
    BY <1>1, <1>2, <1>3 DEF TriesAt, ComingBefore
  <1>4. CASE s = StreamOf(t, m)
    <2>1. 1 .. Len(log'[s]) = 1 .. Len(log[s]) \cup {Len(log[s]) + 1}
      BY <1>1, <1>2, <1>4
    <2>2. Len(log[s]) + 1 \notin 1 .. Len(log[s])
      BY <1>1
    <2>3. QED
      BY <1>2, <1>4, <2>1, <2>2 DEF TriesAt, ComingBefore
  <1>5. QED
    BY <1>3, <1>4

(* A worker that tries a record has just fetched it or tried it before. *)
LEMMA TryingComesFromFetch ==
    ASSUME DeliveryTypeOK, [DeliveryNext]_deliveryVars,
           NEW v \in Workers, pc'[v] \in Trying
    PROVE  \/ pc[v] \in Trying /\ inflight'[v] = inflight[v]
           \/ \E p \in Partitions : Fetch(v, p)
  <1> USE DEF DeliveryTypeOK, Trying
  <1>1. ASSUME NEW w \in Workers, NEW p \in Partitions, Fetch(w, p), v # w
        PROVE  pc[v] \in Trying /\ inflight'[v] = inflight[v]
    BY <1>1 DEF Fetch, Goto
  <1>2. ASSUME NEW w \in Workers,
               \/ Claim(w) \/ SkipDuplicate(w) \/ WorkSucceeds(w)
               \/ WorkSucceedsUnacked(w) \/ WorkFails(w) \/ LoseSession(w)
        PROVE  pc[v] \in Trying /\ inflight'[v] = inflight[v]
    BY <1>2 DEF Claim, SkipDuplicate, WorkSucceeds, WorkSucceedsUnacked,
                WorkFails, LoseSession, Goto
  <1>3. ASSUME NEW w \in Workers,
               \/ Requeue(w) \/ DeadLetter(w) \/ OnDlqReturns(w)
               \/ CommitOffset(w) \/ Crash(w)
        PROVE  pc[v] \in Trying /\ inflight'[v] = inflight[v]
    BY <1>3 DEF Requeue, DeadLetter, OnDlqReturns, CommitOffset, Crash, Goto
  <1>4. ASSUME \/ \E t \in Topics : Rebalance(t)
               \/ \E t \in Topics, id \in EventIds, d \in Docs :
                     Deliver(t, id, d)
               \/ UNCHANGED deliveryVars
        PROVE  pc[v] \in Trying /\ inflight'[v] = inflight[v]
    BY <1>4 DEF Rebalance, Deliver, deliveryVars
  <1>5. QED
    BY <1>1, <1>2, <1>3, <1>4 DEF DeliveryNext, WorkerStep, DeliveryFault

LEMMA TriedComesFromFetch ==
    ASSUME DeliveryTypeOK, [DeliveryNext]_deliveryVars,
           ~ \E w \in Workers, p \in Partitions : Fetch(w, p),
           NEW s, NEW id, NEW a
    PROVE  TriedBefore(s, id, a)' \subseteq TriedBefore(s, id, a)
  BY TryingComesFromFetch DEF TriedBefore, StreamOf

LEMMA DeliverOwes ==
    ASSUME DeliveryTypeOK, [DeliveryNext]_deliveryVars,
           NEW t \in Topics, NEW e \in EventIds, NEW d \in Docs,
           Deliver(t, e, d),
           NEW s \in Streams, NEW id \in EventIds, NEW a \in Nat,
           Owed(s, id, a) <= Cardinality(TriesAt(s, id, 0)) + faults
    PROVE  Owed(s, id, a)' <= Cardinality(TriesAt(s, id, 0)') + faults'
  <1> DEFINE m == FirstAttempt(e, d)
             n == Len(log[s]) + 1
             Z == TriesAt(s, id, 0)
             T == TriesAt(s, id, a)
             C == ComingBefore(s, id, a)
             H == TriedBefore(s, id, a)
             here == s = StreamOf(t, m) /\ m.id = id
  <1>1. /\ m \in Message /\ m.attempt = 0
        /\ Produce(t, m)
        /\ UNCHANGED <<faults, position>>
    BY EnvelopeType DEF Deliver, consumerVars, FirstAttempt
  <1>2. /\ Z' = IF here THEN Z \cup {n} ELSE Z
        /\ n \notin Z
        /\ T' = IF here /\ a = 0 THEN T \cup {n} ELSE T
        /\ n \notin T
        /\ C' \subseteq IF here /\ 0 < a THEN C \cup {n} ELSE C
    BY <1>1, ProduceCounts
  <1>3. H' \subseteq H
    BY <1>1 DEF Deliver, TriedBefore, StreamOf
  <1>4. IsFiniteSet(Z) /\ IsFiniteSet(T) /\ IsFiniteSet(C) /\ IsFiniteSet(H)
    BY CountsFinite
  <1>5. /\ Cardinality(Z) \in Nat /\ Cardinality(T) \in Nat
        /\ Cardinality(C) \in Nat /\ Cardinality(H) \in Nat
        /\ faults \in Nat
    BY CountsFinite, WorkerAssumption DEF DeliveryTypeOK
  <1>6. Cardinality(T) + Cardinality(C) + Cardinality(H) <= Cardinality(Z) + faults
    BY DEF Owed
  <1> HIDE DEF Z, T, C, H, m, n, here
  <1>7. /\ Cardinality(Z') = IF here THEN Cardinality(Z) + 1 ELSE Cardinality(Z)
        /\ Cardinality(T') = IF here /\ a = 0 THEN Cardinality(T) + 1
                                              ELSE Cardinality(T)
        /\ Cardinality(C') \in Nat /\ Cardinality(H') \in Nat
        /\ Cardinality(C') <= IF here /\ 0 < a THEN Cardinality(C) + 1
                                               ELSE Cardinality(C)
        /\ Cardinality(H') <= Cardinality(H)
    BY <1>2, <1>3, <1>4, CardinalityMonotone
  <1>8. Cardinality(T') + Cardinality(C') + Cardinality(H')
            <= Cardinality(Z') + faults'
    BY <1>1, <1>4, <1>5, <1>6, <1>7
  <1>9. QED
    BY <1>8 DEF Owed, Z, T, C, H

LEMMA RequeueOwes ==
    ASSUME DeliveryTypeOK, [DeliveryNext]_deliveryVars,
           NEW w \in Workers, Requeue(w),
           NEW s \in Streams, NEW id \in EventIds, NEW a \in Nat,
           Owed(s, id, a) <= Cardinality(TriesAt(s, id, 0)) + faults
    PROVE  Owed(s, id, a)' <= Cardinality(TriesAt(s, id, 0)') + faults'
  <1> DEFINE m == NextAttempt(inflight[w])
             k == inflight[w].attempt
             n == Len(log[s]) + 1
             Z == TriesAt(s, id, 0)
             T == TriesAt(s, id, a)
             C == ComingBefore(s, id, a)
             H == TriedBefore(s, id, a)
             here == s = StreamOf(WorkerTopic[w], m) /\ m.id = id
  <1>1. /\ m \in Message /\ m.attempt = k + 1 /\ k \in Nat
        /\ m.id = inflight[w].id
        /\ StreamOf(WorkerTopic[w], m) = StreamOf(WorkerTopic[w], inflight[w])
        /\ Produce(WorkerTopic[w], m) /\ WorkerTopic[w] \in Topics
        /\ UNCHANGED <<faults, position, inflight>>
        /\ pc[w] = "failed" /\ pc'[w] = "done"
        /\ \A v \in Workers : v # w => pc'[v] = pc[v]
    <2>1. /\ inflight[w] \in Message /\ m \in Message /\ m.id = inflight[w].id
          /\ m.doc = inflight[w].doc /\ m.attempt = k + 1
          /\ Produce(WorkerTopic[w], m) /\ WorkerTopic[w] \in Topics
      BY RequeueProduces
    <2>2. k \in Nat
      BY <2>1, BrokerAssumption DEF Message
    <2>3. /\ UNCHANGED <<faults, position, inflight>>
          /\ pc[w] = "failed" /\ pc'[w] = "done"
          /\ \A v \in Workers : v # w => pc'[v] = pc[v]
      BY DEF Requeue, Goto, consumerVars, DeliveryTypeOK
    <2>4. QED
      BY <2>1, <2>2, <2>3 DEF StreamOf
  <1>2. /\ Z' = Z
        /\ T' = IF here /\ k + 1 = a THEN T \cup {n} ELSE T
        /\ n \notin T
        /\ C' \subseteq IF here /\ k + 1 < a THEN C \cup {n} ELSE C
    BY <1>1, ProduceCounts
  <1>3. /\ H' \subseteq H
        /\ here /\ k < a => w \in H /\ H' \subseteq H \ {w}
    BY <1>1 DEF TriedBefore, StreamOf, Trying
  <1>4. IsFiniteSet(T) /\ IsFiniteSet(C) /\ IsFiniteSet(H)
    BY CountsFinite
  <1>5. /\ Cardinality(Z) \in Nat /\ Cardinality(T) \in Nat
        /\ Cardinality(C) \in Nat /\ Cardinality(H) \in Nat
        /\ faults \in Nat
    BY CountsFinite, WorkerAssumption DEF DeliveryTypeOK
  <1>6. Cardinality(T) + Cardinality(C) + Cardinality(H) <= Cardinality(Z) + faults
    BY DEF Owed
  <1>7. k \in Nat /\ faults' = faults
    BY <1>1
  <1> HIDE DEF Z, T, C, H, m, n, k, here
  <1>8. /\ Cardinality(C') \in Nat /\ Cardinality(H') \in Nat
        /\ Cardinality(T') = IF here /\ k + 1 = a THEN Cardinality(T) + 1
                                                  ELSE Cardinality(T)
        /\ Cardinality(C') <= IF here /\ k + 1 < a THEN Cardinality(C) + 1
                                                   ELSE Cardinality(C)
        /\ Cardinality(H') <= IF here /\ k < a THEN Cardinality(H) - 1
                                               ELSE Cardinality(H)
    BY <1>2, <1>3, <1>4, CardinalityMonotone
  <1>9. Cardinality(T') + Cardinality(C') + Cardinality(H')
            <= Cardinality(Z') + faults'
    BY <1>2, <1>4, <1>5, <1>6, <1>7, <1>8
  <1>10. QED
    BY <1>9 DEF Owed, Z, T, C, H

LEMMA FetchOwes ==
    ASSUME DeliveryTypeOK, RecordsInPlace, [DeliveryNext]_deliveryVars,
           NEW w \in Workers, NEW p \in Partitions, Fetch(w, p),
           NEW s \in Streams, NEW id \in EventIds, NEW a \in Nat,
           Owed(s, id, a) <= Cardinality(TriesAt(s, id, 0)) + faults
    PROVE  Owed(s, id, a)' <= Cardinality(TriesAt(s, id, 0)') + faults'
  <1> DEFINE r == <<WorkerTopic[w], p>>
             i == position[r] + 1
             m == log[r][i]
             Z == TriesAt(s, id, 0)
             T == TriesAt(s, id, a)
             C == ComingBefore(s, id, a)
             H == TriedBefore(s, id, a)
             here == s = r /\ m.id = id /\ m.attempt < a
  <1>1. r \in Streams
    BY WorkerAssumption DEF Streams
  <1>2. /\ position[r] \in Nat /\ Len(log[r]) \in Nat
        /\ i \in 1 .. Len(log[r])
        /\ UNCHANGED <<log, faults>>
        /\ inflight' = [inflight EXCEPT ![w] = m]
        /\ position' = [position EXCEPT ![r] = i]
        /\ pc' = [pc EXCEPT ![w] = "received"]
        /\ pc[w] = "idle"
    BY <1>1 DEF Fetch, Goto, DeliveryTypeOK, BrokerTypeOK
  <1>3. StreamOf(WorkerTopic[w], m) = r
    BY <1>1, <1>2 DEF RecordsInPlace
  <1>4. Z' = Z /\ T' = T
    BY <1>2 DEF TriesAt
  <1>5. C' \subseteq C /\ (here => i \in C /\ C' \subseteq C \ {i})
    <2>1. position'[s] = IF s = r THEN i ELSE position[s]
      BY <1>1, <1>2 DEF DeliveryTypeOK
    <2> HIDE DEF r
    <2>2. QED
      BY <1>2, <2>1 DEF ComingBefore
  <1>6. H' \subseteq H \cup {w} /\ (~here => H' \subseteq H)
    <2>1. \A v \in Workers : v # w => pc'[v] = pc[v] /\ inflight'[v] = inflight[v]
      BY <1>2 DEF DeliveryTypeOK
    <2>2. inflight'[w] = m
      BY <1>2 DEF DeliveryTypeOK
    <2>3. w \notin H
      BY <1>2 DEF TriedBefore, Trying
    <2>4. \A v \in Workers : v # w => (v \in H' <=> v \in H)
      BY <2>1 DEF TriedBefore, StreamOf
    <2>5. w \in H' => here
      BY <1>3, <2>2 DEF TriedBefore, StreamOf
    <2>6. H' \subseteq Workers
      BY DEF TriedBefore
    <2>7. QED
      BY <2>3, <2>4, <2>5, <2>6
  <1>7. IsFiniteSet(C) /\ IsFiniteSet(H)
    BY CountsFinite
  <1>8. /\ Cardinality(Z) \in Nat /\ Cardinality(T) \in Nat
        /\ Cardinality(C) \in Nat /\ Cardinality(H) \in Nat
        /\ faults \in Nat
    BY CountsFinite, WorkerAssumption DEF DeliveryTypeOK
  <1>9. Cardinality(T) + Cardinality(C) + Cardinality(H) <= Cardinality(Z) + faults
    BY DEF Owed
  <1>10. faults' = faults
    BY <1>2
  <1> HIDE DEF Z, T, C, H, m, i, r, here
  <1>11. /\ Cardinality(C') \in Nat /\ Cardinality(H') \in Nat
         /\ Cardinality(C') <= IF here THEN Cardinality(C) - 1 ELSE Cardinality(C)
         /\ Cardinality(H') <= IF here THEN Cardinality(H) + 1 ELSE Cardinality(H)
    BY <1>5, <1>6, <1>7, CardinalityMonotone
  <1>12. Cardinality(T') + Cardinality(C') + Cardinality(H')
            <= Cardinality(Z') + faults'
    BY <1>4, <1>7, <1>8, <1>9, <1>10, <1>11
  <1>13. QED
    BY <1>12 DEF Owed, Z, T, C, H

(* The other steps publish nothing; a crash or a rebalance brings at most the
   record at the position back, and is a fault more. *)
LEMMA OtherStepOwes ==
    ASSUME DeliveryTypeOK, [DeliveryNext]_deliveryVars,
           ~ \E w \in Workers, p \in Partitions : Fetch(w, p),
           UNCHANGED log,
           NEW s \in Streams, NEW id \in EventIds, NEW a \in Nat,
           \/ position'[s] = position[s] /\ faults' \in {faults, faults + 1}
           \/ position'[s] = position[s] - 1 /\ faults' = faults + 1,
           Owed(s, id, a) <= Cardinality(TriesAt(s, id, 0)) + faults
    PROVE  Owed(s, id, a)' <= Cardinality(TriesAt(s, id, 0)') + faults'
  <1> DEFINE Z == TriesAt(s, id, 0)
             T == TriesAt(s, id, a)
             C == ComingBefore(s, id, a)
             H == TriedBefore(s, id, a)
             n == position[s]
  <1>1. Z' = Z /\ T' = T
    BY DEF TriesAt
  <1>2. /\ position'[s] = n => C' \subseteq C
        /\ position'[s] = n - 1 => C' \subseteq C \cup {n}
    <2>1. n \in Nat /\ Len(log[s]) \in Nat
      BY DEF DeliveryTypeOK, BrokerTypeOK
    <2>2. QED
      BY <2>1 DEF ComingBefore
  <1>3. H' \subseteq H
    BY TriedComesFromFetch
  <1>4. IsFiniteSet(C) /\ IsFiniteSet(H)
    BY CountsFinite
  <1>5. /\ Cardinality(Z) \in Nat /\ Cardinality(T) \in Nat
        /\ Cardinality(C) \in Nat /\ Cardinality(H) \in Nat
        /\ faults \in Nat
    BY CountsFinite, WorkerAssumption DEF DeliveryTypeOK
  <1>6. Cardinality(T) + Cardinality(C) + Cardinality(H) <= Cardinality(Z) + faults
    BY DEF Owed
  <1> HIDE DEF Z, T, C, H
  <1>7. /\ Cardinality(C') \in Nat /\ Cardinality(H') \in Nat
        /\ position'[s] = n => Cardinality(C') <= Cardinality(C)
        /\ position'[s] = n - 1 => Cardinality(C') <= Cardinality(C) + 1
        /\ Cardinality(H') <= Cardinality(H)
    BY <1>2, <1>3, <1>4, CardinalityMonotone
  <1>8. Cardinality(T') + Cardinality(C') + Cardinality(H')
            <= Cardinality(Z') + faults'
    BY <1>1, <1>4, <1>5, <1>6, <1>7
  <1>9. QED
    BY <1>8 DEF Owed, Z, T, C, H

LEMMA NextRetriesOwed ==
    ASSUME DeliveryInv, RetriesOwed, [DeliveryNext]_deliveryVars
    PROVE  RetriesOwed'
  <1> USE DEF DeliveryInv
  <1> SUFFICES ASSUME NEW s \in Streams, NEW id \in EventIds, NEW a \in Nat
               PROVE  Owed(s, id, a)' <= Cardinality(TriesAt(s, id, 0)') + faults'
    BY DEF RetriesOwed, Owed
  <1>0. Owed(s, id, a) <= Cardinality(TriesAt(s, id, 0)) + faults
    BY DEF RetriesOwed, Owed
  <1>1. CASE \E t \in Topics, e \in EventIds, d \in Docs : Deliver(t, e, d)
    BY <1>0, <1>1, DeliverOwes
  <1>2. CASE \E w \in Workers : Requeue(w)
    BY <1>0, <1>2, RequeueOwes
  <1>3. CASE \E w \in Workers, p \in Partitions : Fetch(w, p)
    BY <1>0, <1>3, FetchOwes
  <1>4. ASSUME UNCHANGED log, ~ \E w \in Workers, p \in Partitions : Fetch(w, p)
        PROVE  \/ position'[s] = position[s] /\ faults' \in {faults, faults + 1}
               \/ position'[s] = position[s] - 1 /\ faults' = faults + 1
    <2>1. /\ position[s] \in Nat /\ committed[s] \in Nat
          /\ position[s] \in {committed[s], committed[s] + 1}
      BY DEF DeliveryTypeOK, OneRecordAhead, Ahead
    <2>2. ASSUME NEW w \in Workers,
                 \/ Claim(w) \/ SkipDuplicate(w) \/ WorkSucceeds(w)
                 \/ WorkFails(w) \/ Requeue(w) \/ DeadLetter(w)
                 \/ OnDlqReturns(w) \/ CommitOffset(w)
          PROVE  UNCHANGED <<position, faults>>
      BY <2>2 DEF Claim, SkipDuplicate, WorkSucceeds, WorkFails, Requeue,
                  DeadLetter, OnDlqReturns, CommitOffset, consumerVars
    <2>3. ASSUME NEW w \in Workers, WorkSucceedsUnacked(w) \/ LoseSession(w)
          PROVE  UNCHANGED position /\ faults' = faults + 1
      BY <2>3 DEF WorkSucceedsUnacked, LoseSession, Fault, consumerVars
    <2>4. ASSUME \/ \E w \in Workers : Crash(w)
                 \/ \E t \in Topics : Rebalance(t)
          PROVE  position'[s] \in {position[s], committed[s]} /\ faults' = faults + 1
      BY <2>4 DEF Crash, Rebalance, Fault
    <2>5. ASSUME \/ \E t \in Topics, e \in EventIds, d \in Docs : Deliver(t, e, d)
                 \/ UNCHANGED deliveryVars
          PROVE  UNCHANGED <<position, faults>>
      BY <2>5 DEF Deliver, consumerVars, deliveryVars
    <2>6. \/ UNCHANGED <<position, faults>>
          \/ UNCHANGED position /\ faults' = faults + 1
          \/ position'[s] \in {position[s], committed[s]} /\ faults' = faults + 1
      BY <1>4, <2>2, <2>3, <2>4, <2>5
      DEF DeliveryNext, WorkerStep, DeliveryFault
    <2>7. QED
      BY <2>1, <2>6
  <1>5. CASE UNCHANGED log /\ ~ \E w \in Workers, p \in Partitions : Fetch(w, p)
    BY <1>0, <1>4, <1>5, OtherStepOwes
  <1>6. QED
    BY <1>1, <1>2, <1>3, <1>5, LogGrowsByProduce

(* An event is on the bus at any attempt at most as often as the relay has
   published it, and once more for every fault, with any number of workers,
   partitions and attempts. *)
THEOREM DeliveryBoundsRetries == DeliverySpec => []RetriesBounded
  <1>1. DeliveryInit => RetriesOwed
    <2> SUFFICES ASSUME DeliveryInit, NEW s \in Streams, NEW id \in EventIds,
                        NEW a \in Nat
                 PROVE  Owed(s, id, a) <= Cardinality(TriesAt(s, id, 0)) + faults
      BY DEF RetriesOwed
    <2>1. /\ Len(log[s]) = 0 /\ faults = 0
          /\ \A w \in Workers : pc[w] = "idle"
      BY DEF DeliveryInit, BrokerInit
    <2>2. /\ TriesAt(s, id, a) = {} /\ ComingBefore(s, id, a) = {}
          /\ TriedBefore(s, id, a) = {} /\ TriesAt(s, id, 0) = {}
      BY <2>1 DEF TriesAt, ComingBefore, TriedBefore, Trying
    <2>3. /\ Cardinality(TriesAt(s, id, a)) = 0
          /\ Cardinality(ComingBefore(s, id, a)) = 0
          /\ Cardinality(TriedBefore(s, id, a)) = 0
          /\ Cardinality(TriesAt(s, id, 0)) = 0
      BY <2>2, FS_EmptySet
    <2>4. QED
      BY <2>1, <2>3 DEF Owed
  <1>2. ASSUME DeliveryTypeOK, RetriesOwed
        PROVE  RetriesBounded
    <2> SUFFICES ASSUME NEW s \in Streams, NEW i \in 1 .. Len(log[s]),
                        NEW m, m = log[s][i]
                 PROVE  Cardinality(TriesAt(s, m.id, m.attempt))
                            <= Cardinality(TriesAt(s, m.id, 0)) + faults
      BY DEF RetriesBounded
    <2>1. m \in Message
      BY <1>2 DEF DeliveryTypeOK, BrokerTypeOK
    <2>2. m.id \in EventIds /\ m.attempt \in Nat /\ faults \in Nat
      BY <1>2, <2>1, BrokerAssumption, WorkerAssumption
      DEF Message, DeliveryTypeOK
    <2>3. /\ Cardinality(TriesAt(s, m.id, m.attempt)) \in Nat
          /\ Cardinality(ComingBefore(s, m.id, m.attempt)) \in Nat
          /\ Cardinality(TriedBefore(s, m.id, m.attempt)) \in Nat
          /\ Cardinality(TriesAt(s, m.id, 0)) \in Nat
      BY <1>2, CountsFinite
    <2>4. QED
      BY <1>2, <2>2, <2>3 DEF RetriesOwed, Owed
  <1>3. DeliveryInv => DeliveryTypeOK
    BY DEF DeliveryInv
  <1>4. QED
    BY <1>1, <1>2, <1>3, InitDeliveryInv, NextDeliveryInv, NextRetriesOwed, PTL
    DEF DeliverySpec
=============================================================================
