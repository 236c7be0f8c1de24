------------------------------ MODULE Delivery ------------------------------
(***************************************************************************)
(* At-least-once consumption with idempotent handlers: the loop every      *)
(* worker runs (run_worker), the retry and dead-letter policy it funnels   *)
(* through (process_with_retry) and the claim that makes a handler         *)
(* idempotent (mark_processed).                                            *)
(*                                                                         *)
(* The consumer of a partition may change while a worker is still busy     *)
(* with a record of it, so one record can be in two hands; the claims      *)
(* table and the order "publish the retry, then commit the offset" have to *)
(* make up for that.                                                       *)
(***************************************************************************)
EXTENDS Broker

CONSTANTS
    Workers,       \* worker processes
    WorkerTopic,   \* the topic each consumes: [Workers -> Topics]
    FaultKinds,    \* which of "crash", "rebalance", "lostAck", "lostSession"
    MaxFaults      \* bound: faults the workers may suffer

ASSUME WorkerAssumption ==
    /\ IsFiniteSet(Workers)
    /\ WorkerTopic \in [Workers -> Topics]
    /\ \A t \in Topics : \E w \in Workers : WorkerTopic[w] = t
    /\ MaxFaults \in Nat

VARIABLES
    dlq,        \* [Topics -> SUBSET Message]: records of each <topic>.DLQ
    committed,  \* [Streams -> Nat]: offset the consumer group has committed
    position,   \* [Streams -> Nat]: offset its owner has consumed up to
    owner,      \* [Streams -> Workers]: who the partition is assigned to
    pc,         \* [Workers -> Steps]: where each worker's loop stands
    inflight,   \* [Workers -> Message or NoMessage]: the record in its hands
    claims,     \* processed_events: <<group's topic, event id>> pairs
    faults      \* faults suffered so far

consumerVars == <<committed, position, owner>>
deliveryVars == <<log, dlq, committed, position, owner, pc, inflight, claims,
                  faults>>

(* idle      waiting in "async for record in consumer"
   received  envelope decoded, work() not yet past the claim
   working   claim inserted, transaction open
   detached  still at work, but the database has ended the session
   failed    work() has raised
   dead      routed to the DLQ, on_dlq still to run
   done      process_with_retry has returned, offset not yet committed *)
Steps ==
    {"idle", "received", "working", "detached", "failed", "dead", "done"}

(* The topics whose worker passes an on_dlq callback: the projector has no
   job status to fail. *)
TopicsWithOnDlq == Topics \ {"enriched"}

(* The streams assigned to w. *)
Assigned(w) == {s \in Streams : owner[s] = w}

EventOf(w) == <<WorkerTopic[w], inflight[w].id>>

Assignment ==
    {a \in [Streams -> Workers] : \A s \in Streams : WorkerTopic[a[s]] = s[1]}

DeliveryInit ==
    /\ BrokerInit
    /\ committed = [s \in Streams |-> 0]
    /\ position = [s \in Streams |-> 0]
    /\ owner \in Assignment
    /\ pc = [w \in Workers |-> "idle"]
    /\ inflight = [w \in Workers |-> NoMessage]
    /\ claims = {}
    /\ dlq = [t \in Topics |-> {}]
    /\ faults = 0

-----------------------------------------------------------------------------
(* The worker loop. *)

Goto(w, from, to) ==
    /\ pc[w] = from
    /\ pc' = [pc EXCEPT ![w] = to]

(* Mutant of Fetch: enable_auto_commit commits the offset with the fetch. *)
FetchAutoCommits(w, p) ==
    LET s == <<WorkerTopic[w], p>> IN
    /\ Goto(w, "idle", "received")
    /\ owner[s] = w
    /\ position[s] < Len(log[s])
    /\ inflight' = [inflight EXCEPT ![w] = log[s][position[s] + 1]]
    /\ position' = [position EXCEPT ![s] = @ + 1]
    /\ committed' = [committed EXCEPT ![s] = position[s] + 1]
    /\ UNCHANGED <<log, dlq, faults, owner, claims>>

(* The consumer hands w the next record of a partition assigned to it. *)
Fetch(w, p) ==
    LET s == <<WorkerTopic[w], p>> IN
    /\ Goto(w, "idle", "received")
    /\ owner[s] = w
    /\ position[s] < Len(log[s])
    /\ inflight' = [inflight EXCEPT ![w] = log[s][position[s] + 1]]
    /\ position' = [position EXCEPT ![s] = @ + 1]
    /\ UNCHANGED <<log, dlq, faults, committed, owner, claims>>

(* Mutant of Claim: a look at the committed claims, no unique index. *)
ClaimWithoutIndex(w) ==
    /\ Goto(w, "received", "working")
    /\ EventOf(w) \notin claims
    /\ UNCHANGED <<log, dlq, faults, consumerVars, inflight, claims>>

(* mark_processed returns True.  The unique index makes a second insert of
   the same pair wait until the transaction holding the first one ends, which
   need not be the end of the handler that began it. *)
Claim(w) ==
    /\ Goto(w, "received", "working")
    /\ EventOf(w) \notin claims
    /\ \A v \in Workers : pc[v] = "working" => EventOf(v) # EventOf(w)
    /\ UNCHANGED <<log, dlq, faults, consumerVars, inflight, claims>>

(* mark_processed returns False: the handler returns without working. *)
SkipDuplicate(w) ==
    /\ Goto(w, "received", "done")
    /\ EventOf(w) \in claims
    /\ UNCHANGED <<log, dlq, faults, consumerVars, inflight, claims>>

(* Mutant of WorkSucceeds: the claim is not part of the transaction. *)
WorkSucceedsUnclaimed(w) ==
    /\ Goto(w, "working", "done")
    /\ UNCHANGED <<log, dlq, faults, consumerVars, inflight, claims>>

(* The handler's transaction commits, the claim with it. *)
WorkSucceeds(w) ==
    /\ Goto(w, "working", "done")
    /\ claims' = claims \cup {EventOf(w)}
    /\ UNCHANGED <<log, dlq, faults, consumerVars, inflight>>

(* work() raises and its transaction, claim included, rolls back.  Without a
   session it raises at its next statement, the commit at the latest. *)
WorkFails(w) ==
    /\ \E from \in {"received", "working", "detached"} : Goto(w, from, "failed")
    /\ UNCHANGED <<log, dlq, faults, consumerVars, inflight, claims>>

(* Mutant of Requeue: the last attempt is neither requeued nor parked. *)
RequeueOneShort(w) ==
    LET retried == NextAttempt(inflight[w]) IN
    /\ Goto(w, "failed", "done")
    /\ retried.attempt + 1 < MaxAttempts
    /\ Produce(WorkerTopic[w], retried)
    /\ UNCHANGED <<dlq, faults, consumerVars, inflight, claims>>

(* Mutant of Requeue: it leaves the failed record to be read again as well. *)
RequeueAndSeekBack(w) ==
    LET retried == NextAttempt(inflight[w]) IN
    /\ Goto(w, "failed", "done")
    /\ retried.attempt < MaxAttempts
    /\ Produce(WorkerTopic[w], retried)
    /\ position' = [s \in Streams |->
                       IF s \in Assigned(w) THEN committed[s] ELSE position[s]]
    /\ UNCHANGED <<dlq, faults, committed, owner, inflight, claims>>

(* Attempts left: the event goes back to its own topic. *)
Requeue(w) ==
    LET retried == NextAttempt(inflight[w]) IN
    /\ Goto(w, "failed", "done")
    /\ retried.attempt < MaxAttempts
    /\ Produce(WorkerTopic[w], retried)
    /\ UNCHANGED <<dlq, faults, consumerVars, inflight, claims>>

(* Mutant of DeadLetter: it gives up with one attempt left. *)
DeadLetterEarly(w) ==
    LET t == WorkerTopic[w] IN
    /\ Goto(w, "failed", IF t \in TopicsWithOnDlq THEN "dead" ELSE "done")
    /\ inflight[w].attempt + 2 >= MaxAttempts
    /\ dlq' = [dlq EXCEPT ![t] = @ \cup {inflight[w]}]
    /\ UNCHANGED <<log, faults, consumerVars, inflight, claims>>

(* Attempts exhausted: the event goes to the DLQ as it came. *)
DeadLetter(w) ==
    LET t == WorkerTopic[w] IN
    /\ Goto(w, "failed", IF t \in TopicsWithOnDlq THEN "dead" ELSE "done")
    /\ inflight[w].attempt + 1 >= MaxAttempts
    /\ dlq' = [dlq EXCEPT ![t] = @ \cup {inflight[w]}]
    /\ UNCHANGED <<log, faults, consumerVars, inflight, claims>>

(* The on_dlq callback returns; it swallows its own errors. *)
OnDlqReturns(w) ==
    /\ Goto(w, "dead", "done")
    /\ UNCHANGED <<log, dlq, faults, consumerVars, inflight, claims>>

(* Mutant of CommitOffset: the loop keeps the record it is through with. *)
CommitOffsetKeepsRecord(w) ==
    /\ Goto(w, "done", "idle")
    /\ committed' = [s \in Streams |->
                        IF s \in Assigned(w) THEN position[s] ELSE committed[s]]
    /\ UNCHANGED <<log, dlq, faults, position, owner, inflight, claims>>

(* consumer.commit(): the consumed position of every partition assigned now,
   which is not necessarily the partition the record came from. *)
CommitOffset(w) ==
    /\ Goto(w, "done", "idle")
    /\ committed' = [s \in Streams |->
                        IF s \in Assigned(w) THEN position[s] ELSE committed[s]]
    /\ inflight' = [inflight EXCEPT ![w] = NoMessage]
    /\ UNCHANGED <<log, dlq, faults, position, owner, claims>>

-----------------------------------------------------------------------------
(* Faults: one of kind k happens, within the budget. *)

Fault(k) ==
    /\ k \in FaultKinds
    /\ faults < MaxFaults
    /\ faults' = faults + 1

(* The transaction commits but the acknowledgement is lost with the
   connection, so work() raises. *)
WorkSucceedsUnacked(w) ==
    /\ Fault("lostAck")
    /\ Goto(w, "working", "failed")
    /\ claims' = claims \cup {EventOf(w)}
    /\ UNCHANGED <<log, dlq, consumerVars, inflight>>

(* Postgres ends the session of a running handler, and the transaction with
   it: the claim is free while the handler goes on. *)
LoseSession(w) ==
    /\ Fault("lostSession")
    /\ Goto(w, "working", "detached")
    /\ UNCHANGED <<log, dlq, consumerVars, inflight, claims>>

(* w dies with a record in its hands, or leaves its loop because a publish,
   a commit or the decoding raised, and starts again from the committed
   offsets.  Its open transaction rolls back. *)
Crash(w) ==
    /\ Fault("crash")
    /\ pc[w] # "idle"
    /\ pc' = [pc EXCEPT ![w] = "idle"]
    /\ inflight' = [inflight EXCEPT ![w] = NoMessage]
    /\ position' = [s \in Streams |->
                       IF s \in Assigned(w) THEN committed[s] ELSE position[s]]
    /\ UNCHANGED <<log, dlq, committed, owner, claims>>

(* Mutant of Rebalance: new owners start at the beginning of the log. *)
RebalanceRewinds(t) ==
    /\ Fault("rebalance")
    /\ owner' \in Assignment
    /\ \A s \in Streams : s[1] # t => owner'[s] = owner[s]
    /\ position' = [s \in Streams |-> IF s[1] = t THEN 0 ELSE position[s]]
    /\ UNCHANGED <<log, dlq, committed, pc, inflight, claims>>

(* The group coordinator reassigns the partitions of t, for instance because
   a handler outlasts max.poll.interval.  Busy workers are not interrupted;
   the new owners start from the committed offsets. *)
Rebalance(t) ==
    /\ Fault("rebalance")
    /\ owner' \in Assignment
    /\ \A s \in Streams : s[1] # t => owner'[s] = owner[s]
    /\ position' = [s \in Streams |->
                       IF s[1] = t THEN committed[s] ELSE position[s]]
    /\ UNCHANGED <<log, dlq, committed, pc, inflight, claims>>

(* The relay publishes event id of document d on t, for the first or, after a
   rollback of its own, for another time. *)
Deliver(t, id, d) ==
    /\ Produce(t, FirstAttempt(id, d))
    /\ UNCHANGED <<dlq, faults, consumerVars, pc, inflight, claims>>

(* What a worker does of itself; it keeps doing it as long as it can. *)
WorkerStep(w) ==
    \/ \E p \in Partitions : Fetch(w, p)
    \/ Claim(w)
    \/ SkipDuplicate(w)
    \/ WorkSucceeds(w)
    \/ WorkFails(w)
    \/ Requeue(w)
    \/ DeadLetter(w)
    \/ OnDlqReturns(w)
    \/ CommitOffset(w)

DeliveryFault ==
    \/ \E w \in Workers :
          WorkSucceedsUnacked(w) \/ LoseSession(w) \/ Crash(w)
    \/ \E t \in Topics : Rebalance(t)

DeliveryNext ==
    \/ \E t \in Topics, id \in EventIds, d \in Docs : Deliver(t, id, d)
    \/ \E w \in Workers : WorkerStep(w)
    \/ DeliveryFault

DeliverySpec == DeliveryInit /\ [][DeliveryNext]_deliveryVars

-----------------------------------------------------------------------------
(* Properties. *)

(* Every variable has its type. *)
DeliveryTypeOK ==
    /\ BrokerTypeOK
    /\ dlq \in [Topics -> SUBSET Message]
    /\ committed \in [Streams -> Nat]
    /\ position \in [Streams -> Nat]
    /\ owner \in Assignment
    /\ pc \in [Workers -> Steps]
    /\ inflight \in [Workers -> Message \cup {NoMessage}]
    /\ \A w \in Workers : pc[w] = "idle" <=> inflight[w] = NoMessage
    /\ claims \subseteq Topics \X EventIds
    /\ faults \in 0 .. MaxFaults

(* Event id of topic t is accounted for by something other than its records:
   its work is done or it is parked in the DLQ. *)
Settled(t, id) ==
    \/ <<t, id>> \in claims
    \/ \E m \in dlq[t] : m.id = id

(* ... or one of the records of s after offset i will bring it again. *)
Covered(s, id, i) ==
    \/ Settled(s[1], id)
    \/ \E j \in 1 .. Len(log[s]) : j > i /\ log[s][j].id = id

(* At-least-once: an offset is committed only past records whose event has
   been worked off, parked in the DLQ, or comes again further down the same
   partition, whatever crashes and rebalances happen between the steps of the
   loop (KafkaConsumer: "re-delivers rather than silently drops"). *)
NoEventLost ==
    \A s \in Streams : \A i \in 1 .. committed[s] :
        Covered(s, log[s][i].id, committed[s])

(* An event's work takes effect once: whoever commits a handler's transaction
   finds the event's claim not committed before, although a rebalance puts the
   record into two hands and a handler may go on without its session while the
   next one claims the event (mark_processed, uq_processed_event_group). *)
WorkedOnce ==
    [][\A w \in Workers : WorkSucceeds(w) \/ WorkSucceedsUnacked(w) =>
          EventOf(w) \notin claims]_deliveryVars

(* The retry policy counts every try: a record of attempt n + 1 follows one
   of attempt n of the same event in its partition, and an event reaches the
   DLQ only with all max_attempts tries in its topic's log. *)
TriesCounted ==
    /\ \A s \in Streams : \A i \in 1 .. Len(log[s]) :
          log[s][i].attempt > 0 =>
              \E j \in 1 .. (i - 1) : NextAttempt(log[s][j]) = log[s][i]
    /\ \A t \in Topics : \A m \in dlq[t] :
          /\ m.attempt = MaxAttempts - 1
          /\ \E i \in 1 .. Len(log[StreamOf(t, m)]) : log[StreamOf(t, m)][i] = m

(* The records of event id in s that are at attempt a. *)
TriesAt(s, id, a) ==
    {i \in 1 .. Len(log[s]) : log[s][i].id = id /\ log[s][i].attempt = a}

(* Redelivery costs no more than it must: an event is on the bus at attempt n
   at most as often as the relay has published it, and once more for every
   fault.  A worker killed between the retry's publish and the offset's commit
   leaves both the record and its retry, but never more than that one extra
   chain of attempts (process_with_retry, run_worker). *)
RetriesBounded ==
    \A s \in Streams : \A i \in 1 .. Len(log[s]) :
        LET m == log[s][i] IN
        Cardinality(TriesAt(s, m.id, m.attempt))
            <= Cardinality(TriesAt(s, m.id, 0)) + faults

(* Committed offsets never move back, although a worker commits whatever it
   is assigned at that moment, and claims are never withdrawn. *)
NoProgressLost ==
    [][ /\ \A s \in Streams : committed'[s] >= committed[s]
        /\ claims \subseteq claims' ]_deliveryVars
=============================================================================
